------------------------ MODULE ValidationRoundProofs ------------------------
(***************************************************************************)
(* Proofs about ValidationRound: a round that counts as a proof has        *)
(* checked every file of its map, for any number of files and threads.     *)
(*                                                                         *)
(* The argument: a file leaves the iterator once a round, so no two tasks  *)
(* of a round hold the same file (CurrentIsNew); a task is counted after   *)
(* its file was entered in checked, so the count never exceeds the number  *)
(* of files checked whose tasks have been counted (CountIsEarned); when it *)
(* reaches the size of the map, every file has been checked.               *)
(*                                                                         *)
(* The second part is about the verdicts: those handed in and those still  *)
(* held by tasks of the round are together what the round found (Handed),  *)
(* so a round with nobody left to hand in applies exactly its own.         *)
(***************************************************************************)
EXTENDS ValidationRound, FiniteSetTheorems, WellFoundedInduction, TLAPS

\* The main loop is in a round.
Live == loop \in {"draw", "reset", "queue", "take", "clear"}

\* A task of the present random number that holds a file not yet judged.
Current(w) ==
    task[w].pc \in {"check", "look"} /\ task[w].random = g_validate_random

Counting == {w \in Worker : task[w].pc = "count"}
Uncounted == {task[w].file : w \in Counting}

\* Where a task holds a file.
Holding == {"check", "look", "count", "push"}

Bounds ==
    /\ loop = "draw" => g_validate_random < MaxDraw
    /\ loop \in {"reset", "queue", "take", "clear", "srd"} =>
          g_validate_random <= MaxDraw
    /\ round <= (IF loop = "draw" THEN g_validate_random + 1 ELSE g_validate_random)
    /\ \A w \in Worker : task[w].random <= g_validate_random
    /\ \A w \in Worker : task[w].pc \in Holding => task[w].file \in File

\* Outside a round the map is empty and nobody holds a file of this number.
Outside ==
    /\ loop \in {"idle", "srd"} => g_validate_files_m = {}
    /\ loop = "idle" => \A w \in Worker : ~Current(w)

\* The tasks of a round hold different files, none of them checked.
CurrentIsNew ==
    Live => \A w \in Worker : Current(w) =>
        /\ task[w].file \in g_validate_files_m
        /\ task[w].file \notin g_validate_files_m_iter \cup checked
        /\ \A v \in Worker \ {w} : Current(v) => task[v].file # task[w].file

CheckedIsPassed ==
    Live => /\ checked \subseteq g_validate_files_m
            /\ g_validate_files_m_iter \cap checked = {}

\* A task about to be counted has checked a file of its own.
CountingIsChecked ==
    loop \in {"draw", "reset", "queue"} /\ stray = {} =>
        \A w \in Counting :
            /\ task[w].file \in checked
            /\ \A v \in Counting \ {w} : task[v].file # task[w].file

\* As many tasks were counted as files were checked by a task that has been.
CountIsEarned ==
    loop = "queue" /\ stray = {} =>
        g_validated_files_num <= Cardinality(checked \ Uncounted)

ProofInRound == proof => loop \in {"take", "clear"}

RoundInv ==
    /\ RoundTypeOK
    /\ Bounds
    /\ Outside
    /\ CurrentIsNew
    /\ CheckedIsPassed
    /\ CountingIsChecked
    /\ CountIsEarned
    /\ ProofInRound
    /\ ProofIsEarned

-----------------------------------------------------------------------------
(* Lemmas *)

\* The iterator stands at an element of the map as long as one is left.
LEMMA FirstIsIn ==
  ASSUME NEW S \in SUBSET File, S # {}
  PROVE  First(S) \in S
<1>1. S \subseteq Nat
  BY ValidationRoundAssumption
<1>2. \E f \in S : \A g \in S : ~(<<g, f>> \in OpToRel(<, Nat))
  BY <1>1, NatLessThanWellFounded, WFMin
<1>3. PICK f \in S : \A g \in S : ~(<<g, f>> \in OpToRel(<, Nat))
  BY <1>2
<1>4. \A g \in S : f <= g
  <2> SUFFICES ASSUME NEW g \in S, ~(f <= g) PROVE FALSE
    OBVIOUS
  <2>1. g \in Nat /\ f \in Nat /\ g < f
    BY <1>1
  <2>2. <<g, f>> \in {ss \in Nat \X Nat : ss[1] < ss[2]}
    BY <2>1
  <2> QED BY <1>3, <2>2 DEF OpToRel
<1> QED BY <1>4 DEF First

LEMMA FilesAreFinite ==
  ASSUME NEW S \in SUBSET File
  PROVE  IsFiniteSet(S) /\ Cardinality(S) \in Nat /\ Cardinality(S) <= Cardinality(File)
BY FS_Subset, FS_CardinalityType, ValidationRoundAssumption

TaskType == [pc : {"free", "file", "check", "look", "count", "push"},
             random : 0..(MaxDraw + 1), file : File \cup {0},
             map : 0..(MaxDraw + 1), changed : BOOLEAN]

\* Initially nothing has begun.
LEMMA RoundInitInv == Init => RoundInv
<1> SUFFICES ASSUME Init PROVE RoundInv
  OBVIOUS
<1> USE ValidationRoundAssumption DEF Init
<1>1. NoTask \in TaskType
  BY DEF NoTask, TaskType
<1>2. task \in [Worker -> TaskType]
  BY <1>1
<1>3. Cardinality(File) \in Nat
  BY FilesAreFinite
<1>4. to_queue \in 0..Cardinality(File)
  BY <1>3
<1>5. RoundTypeOK
  <2>1. proof \in BOOLEAN /\ undefined \in BOOLEAN
    OBVIOUS
  <2>2. 0 \in Nat /\ 0 \in 0..(MaxDraw + 1)
    OBVIOUS
  <2> QED BY <1>2, <1>4, <2>1, <2>2 DEF RoundTypeOK, TaskType
<1>6. Bounds /\ Outside
  BY DEF Bounds, Outside, Current, NoTask, Holding
<1> QED
  BY <1>5, <1>6 DEF RoundInv, CurrentIsNew, CheckedIsPassed, CountingIsChecked,
     CountIsEarned, ProofInRound, ProofIsEarned, Live

-----------------------------------------------------------------------------
(* Types and bounds *)

\* The steps of the main loop keep types and bounds.
LEMMA MainTypes ==
  ASSUME RoundTypeOK, Bounds, MainLoop
  PROVE  RoundTypeOK' /\ Bounds'
<1> USE ValidationRoundAssumption
<1>a. Cardinality(File) \in Nat
  BY FilesAreFinite
<1>b. \A S \in SUBSET File : Cardinality(S) \in 0..Cardinality(File)
  BY FilesAreFinite, <1>a
<1>1. CASE fill
  <2>1. /\ g_validate_files_m' \subseteq File
        /\ to_queue' \in 0..Cardinality(File)
    BY <1>1, <1>b DEF fill, RoundTypeOK
  <2> QED BY <1>1, <2>1 DEF fill, RoundTypeOK, Bounds, Caught
<1>2. CASE draw
  BY <1>2 DEF draw, RoundTypeOK, Bounds, Caught, mapVars, histVars
<1>3. CASE reset
  BY <1>3 DEF reset, RoundTypeOK, Bounds, mapVars, histVars
<1>4. CASE recall_validate_file
  BY <1>4, <1>a DEF recall_validate_file, RoundTypeOK, Bounds, mapVars, histVars
<1>5. CASE recall_failed
  <2>1. to_queue' \in 0..Cardinality(File)
    BY <1>5, <1>a DEF recall_failed, RoundTypeOK
  <2>2. CASE g_validate_files_m_iter = {}
    BY <1>5, <2>1, <2>2 DEF recall_failed, RoundTypeOK, Bounds
  <2>3. CASE g_validate_files_m_iter # {}
    <3> DEFINE f == First(g_validate_files_m_iter)
    <3>1. f \in g_validate_files_m_iter /\ f \in File
      BY <2>3, FirstIsIn DEF RoundTypeOK
    <3> HIDE DEF f
    <3>2. round \in 0..(MaxDraw + 1)
      BY DEF RoundTypeOK, Bounds
    <3>3. /\ g_validate_files_m_iter' = g_validate_files_m_iter \ {f}
          /\ g_validated_files_num' = g_validated_files_num + 1
          /\ g_changed_files_v' = g_changed_files_v \cup {<<f, round>>}
          /\ checked' = checked \cup {f}
          /\ found' = found \cup {f}
          /\ UNCHANGED undefined
      BY <1>5, <2>3 DEF recall_failed, f
    <3>4. /\ UNCHANGED <<loop, g_validate_files_m, g_validate_random, queued, task,
                         proof, applied, round, stray>>
      BY <1>5 DEF recall_failed
    <3>5. g_changed_files_v' \subseteq File \X (0..(MaxDraw + 1))
      BY <3>1, <3>2, <3>3 DEF RoundTypeOK
    <3> QED BY <2>1, <3>1, <3>3, <3>4, <3>5 DEF RoundTypeOK, Bounds
  <2> QED BY <2>2, <2>3
<1>6. CASE wait_complete \/ wait_timeout
  BY <1>6 DEF wait_complete, wait_timeout, RoundTypeOK, Bounds, mapVars, histVars
<1>7. CASE take_verdicts
  BY <1>7 DEF take_verdicts, RoundTypeOK, Bounds, mapVars, histVars, Caught
<1>8. CASE clear
  BY <1>8 DEF clear, RoundTypeOK, Bounds, mapVars, histVars
<1>9. CASE validate_srd
  BY <1>9 DEF validate_srd, RoundTypeOK, Bounds, mapVars, histVars, Caught
<1> QED BY <1>1, <1>2, <1>3, <1>4, <1>5, <1>6, <1>7, <1>8, <1>9 DEF MainLoop

\* The steps of a task keep types and bounds.
LEMMA TaskTypes ==
  ASSUME RoundTypeOK, Bounds, NEW w \in Worker, Task(w)
  PROVE  RoundTypeOK' /\ Bounds'
<1> USE ValidationRoundAssumption
<1>0. /\ task \in [Worker -> TaskType]
      /\ round \in 0..(MaxDraw + 1)
      /\ g_validate_random \in 0..(MaxDraw + 1)
      /\ NoTask \in TaskType
  BY DEF RoundTypeOK, Bounds, TaskType, NoTask
<1>R. /\ task[w].random <= g_validate_random /\ NoTask.random = 0
      /\ task[w].pc \in Holding => task[w].file \in File
      /\ NoTask.pc \notin Holding
  BY DEF Bounds, NoTask, Holding
\* What is left to show when a step changes one task only.
<1>T. ASSUME NEW th \in TaskType, th.random <= g_validate_random,
             th.pc \in Holding => th.file \in File,
             task' = [task EXCEPT ![w] = th],
             UNCHANGED <<loop, round, g_validate_random>>
      PROVE  task' \in [Worker -> TaskType] /\ Bounds'
  BY <1>0, <1>T DEF Bounds
<1>F. ASSUME Free(w), UNCHANGED <<loop, round, g_validate_random>>
      PROVE  task' \in [Worker -> TaskType] /\ Bounds'
  <2>1. NoTask.random <= g_validate_random
    BY <1>0, <1>R
  <2>2. task' = [task EXCEPT ![w] = NoTask]
    BY <1>F DEF Free
  <2> QED BY <1>0, <1>R, <1>F, <1>T, <2>1, <2>2
<1>1. CASE start(w)
  <2> DEFINE th == [NoTask EXCEPT !.pc = "file", !.random = g_validate_random]
  <2>1. th \in TaskType /\ th.random <= g_validate_random /\ th.pc \notin Holding
    <3>1. th.pc = "file" /\ th.random = g_validate_random
      BY DEF NoTask
    <3>2. th \in TaskType
      BY <1>0 DEF TaskType
    <3>3. g_validate_random <= g_validate_random
      BY <1>0
    <3> QED BY <3>1, <3>2, <3>3 DEF Holding
  <2>2. task' \in [Worker -> TaskType] /\ Bounds'
    BY <1>1, <1>T, <2>1 DEF start, mainVars, histVars
  <2> QED BY <1>1, <2>2 DEF start, RoundTypeOK, TaskType, mainVars, mapVars, histVars
<1>2. CASE take_file(w)
  <2>1. CASE Free(w)
    <3>1. task' \in [Worker -> TaskType] /\ Bounds'
      BY <1>2, <1>F, <2>1 DEF take_file, mainVars, histVars
    <3> QED
      BY <1>2, <2>1, <3>1 DEF take_file, RoundTypeOK, TaskType, mainVars, histVars, Free
  <2>2. CASE g_validate_files_m_iter # {}
    <3> DEFINE f == First(g_validate_files_m_iter)
               t0 == task[w]
               th == [t0 EXCEPT !.pc = "check", !.file = f, !.map = round]
    <3>1. f \in g_validate_files_m_iter /\ f \in File
      BY <2>2, FirstIsIn DEF RoundTypeOK
    <3>2. th \in TaskType /\ th.random <= g_validate_random /\ th.file \in File
      <4>1. t0 \in TaskType /\ t0.random <= g_validate_random
        BY <1>0, <1>R
      <4> HIDE DEF t0, f
      <4> QED BY <1>0, <3>1, <4>1 DEF TaskType
    <3>3. g_validate_files_m # {}
      BY <2>2 DEF RoundTypeOK
    <3>4. /\ g_validate_files_m_iter' = g_validate_files_m_iter \ {f}
          /\ task' = [task EXCEPT ![w] = th]
          /\ UNCHANGED undefined
      BY <1>2, <2>2, <3>3, <1>0 DEF take_file
    <3>5. UNCHANGED <<loop, to_queue, proof, applied, g_validate_files_m,
                      g_validate_random, g_validated_files_num, g_changed_files_v,
                      queued, round, checked, found, stray>>
      BY <1>2 DEF take_file, mainVars, histVars
    <3>6. task' \in [Worker -> TaskType] /\ Bounds'
      BY <1>T, <3>2, <3>4, <3>5
    <3> HIDE DEF th, f
    <3> QED BY <3>4, <3>5, <3>6 DEF RoundTypeOK, TaskType
  <2> QED BY <1>2, <2>1, <2>2 DEF take_file
<1>3. CASE check(w)
  <2>1. PICK b \in BOOLEAN :
          task' = [task EXCEPT ![w] = [task[w] EXCEPT !.pc = "look", !.changed = b]]
    BY <1>3, <1>0 DEF check
  <2> DEFINE t0 == task[w]
             th == [t0 EXCEPT !.pc = "look", !.changed = b]
  <2>2. th \in TaskType /\ th.random <= g_validate_random /\ th.file \in File
    <3>1. t0 \in TaskType /\ t0.random <= g_validate_random /\ t0.file \in File
      BY <1>0, <1>R, <1>3 DEF check, At, Holding
    <3> HIDE DEF t0
    <3> QED BY <3>1 DEF TaskType
  <2>3. task' \in [Worker -> TaskType] /\ Bounds'
    BY <1>3, <1>T, <2>1, <2>2 DEF check, mainVars, histVars
  <2> QED BY <1>3, <2>3 DEF check, RoundTypeOK, TaskType, mainVars, mapVars, histVars
<1>G. ASSUME NEW pc \in {"count", "push"}, Goto(w, pc),
             task[w].pc \in Holding, UNCHANGED <<loop, round, g_validate_random>>
      PROVE  task' \in [Worker -> TaskType] /\ Bounds'
  <2> DEFINE t0 == task[w]
             th == [t0 EXCEPT !.pc = pc]
  <2>1. th \in TaskType /\ th.random <= g_validate_random /\ th.file \in File
    <3>1. t0 \in TaskType /\ t0.random <= g_validate_random /\ t0.file \in File
      BY <1>0, <1>R, <1>G
    <3> HIDE DEF t0
    <3> QED BY <3>1 DEF TaskType
  <2>2. task' = [task EXCEPT ![w] = th]
    BY <1>G, <1>0 DEF Goto
  <2> QED BY <1>G, <1>T, <2>1, <2>2
<1>4. CASE look(w)
  <2>1. task' \in [Worker -> TaskType] /\ Bounds'
    BY <1>4, <1>G, <1>F DEF look, mainVars, At, Holding
  <2>2. task[w].file \in File
    BY <1>4, <1>R DEF look, At, Holding
  <2>3. /\ checked' \subseteq File /\ found' \subseteq checked'
        /\ stray' \subseteq Worker
    BY <1>4, <2>2 DEF look, RoundTypeOK
  <2> QED BY <1>4, <2>1, <2>3 DEF look, RoundTypeOK, TaskType, mainVars, mapVars
<1>5. CASE count(w)
  <2>1. task' \in [Worker -> TaskType] /\ Bounds'
    BY <1>5, <1>G, <1>F DEF count, mainVars, histVars, At, Holding
  <2> QED BY <1>5, <2>1 DEF count, RoundTypeOK, TaskType, mainVars, mapVars, histVars
<1>6. CASE push(w)
  <2>1. task' \in [Worker -> TaskType] /\ Bounds'
    BY <1>6, <1>F DEF push, mainVars, histVars
  <2>2. task[w].file \in File /\ task[w].map \in 0..(MaxDraw + 1)
    BY <1>0, <1>6, <1>R DEF push, At, Holding, TaskType
  <2>3. g_changed_files_v' \subseteq File \X (0..(MaxDraw + 1))
    BY <1>6, <2>2 DEF push, RoundTypeOK
  <2> QED BY <1>6, <2>1, <2>3 DEF push, RoundTypeOK, TaskType, mainVars, mapVars, histVars
<1> QED BY <1>1, <1>2, <1>3, <1>4, <1>5, <1>6 DEF Task

-----------------------------------------------------------------------------
(* The count of a round *)

Counted ==
    /\ Outside
    /\ CurrentIsNew
    /\ CheckedIsPassed
    /\ CountingIsChecked
    /\ CountIsEarned
    /\ ProofInRound
    /\ ProofIsEarned

\* A step that leaves the tasks, the random number and what was checked alone
\* and stays in a round keeps what is said of tasks.
LEMMA SameTasks ==
  ASSUME Counted, Live, Live',
         UNCHANGED <<task, g_validate_random, checked, g_validate_files_m,
                     g_validate_files_m_iter>>
  PROVE  Outside' /\ CurrentIsNew' /\ CheckedIsPassed'
BY DEF Counted, Live, Outside, CurrentIsNew, CheckedIsPassed, Current

\* The steps of the main loop keep the count right.
LEMMA MainCounted ==
  ASSUME RoundTypeOK, Bounds, Counted, MainLoop
  PROVE  Counted'
<1> USE ValidationRoundAssumption
<1>0. /\ task \in [Worker -> TaskType]
      /\ g_validate_random \in Nat
      /\ \A w \in Worker : task[w].random \in Nat
  BY DEF RoundTypeOK, TaskType
<1>1. CASE fill
  <2>1. /\ loop = "idle" /\ loop' = "draw"
        /\ checked' = {}
        /\ UNCHANGED <<task, g_validate_random, proof>>
        /\ Counting \subseteq stray'
    BY <1>1 DEF fill, Counting, Caught
  <2>2. \A w \in Worker : ~Current(w)'
    BY <2>1 DEF Counted, Outside, Current
  <2>3. ~proof'
    BY <2>1 DEF Counted, ProofInRound
  <2>4. Outside' /\ CurrentIsNew' /\ CheckedIsPassed'
    BY <2>1, <2>2 DEF Outside, CurrentIsNew, CheckedIsPassed
  <2>5. CountingIsChecked' /\ CountIsEarned'
    BY <2>1 DEF CountingIsChecked, CountIsEarned, Counting
  <2> QED BY <2>3, <2>4, <2>5 DEF Counted, ProofInRound, ProofIsEarned
<1>2. CASE draw
  <2>1. /\ loop = "draw" /\ loop' = "reset"
        /\ g_validate_random' = g_validate_random + 1
        /\ UNCHANGED <<task, checked, g_validate_files_m, g_validate_files_m_iter, proof>>
        /\ Counting \subseteq stray'
    BY <1>2 DEF draw, Counting, Caught, mapVars, histVars
  <2>2. \A w \in Worker : ~Current(w)'
    BY <1>0, <2>1 DEF Bounds, Current
  <2>3. ~proof'
    BY <2>1 DEF Counted, ProofInRound
  <2>4. Outside' /\ CurrentIsNew' /\ CheckedIsPassed'
    BY <2>1, <2>2 DEF Counted, Outside, CurrentIsNew, CheckedIsPassed, Live
  <2>5. CountingIsChecked' /\ CountIsEarned'
    BY <2>1 DEF CountingIsChecked, CountIsEarned, Counting
  <2> QED BY <2>3, <2>4, <2>5 DEF Counted, ProofInRound, ProofIsEarned
<1>3. CASE reset
  <2>1. /\ loop = "reset" /\ loop' = "queue"
        /\ g_validated_files_num' = 0
        /\ UNCHANGED <<task, g_validate_random, checked, g_validate_files_m,
                       g_validate_files_m_iter, proof, stray>>
    BY <1>3 DEF reset, mapVars, histVars
  <2>2. Outside' /\ CurrentIsNew' /\ CheckedIsPassed'
    BY <2>1, SameTasks DEF Live
  <2>3. CountingIsChecked'
    BY <2>1 DEF Counted, CountingIsChecked, Counting
  <2>4. Cardinality((checked \ Uncounted)') \in Nat
    BY <2>1, FilesAreFinite DEF RoundTypeOK
  <2>5. CountIsEarned'
    BY <2>1, <2>4 DEF CountIsEarned
  <2> QED
    BY <2>1, <2>2, <2>3, <2>5 DEF Counted, ProofInRound, ProofIsEarned
<1>4. CASE recall_validate_file
  BY <1>4 DEF recall_validate_file, mapVars, histVars, Counted, Outside, CurrentIsNew,
     CheckedIsPassed, CountingIsChecked, CountIsEarned, ProofInRound, ProofIsEarned,
     Live, Current, Counting, Uncounted
<1>5. CASE recall_failed
  <2>1. CASE g_validate_files_m_iter = {}
    BY <1>5, <2>1 DEF recall_failed, Counted, Outside, CurrentIsNew,
       CheckedIsPassed, CountingIsChecked, CountIsEarned, ProofInRound, ProofIsEarned,
       Live, Current, Counting, Uncounted
  <2>2. CASE g_validate_files_m_iter # {}
    <3> DEFINE f == First(g_validate_files_m_iter)
    <3>1. f \in g_validate_files_m_iter /\ f \in g_validate_files_m
      BY <2>2, FirstIsIn DEF RoundTypeOK
    <3>2. /\ loop = "queue" /\ loop' = "queue"
          /\ g_validate_files_m_iter' = g_validate_files_m_iter \ {f}
          /\ g_validated_files_num' = g_validated_files_num + 1
          /\ checked' = checked \cup {f}
          /\ UNCHANGED <<task, g_validate_random, g_validate_files_m, proof, stray>>
      BY <1>5, <2>2 DEF recall_failed
    <3> HIDE DEF f
    <3>3. f \notin checked /\ checked \subseteq g_validate_files_m
      BY <3>1, <3>2 DEF Counted, CheckedIsPassed, Live
    <3>4. CheckedIsPassed' /\ Outside'
      BY <3>1, <3>2, <3>3 DEF Counted, CheckedIsPassed, Outside, Live
    <3>5. CurrentIsNew'
      BY <3>1, <3>2 DEF Counted, CurrentIsNew, Live, Current
    <3>6. CountingIsChecked'
      BY <3>2 DEF Counted, CountingIsChecked, Counting
    <3>7. CountIsEarned'
      <4> SUFFICES ASSUME stray = {}
                   PROVE  g_validated_files_num' <= Cardinality((checked \ Uncounted)')
        BY <3>2 DEF CountIsEarned
      <4>1. Uncounted \subseteq checked /\ Uncounted' = Uncounted
        BY <3>2 DEF Counted, CountingIsChecked, Uncounted, Counting
      <4>2. (checked \ Uncounted)' = (checked \ Uncounted) \cup {f} /\ f \notin checked \ Uncounted
        BY <3>2, <3>3, <4>1
      <4>3. IsFiniteSet(checked \ Uncounted) /\ Cardinality(checked \ Uncounted) \in Nat
        BY FilesAreFinite DEF RoundTypeOK
      <4>4. Cardinality((checked \ Uncounted)') = Cardinality(checked \ Uncounted) + 1
        BY <4>2, <4>3, FS_AddElement
      <4>5. g_validated_files_num <= Cardinality(checked \ Uncounted) /\ g_validated_files_num \in Nat
        BY <3>2 DEF Counted, CountIsEarned, RoundTypeOK
      <4> QED BY <3>2, <4>3, <4>4, <4>5
    <3> QED
      BY <3>2, <3>4, <3>5, <3>6, <3>7 DEF Counted, ProofInRound, ProofIsEarned
  <2> QED BY <2>1, <2>2
<1>6. CASE wait_complete
  <2>1. /\ loop = "queue" /\ loop' = "take"
        /\ g_validated_files_num >= Cardinality(g_validate_files_m)
        /\ UNCHANGED <<task, g_validate_random, checked, g_validate_files_m,
                       g_validate_files_m_iter, stray>>
    BY <1>6 DEF wait_complete, mapVars, histVars
  <2>2. Outside' /\ CurrentIsNew' /\ CheckedIsPassed'
    BY <2>1, SameTasks DEF Live
  <2>3. ASSUME stray = {} PROVE g_validate_files_m = checked
    <3>1. checked \subseteq g_validate_files_m
      BY <2>1 DEF Counted, CheckedIsPassed, Live
    <3>2. g_validated_files_num <= Cardinality(checked \ Uncounted)
      BY <2>1, <2>3 DEF Counted, CountIsEarned
    <3>3. /\ IsFiniteSet(g_validate_files_m) /\ Cardinality(g_validate_files_m) \in Nat
          /\ IsFiniteSet(checked) /\ Cardinality(checked) \in Nat
          /\ Cardinality(checked \ Uncounted) \in Nat
      BY FilesAreFinite DEF RoundTypeOK
    <3>4. Cardinality(checked \ Uncounted) <= Cardinality(checked)
      BY <3>3, FS_Subset
    <3>5. Cardinality(checked) <= Cardinality(g_validate_files_m)
      BY <3>1, <3>3, FS_Subset
    <3>6. g_validated_files_num \in Nat
      BY DEF RoundTypeOK
    <3>7. Cardinality(checked) = Cardinality(g_validate_files_m)
      BY <2>1, <3>2, <3>3, <3>4, <3>5, <3>6
    <3> QED BY <3>1, <3>3, <3>7, FS_Subset
  <2> QED
    BY <2>1, <2>2, <2>3 DEF Counted, CountingIsChecked, CountIsEarned, ProofInRound,
       ProofIsEarned
<1>7. CASE wait_timeout
  <2>1. /\ loop = "queue" /\ loop' = "take"
        /\ UNCHANGED <<task, g_validate_random, checked, g_validate_files_m,
                       g_validate_files_m_iter, proof, stray>>
    BY <1>7 DEF wait_timeout, mapVars, histVars
  <2>2. Outside' /\ CurrentIsNew' /\ CheckedIsPassed'
    BY <2>1, SameTasks DEF Live
  <2> QED
    BY <2>1, <2>2 DEF Counted, CountingIsChecked, CountIsEarned, ProofInRound,
       ProofIsEarned
<1>8. CASE take_verdicts
  <2>1. /\ loop = "take" /\ loop' = "clear"
        /\ stray \subseteq stray'
        /\ UNCHANGED <<task, g_validate_random, checked, g_validate_files_m,
                       g_validate_files_m_iter, proof>>
    BY <1>8 DEF take_verdicts, mapVars, histVars
  <2>2. Outside' /\ CurrentIsNew' /\ CheckedIsPassed'
    BY <2>1, SameTasks DEF Live
  <2> QED
    BY <2>1, <2>2 DEF Counted, CountingIsChecked, CountIsEarned, ProofInRound,
       ProofIsEarned
<1>9. CASE clear
  BY <1>9 DEF clear, Counted, Outside, CurrentIsNew, CheckedIsPassed,
     CountingIsChecked, CountIsEarned, ProofInRound, ProofIsEarned, Live
<1>10. CASE validate_srd
  <2>1. /\ loop = "srd" /\ loop' = "idle"
        /\ g_validate_random' = g_validate_random + 1
        /\ UNCHANGED <<task, g_validate_files_m, proof>>
    BY <1>10 DEF validate_srd, mapVars
  <2>2. \A w \in Worker : ~Current(w)'
    BY <1>0, <2>1 DEF Bounds, Current
  <2> QED
    BY <2>1, <2>2 DEF Counted, Outside, CurrentIsNew, CheckedIsPassed,
       CountingIsChecked, CountIsEarned, ProofInRound, ProofIsEarned, Live
<1> QED
  BY <1>1, <1>2, <1>3, <1>4, <1>5, <1>6, <1>7, <1>8, <1>9, <1>10 DEF MainLoop

\* A step that changes neither who is current or counting nor any file held
\* keeps the count right.
LEMMA SameCounts ==
  ASSUME Counted,
         \A w \in Worker : Current(w)' => Current(w),
         \A w \in Worker : Current(w)' \/ task'[w].pc = "count" =>
                              task'[w].file = task[w].file,
         Counting' = Counting,
         UNCHANGED <<loop, g_validate_files_m, g_validate_files_m_iter, checked,
                     g_validated_files_num, proof, stray>>
  PROVE  Counted'
<1>1. Outside' /\ CheckedIsPassed' /\ ProofInRound' /\ ProofIsEarned'
  BY DEF Counted, Outside, CheckedIsPassed, ProofInRound, ProofIsEarned, Live
<1>2. CurrentIsNew'
  BY DEF Counted, CurrentIsNew, Live
<1>3. Uncounted' = Uncounted
  BY DEF Uncounted, Counting
<1>4. CountingIsChecked'
  BY DEF Counted, CountingIsChecked, Counting
<1>5. CountIsEarned'
  BY <1>3 DEF Counted, CountIsEarned
<1> QED BY <1>1, <1>2, <1>4, <1>5 DEF Counted

\* The steps of a task keep the count right.
LEMMA TaskCounted ==
  ASSUME RoundTypeOK, Bounds, Counted, NEW w \in Worker, Task(w)
  PROVE  Counted'
<1> USE ValidationRoundAssumption
<1>0. task \in [Worker -> TaskType] /\ task[w] \in TaskType
  BY DEF RoundTypeOK, TaskType
\* A task that ends without having been about to be counted.
<1>F. ASSUME Free(w), task[w].pc # "count",
             UNCHANGED <<loop, g_validate_files_m, g_validate_files_m_iter, checked,
                         g_validated_files_num, g_validate_random, proof, stray>>
      PROVE  Counted'
  <2>1. /\ task'[w].pc = "free"
        /\ \A v \in Worker \ {w} : task'[v] = task[v]
    BY <1>0, <1>F DEF Free, NoTask
  <2>2. Counting' = Counting
    BY <1>F, <2>1 DEF Counting
  <2>3. \A v \in Worker : Current(v)' => Current(v)
    BY <1>F, <2>1 DEF Current
  <2>4. \A v \in Worker : Current(v)' \/ task'[v].pc = "count" =>
                             task'[v].file = task[v].file
    BY <2>1 DEF Current
  <2> QED BY <1>F, <2>2, <2>3, <2>4, SameCounts
<1>1. CASE start(w)
  <2>1. /\ task[w].pc = "free" /\ task'[w].pc = "file"
        /\ \A v \in Worker \ {w} : task'[v] = task[v]
    BY <1>0, <1>1 DEF start, At, NoTask
  <2>2. UNCHANGED <<loop, g_validate_files_m, g_validate_files_m_iter, checked,
                    g_validated_files_num, g_validate_random, proof, stray>>
    BY <1>1 DEF start, mainVars, mapVars, histVars
  <2>3. Counting' = Counting
    BY <2>1 DEF Counting
  <2>4. \A v \in Worker : Current(v)' => Current(v)
    BY <2>1, <2>2 DEF Current
  <2>5. \A v \in Worker : Current(v)' \/ task'[v].pc = "count" =>
                             task'[v].file = task[v].file
    BY <2>1 DEF Current
  <2> QED BY <2>2, <2>3, <2>4, <2>5, SameCounts
<1>2. CASE take_file(w)
  <2>0. /\ task[w].pc = "file"
        /\ UNCHANGED <<loop, g_validate_files_m, checked, g_validated_files_num,
                       g_validate_random, proof, stray>>
    BY <1>2 DEF take_file, At, mainVars, histVars
  <2>1. CASE Free(w) /\ UNCHANGED g_validate_files_m_iter
    BY <1>F, <2>0, <2>1
  <2>2. CASE g_validate_files_m_iter # {} /\ ~(Free(w) /\ UNCHANGED g_validate_files_m_iter)
    <3> DEFINE f == First(g_validate_files_m_iter)
    <3>1. f \in g_validate_files_m_iter /\ f \in g_validate_files_m
      BY <2>2, FirstIsIn DEF RoundTypeOK
    <3>2. /\ g_validate_files_m_iter' = g_validate_files_m_iter \ {f}
          /\ task'[w].pc = "check" /\ task'[w].file = f
          /\ \A v \in Worker \ {w} : task'[v] = task[v]
      <4>1. task' = [task EXCEPT ![w].pc = "check", ![w].file = f, ![w].map = round]
        BY <1>2, <2>2 DEF take_file
      <4>2. g_validate_files_m_iter' = g_validate_files_m_iter \ {f}
        BY <1>2, <2>2 DEF take_file
      <4> HIDE DEF f
      <4> QED BY <1>0, <4>1, <4>2 DEF TaskType
    <3> HIDE DEF f
    <3>3. loop # "idle" /\ Live /\ Live'
      BY <2>0, <3>1 DEF Counted, Outside, Live, RoundTypeOK
    <3>4. Counting' = Counting
      BY <2>0, <3>2 DEF Counting
    <3>5. Uncounted' = Uncounted
      BY <2>0, <3>2, <3>4 DEF Uncounted, Counting
    <3>6. f \notin checked
      BY <3>1, <3>3 DEF Counted, CheckedIsPassed
    <3>7. \A v \in Worker \ {w} : /\ Current(v)' => Current(v)
                                  /\ Current(v) => task[v].file # f
      BY <2>0, <3>1, <3>2, <3>3 DEF Current, Counted, CurrentIsNew
    <3>8. CurrentIsNew'
      BY <2>0, <3>1, <3>2, <3>3, <3>6, <3>7 DEF Counted, CurrentIsNew
    <3>9. Outside' /\ CheckedIsPassed'
      BY <2>0, <3>1, <3>2, <3>3 DEF Counted, Outside, CheckedIsPassed
    <3>10. CountingIsChecked'
      BY <2>0, <3>2, <3>4 DEF Counted, CountingIsChecked, Counting
    <3>11. CountIsEarned'
      BY <2>0, <3>5 DEF Counted, CountIsEarned
    <3> QED
      BY <2>0, <3>8, <3>9, <3>10, <3>11 DEF Counted, ProofInRound, ProofIsEarned
  <2> QED BY <1>2, <2>1, <2>2 DEF take_file
<1>3. CASE check(w)
  <2>1. /\ task[w].pc = "check" /\ task'[w].pc = "look"
        /\ task'[w].file = task[w].file /\ task'[w].random = task[w].random
        /\ \A v \in Worker \ {w} : task'[v] = task[v]
    BY <1>0, <1>3 DEF check, At, TaskType
  <2>2. UNCHANGED <<loop, g_validate_files_m, g_validate_files_m_iter, checked,
                    g_validated_files_num, g_validate_random, proof, stray>>
    BY <1>3 DEF check, mainVars, mapVars, histVars
  <2>3. Counting' = Counting
    BY <2>1 DEF Counting
  <2>4. \A v \in Worker : Current(v)' => Current(v)
    BY <2>1, <2>2 DEF Current
  <2>5. \A v \in Worker : Current(v)' \/ task'[v].pc = "count" =>
                             task'[v].file = task[v].file
    BY <2>1 DEF Current
  <2> QED BY <2>2, <2>3, <2>4, <2>5, SameCounts
<1>4. CASE look(w)
  <2>0. /\ task[w].pc = "look"
        /\ UNCHANGED <<loop, g_validate_files_m, g_validate_files_m_iter,
                       g_validated_files_num, g_validate_random, proof>>
    BY <1>4 DEF look, At, mainVars, mapVars
  <2>1. CASE task[w].random # g_validate_random
    BY <1>4, <1>F, <2>0, <2>1 DEF look
  <2>2. CASE task[w].random = g_validate_random
    <3> DEFINE f == task[w].file
    <3>1. Current(w)
      BY <2>0, <2>2 DEF Current
    <3>2. /\ checked' = checked \cup {f}
          /\ stray \subseteq stray'
          /\ task'[w].pc = "count" /\ task'[w].file = f
          /\ \A v \in Worker \ {w} : task'[v] = task[v]
      BY <1>0, <1>4, <2>2 DEF look, Goto, TaskType
    <3>3. ~Current(w)' /\ \A v \in Worker \ {w} : Current(v)' <=> Current(v)
      BY <2>0, <3>2 DEF Current
    <3>4. Counting' = Counting \cup {w} /\ w \notin Counting
      BY <2>0, <3>2 DEF Counting
    <3>5. Live => /\ f \in g_validate_files_m
                  /\ f \notin g_validate_files_m_iter \cup checked
                  /\ \A v \in Worker \ {w} : Current(v) => task[v].file # f
      BY <3>1 DEF Counted, CurrentIsNew
    <3>6. Live' = Live
      BY <2>0 DEF Live
    <3>7. CurrentIsNew'
      BY <2>0, <3>2, <3>3, <3>5, <3>6 DEF Counted, CurrentIsNew
    <3>8. CheckedIsPassed' /\ Outside'
      BY <2>0, <3>1, <3>2, <3>5, <3>6 DEF Counted, CheckedIsPassed, Outside
    <3>9. CountingIsChecked'
      <4> SUFFICES ASSUME loop \in {"draw", "reset", "queue"}, stray = {}
                   PROVE  CountingIsChecked'
        BY <2>0, <3>2 DEF CountingIsChecked
      <4>1. f \notin checked
        BY <3>5 DEF Live
      <4>2. \A v \in Counting : /\ task[v].file \in checked
                                /\ task'[v] = task[v]
        BY <3>2, <3>4 DEF Counted, CountingIsChecked, Counting
      <4> QED
        BY <3>2, <3>4, <4>1, <4>2 DEF Counted, CountingIsChecked
    <3>10. CountIsEarned'
      <4> SUFFICES ASSUME loop = "queue", stray = {}
                   PROVE  (checked \ Uncounted)' = checked \ Uncounted
        BY <2>0, <3>2 DEF Counted, CountIsEarned
      <4>1. f \notin checked
        BY <3>5 DEF Live
      <4>2. Uncounted' = Uncounted \cup {f}
        BY <3>2, <3>4 DEF Uncounted, Counting
      <4> QED BY <3>2, <4>1, <4>2
    <3> QED
      BY <2>0, <3>2, <3>7, <3>8, <3>9, <3>10 DEF Counted, ProofInRound, ProofIsEarned
  <2> QED BY <2>1, <2>2
<1>5. CASE count(w)
  <2> DEFINE f == task[w].file
  <2>0. /\ task[w].pc = "count"
        /\ g_validated_files_num' = g_validated_files_num + 1
        /\ UNCHANGED <<loop, g_validate_files_m, g_validate_files_m_iter, checked,
                       g_validate_random, proof, stray>>
    BY <1>5 DEF count, At, mainVars, mapVars, histVars
  <2>1. /\ task'[w].pc \in {"push", "free"}
        /\ \A v \in Worker \ {w} : task'[v] = task[v]
    BY <1>0, <1>5 DEF count, Goto, Free, NoTask, TaskType
  <2>2. \A v \in Worker : Current(v)' => Current(v) /\ task'[v] = task[v]
    BY <2>0, <2>1 DEF Current
  <2>3. Counting' = Counting \ {w} /\ w \in Counting
    BY <2>0, <2>1 DEF Counting
  <2>4. Outside' /\ CheckedIsPassed'
    BY <2>0, <2>2 DEF Counted, Outside, CheckedIsPassed, Live
  <2>5. CurrentIsNew'
    BY <2>0, <2>2 DEF Counted, CurrentIsNew, Live
  <2>6. CountingIsChecked'
    BY <2>0, <2>1, <2>3 DEF Counted, CountingIsChecked, Counting
  <2>7. CountIsEarned'
    <3> SUFFICES ASSUME loop = "queue", stray = {}
                 PROVE  g_validated_files_num' <= Cardinality((checked \ Uncounted)')
      BY <2>0 DEF CountIsEarned
    <3>1. /\ f \in checked
          /\ \A v \in Counting \ {w} : task[v].file # f
      BY <2>3 DEF Counted, CountingIsChecked
    <3>2. Uncounted' = Uncounted \ {f} /\ f \in Uncounted
      BY <2>1, <2>3, <3>1 DEF Uncounted, Counting
    <3>3. (checked \ Uncounted)' = (checked \ Uncounted) \cup {f} /\ f \notin checked \ Uncounted
      BY <2>0, <3>1, <3>2
    <3>4. IsFiniteSet(checked \ Uncounted) /\ Cardinality(checked \ Uncounted) \in Nat
      BY FilesAreFinite DEF RoundTypeOK
    <3>5. Cardinality((checked \ Uncounted)') = Cardinality(checked \ Uncounted) + 1
      BY <3>3, <3>4, FS_AddElement
    <3>6. g_validated_files_num <= Cardinality(checked \ Uncounted) /\ g_validated_files_num \in Nat
      BY DEF Counted, CountIsEarned, RoundTypeOK
    <3> QED BY <2>0, <3>4, <3>5, <3>6
  <2> QED
    BY <2>0, <2>4, <2>5, <2>6, <2>7 DEF Counted, ProofInRound, ProofIsEarned
<1>6. CASE push(w)
  BY <1>6, <1>F DEF push, At, mainVars, mapVars, histVars
<1> QED BY <1>1, <1>2, <1>3, <1>4, <1>5, <1>6 DEF Task

-----------------------------------------------------------------------------

\* The invariant is inductive.
LEMMA RoundStepInv == RoundInv /\ [Next]_vars => RoundInv'
<1> SUFFICES ASSUME RoundInv, [Next]_vars PROVE RoundInv'
  OBVIOUS
<1>0. RoundTypeOK /\ Bounds /\ Counted
  BY DEF RoundInv, Counted
<1>1. CASE MainLoop
  BY <1>0, <1>1, MainTypes, MainCounted DEF RoundInv, Counted
<1>2. CASE \E w \in Worker : Task(w)
  BY <1>0, <1>2, TaskTypes, TaskCounted DEF RoundInv, Counted
<1>3. CASE UNCHANGED vars
  BY <1>3 DEF vars, mainVars, mapVars, histVars, RoundInv, RoundTypeOK, Bounds, Outside,
     CurrentIsNew, CheckedIsPassed, CountingIsChecked, CountIsEarned, ProofInRound,
     ProofIsEarned, Live, Current, Counting, Uncounted
<1> QED BY <1>1, <1>2, <1>3 DEF Next

LEMMA RoundInvariant == Spec => []RoundInv
BY RoundInitInv, RoundStepInv, PTL DEF Spec

\* The round keeps its types for any number of files and threads.
THEOREM RoundTypes == Spec => []RoundTypeOK
<1>1. RoundInv => RoundTypeOK
  BY DEF RoundInv
<1> QED BY <1>1, RoundInvariant, PTL

\* A round counted as a proof has checked every file of its map, whatever late
\* tasks, failing calls and time-outs do (validate_meaningful_file and
\* validate_meaningful_file_real).
THEOREM ProofAlwaysEarned == Spec => []ProofIsEarned
<1>1. RoundInv => ProofIsEarned
  BY DEF RoundInv
<1> QED BY <1>1, RoundInvariant, PTL

-----------------------------------------------------------------------------
(* The verdicts of a round *)

\* The tasks that have been looked at the number and are not at their end.
Late == Caught({"count", "push"})

\* A task of the present number points into the map of the present round.
CurrentMap ==
    Live => \A w \in Worker : Current(w) => task[w].map = round

\* Until the verdicts are taken, they are those the round found, but for the
\* tasks that have still to hand theirs over.
Handed ==
    loop \in {"draw", "reset", "queue", "take"} /\ stray = {} =>
        /\ \A w \in Late : /\ task[w].map = round
                           /\ task[w].changed => task[w].file \in found
                           /\ At(w, "push") => task[w].changed
        /\ g_changed_files_v \subseteq {<<f, round>> : f \in found}
        /\ \A f \in found : \/ <<f, round>> \in g_changed_files_v
                            \/ \E w \in Late : task[w].changed /\ task[w].file = f

\* Afterwards there are none, and no task is left to hand over one.
Quiet ==
    loop \in {"clear", "srd", "idle"} /\ stray = {} =>
        g_changed_files_v = {} /\ Late = {}

VerdictInv == CurrentMap /\ Handed /\ Quiet /\ VerdictsOfTheRound

\* The steps of the main loop.
LEMMA MainVerdicts ==
    ASSUME RoundInv, VerdictInv, MainLoop
    PROVE  VerdictInv'
PROOF
<1>0. /\ task \in [Worker -> TaskType]
      /\ g_validate_random \in Nat
      /\ \A w \in Worker : task[w].random \in Nat
      /\ g_validate_files_m_iter \subseteq File
  BY ValidationRoundAssumption DEF RoundInv, RoundTypeOK, TaskType
<1>1. CASE fill
  <2>1. /\ loop = "idle" /\ loop' = "draw" /\ found' = {}
        /\ UNCHANGED <<task, g_validate_random, g_changed_files_v>>
        /\ stray' = Late \cup (IF g_changed_files_v = {} THEN {} ELSE stray)
    BY <1>1 DEF fill, Late
  <2>2. \A w \in Worker : ~Current(w)'
    BY <2>1 DEF RoundInv, Outside, Current
  <2>3. stray' = {} => g_changed_files_v' = {} /\ Late' = {}
    BY <2>1 DEF VerdictInv, Quiet, Late, Caught
  <2> QED
    BY <2>1, <2>2, <2>3
    DEF VerdictInv, CurrentMap, Handed, Quiet, VerdictsOfTheRound
<1>2. CASE draw
  <2>1. /\ loop = "draw" /\ loop' = "reset"
        /\ g_validate_random' = g_validate_random + 1
        /\ UNCHANGED <<task, g_changed_files_v, found, round>>
        /\ stray' = stray \cup Late
    BY <1>2 DEF draw, Late, histVars
  <2>2. \A w \in Worker : ~Current(w)'
    BY <1>0, <2>1 DEF RoundInv, Bounds, Current
  <2>3. stray' = {} => stray = {}
    BY <2>1
  <2>4. Handed'
    BY <2>1, <2>3 DEF VerdictInv, Handed, Late, Caught, At
  <2> QED
    BY <2>1, <2>2, <2>4 DEF VerdictInv, CurrentMap, Quiet, VerdictsOfTheRound
<1>3. CASE reset
  <2>1. /\ loop \in {"reset", "queue"} /\ loop' \in {"queue", "take"}
        /\ UNCHANGED <<task, g_validate_random, g_changed_files_v, found, round,
                       stray>>
    BY <1>3 DEF reset, histVars
  <2> QED
    BY <2>1
    DEF VerdictInv, CurrentMap, Handed, Quiet, VerdictsOfTheRound, Live, Current,
        Late, Caught, At
<1>4. CASE recall_validate_file
  <2>1. /\ loop \in {"reset", "queue"} /\ loop' \in {"queue", "take"}
        /\ UNCHANGED <<task, g_validate_random, g_changed_files_v, found, round,
                       stray>>
    BY <1>4 DEF recall_validate_file, histVars
  <2> QED
    BY <2>1
    DEF VerdictInv, CurrentMap, Handed, Quiet, VerdictsOfTheRound, Live, Current,
        Late, Caught, At
<1>5. CASE recall_failed
  <2>1. loop = "queue" /\ UNCHANGED <<loop, task, g_validate_random, round, stray>>
    BY <1>5 DEF recall_failed
  <2>2. CASE UNCHANGED <<g_changed_files_v, found>>
    BY <2>1, <2>2
    DEF VerdictInv, CurrentMap, Handed, Quiet, VerdictsOfTheRound, Live, Current,
        Late, Caught, At
  <2>3. ASSUME NEW f, g_changed_files_v' = g_changed_files_v \cup {<<f, round>>},
               found' = found \cup {f}
        PROVE  VerdictInv'
    <3>1. Handed'
      BY <2>1, <2>3 DEF VerdictInv, Handed, Late, Caught, At
    <3> QED
      BY <2>1, <3>1
      DEF VerdictInv, CurrentMap, Quiet, VerdictsOfTheRound, Live, Current
  <2> QED
    BY <1>5, <2>2, <2>3 DEF recall_failed
<1>6. CASE wait_complete
  <2>1. /\ loop \in {"reset", "queue"} /\ loop' \in {"queue", "take"}
        /\ UNCHANGED <<task, g_validate_random, g_changed_files_v, found, round,
                       stray>>
    BY <1>6 DEF wait_complete, histVars
  <2> QED
    BY <2>1
    DEF VerdictInv, CurrentMap, Handed, Quiet, VerdictsOfTheRound, Live, Current,
        Late, Caught, At
<1>7. CASE wait_timeout
  <2>1. /\ loop \in {"reset", "queue"} /\ loop' \in {"queue", "take"}
        /\ UNCHANGED <<task, g_validate_random, g_changed_files_v, found, round,
                       stray>>
    BY <1>7 DEF wait_timeout, histVars
  <2> QED
    BY <2>1
    DEF VerdictInv, CurrentMap, Handed, Quiet, VerdictsOfTheRound, Live, Current,
        Late, Caught, At
<1>8. CASE take_verdicts
  <2>1. /\ loop = "take" /\ loop' = "clear"
        /\ applied' = g_changed_files_v /\ g_changed_files_v' = {}
        /\ UNCHANGED <<task, g_validate_random, found, round>>
        /\ stray' = stray \cup Late
    BY <1>8 DEF take_verdicts, Late, histVars
  <2>2. ASSUME stray' = {} PROVE Late = {} /\ applied' = {<<f, round>> : f \in found}
    BY <2>1, <2>2 DEF VerdictInv, Handed
  <2>3. Late' = Late
    BY <2>1 DEF Late, Caught
  <2> QED
    BY <2>1, <2>2, <2>3
    DEF VerdictInv, CurrentMap, Handed, Quiet, VerdictsOfTheRound, Live, Current
<1>9. CASE clear
  <2>1. /\ loop = "clear" /\ loop' = "srd"
        /\ UNCHANGED <<task, g_changed_files_v, stray>>
    BY <1>9 DEF clear
  <2> QED
    BY <2>1
    DEF VerdictInv, CurrentMap, Handed, Quiet, VerdictsOfTheRound, Live, Late,
        Caught
<1>10. CASE validate_srd
  <2>1. /\ loop = "srd" /\ loop' = "idle"
        /\ UNCHANGED <<task, g_changed_files_v>>
        /\ stray' = {} => stray = {}
    BY <1>10 DEF validate_srd
  <2> QED
    BY <2>1
    DEF VerdictInv, CurrentMap, Handed, Quiet, VerdictsOfTheRound, Live, Late,
        Caught
<1> QED
  BY <1>1, <1>2, <1>3, <1>4, <1>5, <1>6, <1>7, <1>8, <1>9, <1>10 DEF MainLoop

\* The steps of a task.
LEMMA TaskVerdicts ==
    ASSUME RoundInv, VerdictInv, NEW w \in Worker, Task(w)
    PROVE  VerdictInv'
PROOF
<1>0. task \in [Worker -> TaskType] /\ task[w] \in TaskType
  BY DEF RoundInv, RoundTypeOK, TaskType
\* A step of a task that has not looked at the number yet.
<1>E. ASSUME task[w].pc \notin {"count", "push"}, task'[w].pc \notin {"count", "push"},
             \A v \in Worker \ {w} : task'[v] = task[v],
             Live /\ Current(w)' => task'[w].map = round,
             UNCHANGED <<loop, g_validate_random, g_changed_files_v, round, found,
                         stray, proof, applied>>
      PROVE  VerdictInv'
  <2>1. Late' = Late /\ \A v \in Late : v # w /\ task'[v] = task[v]
    BY <1>E DEF Late, Caught
  <2>2. Handed' /\ Quiet' /\ VerdictsOfTheRound'
    BY <1>E, <2>1 DEF VerdictInv, Handed, Quiet, VerdictsOfTheRound, At
  <2>3. CurrentMap'
    BY <1>E DEF VerdictInv, CurrentMap, Live, Current
  <2> QED
    BY <2>2, <2>3 DEF VerdictInv
<1>1. CASE start(w)
  <2>1. /\ task[w].pc = "free" /\ task'[w].pc = "file"
        /\ \A v \in Worker \ {w} : task'[v] = task[v]
    BY <1>0, <1>1 DEF start, At, NoTask
  <2> QED
    BY <1>1, <1>E, <2>1 DEF start, mainVars, histVars, Current
<1>2. CASE take_file(w)
  <2>1. /\ task[w].pc = "file" /\ task'[w].pc \in {"free", "check"}
        /\ task'[w].pc = "check" => task'[w].map = round
        /\ \A v \in Worker \ {w} : task'[v] = task[v]
    BY <1>0, <1>2 DEF take_file, At, Free, NoTask, TaskType
  <2> QED
    BY <1>2, <1>E, <2>1 DEF take_file, mainVars, histVars, Current
<1>3. CASE check(w)
  <2>1. /\ task[w].pc = "check" /\ task'[w].pc = "look"
        /\ task'[w].map = task[w].map /\ task'[w].random = task[w].random
        /\ \A v \in Worker \ {w} : task'[v] = task[v]
    BY <1>0, <1>3 DEF check, At, TaskType
  <2>2. UNCHANGED <<loop, g_validate_random, g_changed_files_v, round, found,
                    stray, proof, applied>>
    BY <1>3 DEF check, mainVars, histVars
  <2>3. Live /\ Current(w)' => task'[w].map = round
    BY <2>1, <2>2 DEF VerdictInv, CurrentMap, Current
  <2> QED
    BY <1>E, <2>1, <2>2, <2>3
<1>4. CASE look(w)
  <2>0. /\ task[w].pc = "look"
        /\ UNCHANGED <<loop, g_validate_random, g_changed_files_v, round, proof,
                       applied>>
    BY <1>4 DEF look, At, mainVars
  <2>1. CASE task[w].random # g_validate_random
    <3>1. Free(w) /\ UNCHANGED <<found, stray>>
      BY <1>4, <2>1 DEF look
    <3>2. task'[w].pc = "free" /\ \A v \in Worker \ {w} : task'[v] = task[v]
      BY <1>0, <3>1 DEF Free, NoTask
    <3> QED
      BY <1>E, <2>0, <3>1, <3>2 DEF Current
  <2>2. CASE task[w].random = g_validate_random
    <3>1. /\ Goto(w, "count")
          /\ found' = IF task[w].changed THEN found \cup {task[w].file} ELSE found
          /\ stray' = IF loop \in {"clear", "srd"} THEN stray \cup {w} ELSE stray
      BY <1>4, <2>2 DEF look
    <3>2. /\ task'[w].pc = "count" /\ task'[w].map = task[w].map
          /\ task'[w].changed = task[w].changed /\ task'[w].file = task[w].file
          /\ \A v \in Worker \ {w} : task'[v] = task[v]
      BY <1>0, <3>1 DEF Goto, TaskType
    <3>3. Late' = Late \cup {w} /\ Late \subseteq Worker \ {w}
      BY <2>0, <3>2 DEF Late, Caught
    <3>4. loop # "idle" /\ (Live => task[w].map = round)
      BY <2>0, <2>2 DEF RoundInv, Outside, VerdictInv, CurrentMap, Current
    <3>5. CurrentMap'
      BY <2>0, <3>2 DEF VerdictInv, CurrentMap, Live, Current
    <3>6. Quiet' /\ VerdictsOfTheRound'
      BY <2>0, <3>1, <3>4 DEF Quiet, VerdictsOfTheRound
    <3>7. ASSUME loop \in {"draw", "reset", "queue", "take"}, stray = {}
          PROVE  Handed'
      <4>1. \A v \in Late' : /\ task'[v].map = round
                             /\ task'[v].changed => task'[v].file \in found'
                             /\ task'[v].pc = "push" => task'[v].changed
        BY <3>1, <3>2, <3>3, <3>4, <3>7 DEF VerdictInv, Handed, Live, At
      <4>2. \A f \in found' : \/ <<f, round>> \in g_changed_files_v
                              \/ \E v \in Late' : task'[v].changed /\ task'[v].file = f
        BY <3>1, <3>2, <3>3, <3>7 DEF VerdictInv, Handed
      <4>3. g_changed_files_v \subseteq {<<f, round>> : f \in found'}
        BY <3>1, <3>7 DEF VerdictInv, Handed
      <4> QED
        BY <2>0, <4>1, <4>2, <4>3 DEF Handed, At
    <3>8. Handed'
      BY <2>0, <3>1, <3>7 DEF Handed
    <3> QED
      BY <3>5, <3>6, <3>8 DEF VerdictInv
  <2> QED
    BY <2>1, <2>2
\* A step of a task that has.
<1>L. ASSUME w \in Late, \A v \in Worker \ {w} : task'[v] = task[v],
             UNCHANGED <<loop, g_validate_random, round, found, stray, proof, applied>>,
             task'[w].pc \in {"free", "push"}, Late' \subseteq Late, Handed'
      PROVE  VerdictInv'
  <2>1. CurrentMap'
    BY <1>L DEF VerdictInv, CurrentMap, Live, Current
  <2>2. Quiet' /\ VerdictsOfTheRound'
    BY <1>L DEF VerdictInv, Quiet, VerdictsOfTheRound
  <2> QED
    BY <1>L, <2>1, <2>2 DEF VerdictInv
<1>5. CASE count(w)
  <2>1. /\ task[w].pc = "count"
        /\ UNCHANGED <<loop, g_validate_random, g_changed_files_v, round, found,
                       stray, proof, applied>>
        /\ IF task[w].changed THEN Goto(w, "push") ELSE Free(w)
    BY <1>5 DEF count, At, mainVars, histVars
  <2>2. w \in Late
    BY <2>1 DEF Late, Caught
  <2>3. CASE task[w].changed
    <3>1. /\ task'[w].pc = "push" /\ task'[w].map = task[w].map
          /\ task'[w].changed /\ task'[w].file = task[w].file
          /\ \A v \in Worker \ {w} : task'[v] = task[v]
      BY <1>0, <2>1, <2>3 DEF Goto, TaskType
    <3>2. Late' = Late /\ Late \subseteq Worker
      BY <2>2, <3>1 DEF Late, Caught
    <3>3. Handed'
      BY <2>1, <2>3, <3>1, <3>2 DEF VerdictInv, Handed, At
    <3> QED
      BY <1>L, <2>1, <2>2, <3>1, <3>2, <3>3
  <2>4. CASE ~task[w].changed
    <3>1. task'[w].pc = "free" /\ \A v \in Worker \ {w} : task'[v] = task[v]
      BY <1>0, <2>1, <2>4 DEF Free, NoTask
    <3>2. Late' = Late \ {w}
      BY <3>1 DEF Late, Caught
    <3>3. Handed'
      BY <2>1, <2>4, <3>1, <3>2 DEF VerdictInv, Handed, At, Late, Caught
    <3> QED
      BY <1>L, <2>1, <2>2, <3>1, <3>2, <3>3
  <2> QED
    BY <2>3, <2>4
<1>6. CASE push(w)
  <2>1. /\ task[w].pc = "push"
        /\ UNCHANGED <<loop, g_validate_random, round, found, stray, proof, applied>>
        /\ g_changed_files_v' = g_changed_files_v \cup {<<task[w].file, task[w].map>>}
        /\ Free(w)
    BY <1>6 DEF push, At, mainVars, histVars
  <2>2. w \in Late
    BY <2>1 DEF Late, Caught
  <2>3. task'[w].pc = "free" /\ \A v \in Worker \ {w} : task'[v] = task[v]
    BY <1>0, <2>1 DEF Free, NoTask
  <2>4. Late' = Late \ {w} /\ \A v \in Late' : v \in Worker \ {w}
    BY <2>3 DEF Late, Caught
  <2>5. Handed'
    <3> SUFFICES ASSUME loop \in {"draw", "reset", "queue", "take"}, stray = {}
                 PROVE  Handed'
      BY <2>1 DEF Handed
    <3>1. /\ task[w].map = round /\ task[w].changed /\ task[w].file \in found
      BY <2>1, <2>2 DEF VerdictInv, Handed, At
    <3>2. g_changed_files_v' \subseteq {<<f, round>> : f \in found}
      BY <2>1, <3>1 DEF VerdictInv, Handed
    <3>3. \A f \in found : \/ <<f, round>> \in g_changed_files_v'
                           \/ \E v \in Late' : task'[v].changed /\ task'[v].file = f
      BY <2>1, <2>3, <2>4, <3>1 DEF VerdictInv, Handed
    <3>4. \A v \in Late' : /\ task'[v].map = round
                           /\ task'[v].changed => task'[v].file \in found
                           /\ task'[v].pc = "push" => task'[v].changed
      BY <2>3, <2>4 DEF VerdictInv, Handed, At
    <3> QED
      BY <2>1, <3>2, <3>3, <3>4 DEF Handed, At
  <2> QED
    BY <1>L, <2>1, <2>2, <2>3, <2>4, <2>5
<1> QED
  BY <1>1, <1>2, <1>3, <1>4, <1>5, <1>6 DEF Task

\* The verdicts a complete round applies to the table are exactly those its
\* tasks reached, for any number of files and threads: the swap of
\* g_changed_files_v leaves none behind and takes none of an earlier round.
THEOREM VerdictsAreOfTheRound == Spec => []VerdictsOfTheRound
PROOF
<1>1. Init => VerdictInv
  BY DEF Init, VerdictInv, CurrentMap, Handed, Quiet, VerdictsOfTheRound, Live,
     Late, Caught, NoTask
<1>2. ASSUME RoundInv, VerdictInv, [Next]_vars PROVE VerdictInv'
  <2>1. CASE UNCHANGED vars
    BY <1>2, <2>1
    DEF vars, mainVars, mapVars, histVars, VerdictInv, CurrentMap, Handed, Quiet,
        VerdictsOfTheRound, Live, Current, Late, Caught, At
  <2> QED
    BY <1>2, <2>1, MainVerdicts, TaskVerdicts DEF Next
<1>3. Spec => []VerdictInv
  BY <1>1, <1>2, RoundInvariant, PTL DEF Spec
<1>4. VerdictInv => VerdictsOfTheRound
  BY DEF VerdictInv
<1> QED
  BY <1>3, <1>4, PTL

=============================================================================
