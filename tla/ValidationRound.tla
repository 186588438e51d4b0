--------------------------- MODULE ValidationRound ---------------------------
(***************************************************************************)
(* How a round of validation is counted.  The main loop copies the files   *)
(* to check into a map, draws a random number that names the round, queues *)
(* one task per file in the app's pool and waits until as many tasks have  *)
(* been counted, or until a slot has passed.  A task is not told its file: *)
(* it reads the random number, takes the next file of the shared iterator, *)
(* checks it, and is counted only if the number has not changed.           *)
(*                                                                         *)
(* Map, iterator, random number, counter and verdicts have a mutex each,   *)
(* so a round that times out, its late tasks and the next round mix.       *)
(* FileService takes a round as a whole; this module opens it.  What a     *)
(* check finds is left open; a step is one critical section.               *)
(***************************************************************************)
EXTENDS Naturals, FiniteSets

CONSTANTS
    File,       \* files of the table, numbered in the order of the map
    Worker,     \* threads of the pool
    MaxDraw     \* bound: random numbers drawn

ASSUME ValidationRoundAssumption ==
    /\ File \subseteq Nat
    /\ IsFiniteSet(File)
    /\ MaxDraw \in Nat

VARIABLES
    loop,                   \* where the main loop stands
    g_validate_files_m,     \* the files of the round
    g_validate_files_m_iter,\* those the iterator has not passed yet
    g_validate_random,      \* the random number, a fresh one per draw
    g_validated_files_num,  \* tasks counted
    g_changed_files_v,      \* verdicts: a file and the map it points into
    to_queue,               \* tasks the main loop has still to queue
    queued,                 \* tasks waiting in the pool
    task,                   \* what each thread of the pool does
    proof,                  \* the last round counted as a proof
    applied,                \* the verdicts the last round applied
    undefined,              \* the iterator was used past its end
    round,                  \* history: rounds begun; names a round's map
    checked,                \* history: files checked in this round, and
    found,                  \* those whose status was found to differ
    stray                   \* history: tasks that passed their look at the
                            \* random number but not their last step when
                            \* the round moved on; forgotten by a round that
                            \* finds no trace of them

mainVars == <<loop, to_queue, proof, applied>>
mapVars == <<g_validate_files_m, g_validate_files_m_iter>>
histVars == <<round, checked, found>>
vars == <<mainVars, mapVars, g_validate_random, g_validated_files_num,
          g_changed_files_v, queued, task, undefined, histVars, stray>>

-----------------------------------------------------------------------------

NoTask == [pc |-> "free", random |-> 0, file |-> 0, map |-> 0, changed |-> FALSE]

At(w, pc) == task[w].pc = pc
Goto(w, pc) == task' = [task EXCEPT ![w].pc = pc]
Free(w) == task' = [task EXCEPT ![w] = NoTask]
Caught(pcs) == {w \in Worker : task[w].pc \in pcs}
First(S) == CHOOSE f \in S : \A g \in S : f <= g

-----------------------------------------------------------------------------
(* The main loop: validate_meaningful_file *)

\* Mutant: a task too many is queued.
fill_one_more ==
    /\ loop = "idle"
    /\ g_validate_random < MaxDraw
    /\ \E S \in SUBSET File :
          /\ g_validate_files_m' = g_validate_files_m \cup S
          /\ to_queue' = Cardinality(g_validate_files_m') + 1
    /\ g_validate_files_m_iter' = g_validate_files_m'
    /\ round' = round + 1
    /\ checked' = {} /\ found' = {}
    /\ stray' = Caught({"count", "push"})
                   \cup IF g_changed_files_v = {} THEN {} ELSE stray
    /\ loop' = "draw"
    /\ UNCHANGED <<g_validate_random, g_validated_files_num, g_changed_files_v,
                   queued, task, proof, applied, undefined>>

\* The files to check are put into the map and the iterator at its begin.
fill ==
    /\ loop = "idle"
    /\ g_validate_random < MaxDraw
    /\ \E S \in SUBSET File :
          /\ g_validate_files_m' = g_validate_files_m \cup S
          /\ to_queue' = Cardinality(g_validate_files_m')
    /\ g_validate_files_m_iter' = g_validate_files_m'
    /\ round' = round + 1
    /\ checked' = {} /\ found' = {}
    /\ stray' = Caught({"count", "push"})
                   \cup IF g_changed_files_v = {} THEN {} ELSE stray
    /\ loop' = "draw"
    /\ UNCHANGED <<g_validate_random, g_validated_files_num, g_changed_files_v,
                   queued, task, proof, applied, undefined>>

\* A new random number makes the tasks of earlier rounds stale.
draw ==
    /\ loop = "draw"
    /\ g_validate_random' = g_validate_random + 1
    /\ stray' = stray \cup Caught({"count", "push"})
    /\ loop' = "reset"
    /\ UNCHANGED <<mapVars, g_validated_files_num, g_changed_files_v, to_queue,
                   queued, task, proof, applied, undefined, histVars>>

reset ==
    /\ loop = "reset"
    /\ g_validated_files_num' = 0
    /\ loop' = "queue"
    /\ UNCHANGED <<mapVars, g_validate_random, g_changed_files_v, to_queue,
                   queued, task, proof, applied, undefined, histVars, stray>>

\* ocall_recall_validate_file puts a task into the queue of the pool.
recall_validate_file ==
    /\ loop = "queue" /\ to_queue > 0
    /\ to_queue' = to_queue - 1
    /\ queued' = queued + 1
    /\ UNCHANGED <<loop, mapVars, g_validate_random, g_validated_files_num,
                   g_changed_files_v, task, proof, applied, undefined, histVars, stray>>

\* The ocall failed: the main loop itself takes the next file, counts it and
\* calls it changed.
recall_failed ==
    /\ loop = "queue" /\ to_queue > 0
    /\ to_queue' = to_queue - 1
    /\ IF g_validate_files_m_iter = {}
       THEN /\ undefined' = TRUE
            /\ UNCHANGED <<g_validate_files_m_iter, g_validated_files_num,
                           g_changed_files_v, checked, found>>
       ELSE LET f == First(g_validate_files_m_iter)
            IN  /\ g_validate_files_m_iter' = g_validate_files_m_iter \ {f}
                /\ g_validated_files_num' = g_validated_files_num + 1
                /\ g_changed_files_v' = g_changed_files_v \cup {<<f, round>>}
                /\ checked' = checked \cup {f}
                /\ found' = found \cup {f}
                /\ UNCHANGED undefined
    /\ UNCHANGED <<loop, g_validate_files_m, g_validate_random, queued, task,
                   proof, applied, round, stray>>

\* As many tasks as files were counted: the round is a proof.
wait_complete ==
    /\ loop = "queue" /\ to_queue = 0
    /\ g_validated_files_num >= Cardinality(g_validate_files_m)
    /\ proof' = TRUE
    /\ loop' = "take"
    /\ UNCHANGED <<mapVars, g_validate_random, g_validated_files_num,
                   g_changed_files_v, to_queue, queued, task, applied,
                   undefined, histVars, stray>>

\* Mutant: the main loop waits as long as it takes.
wait_timeout_never == FALSE

\* A slot has passed: the round goes on without being a proof.
wait_timeout ==
    /\ loop = "queue" /\ to_queue = 0
    /\ g_validated_files_num < Cardinality(g_validate_files_m)
    /\ loop' = "take"
    /\ UNCHANGED <<mapVars, g_validate_random, g_validated_files_num,
                   g_changed_files_v, to_queue, queued, task, proof, applied,
                   undefined, histVars, stray>>

\* Mutant: the verdicts are copied and not cleared.
take_verdicts_copied ==
    /\ loop = "take"
    /\ applied' = g_changed_files_v
    /\ stray' = stray \cup Caught({"count", "push"})
    /\ loop' = "clear"
    /\ UNCHANGED <<mapVars, g_validate_random, g_validated_files_num,
                   g_changed_files_v, to_queue, queued, task, proof,
                   undefined, histVars>>

\* The verdicts are moved out under their mutex and then applied to the
\* table through pointers into the map.
take_verdicts ==
    /\ loop = "take"
    /\ applied' = g_changed_files_v
    /\ g_changed_files_v' = {}
    /\ stray' = stray \cup Caught({"count", "push"})
    /\ loop' = "clear"
    /\ UNCHANGED <<mapVars, g_validate_random, g_validated_files_num, to_queue,
                   queued, task, proof, undefined, histVars>>

\* The map is cleared, and the validation of srd draws a number of its own.
clear ==
    /\ loop = "clear"
    /\ g_validate_files_m' = {}
    /\ g_validate_files_m_iter' = {}
    /\ applied' = {}
    /\ proof' = FALSE
    /\ loop' = "srd"
    /\ UNCHANGED <<g_validate_random, g_validated_files_num, g_changed_files_v,
                   to_queue, queued, task, undefined, histVars, stray>>

validate_srd ==
    /\ loop = "srd"
    /\ g_validate_random' = g_validate_random + 1
    /\ stray' = stray \cup Caught({"count", "push"})
    /\ loop' = "idle"
    /\ UNCHANGED <<mapVars, g_validated_files_num, g_changed_files_v, to_queue,
                   queued, task, proof, applied, undefined, histVars>>

-----------------------------------------------------------------------------
(* A task: validate_meaningful_file_real *)

\* A thread of the pool takes a task from the queue and reads the number.
start(w) ==
    /\ At(w, "free")
    /\ queued > 0
    /\ queued' = queued - 1
    /\ task' = [task EXCEPT ![w] = [NoTask EXCEPT !.pc = "file",
                                                  !.random = g_validate_random]]
    /\ UNCHANGED <<mainVars, mapVars, g_validate_random, g_validated_files_num,
                   g_changed_files_v, undefined, histVars, stray>>

\* The next file; a task that finds the map empty ends, one that finds the
\* iterator at its end uses it all the same.
take_file(w) ==
    /\ At(w, "file")
    /\ \/ /\ g_validate_files_m = {}
          /\ Free(w)
          /\ UNCHANGED <<g_validate_files_m_iter, undefined>>
       \/ /\ g_validate_files_m # {}
          /\ g_validate_files_m_iter = {}
          /\ undefined' = TRUE
          /\ Free(w)
          /\ UNCHANGED g_validate_files_m_iter
       \/ /\ g_validate_files_m_iter # {}
          /\ LET f == First(g_validate_files_m_iter)
             IN  /\ g_validate_files_m_iter' = g_validate_files_m_iter \ {f}
                 /\ task' = [task EXCEPT ![w].pc = "check", ![w].file = f,
                                         ![w].map = round]
          /\ UNCHANGED undefined
    /\ UNCHANGED <<mainVars, g_validate_files_m, g_validate_random,
                   g_validated_files_num, g_changed_files_v, queued, histVars, stray>>

\* The file is read and judged.
check(w) ==
    /\ At(w, "check")
    /\ \E changed \in BOOLEAN :
          task' = [task EXCEPT ![w].pc = "look", ![w].changed = changed]
    /\ UNCHANGED <<mainVars, mapVars, g_validate_random, g_validated_files_num,
                   g_changed_files_v, queued, undefined, histVars, stray>>

\* Mutant: a late task is counted with the others.
look_any(w) ==
    /\ At(w, "look")
    /\ Goto(w, "count")
    /\ IF task[w].random = g_validate_random
       THEN /\ checked' = checked \cup {task[w].file}
            /\ found' = IF task[w].changed THEN found \cup {task[w].file} ELSE found
       ELSE UNCHANGED <<checked, found>>
    /\ UNCHANGED <<mainVars, mapVars, g_validate_random, g_validated_files_num,
                   g_changed_files_v, queued, undefined, round, stray>>

\* A task of an earlier round ends without a trace.
look(w) ==
    /\ At(w, "look")
    /\ IF task[w].random = g_validate_random
       THEN /\ Goto(w, "count")
            /\ checked' = checked \cup {task[w].file}
            /\ found' = IF task[w].changed THEN found \cup {task[w].file} ELSE found
            /\ stray' = IF loop \in {"clear", "srd"} THEN stray \cup {w} ELSE stray
       ELSE Free(w) /\ UNCHANGED <<checked, found, stray>>
    /\ UNCHANGED <<mainVars, mapVars, g_validate_random, g_validated_files_num,
                   g_changed_files_v, queued, undefined, round>>

\* The task is counted, and only then its verdict handed over.
count(w) ==
    /\ At(w, "count")
    /\ g_validated_files_num' = g_validated_files_num + 1
    /\ IF task[w].changed THEN Goto(w, "push") ELSE Free(w)
    /\ UNCHANGED <<mainVars, mapVars, g_validate_random, g_changed_files_v,
                   queued, undefined, histVars, stray>>

push(w) ==
    /\ At(w, "push")
    /\ g_changed_files_v' = g_changed_files_v \cup {<<task[w].file, task[w].map>>}
    /\ Free(w)
    /\ UNCHANGED <<mainVars, mapVars, g_validate_random, g_validated_files_num,
                   queued, undefined, histVars, stray>>

-----------------------------------------------------------------------------

Init ==
    /\ loop = "idle" /\ to_queue = 0 /\ proof = FALSE /\ applied = {}
    /\ g_validate_files_m = {} /\ g_validate_files_m_iter = {}
    /\ g_validate_random = 0
    /\ g_validated_files_num = 0
    /\ g_changed_files_v = {}
    /\ queued = 0
    /\ task = [w \in Worker |-> NoTask]
    /\ undefined = FALSE
    /\ round = 0 /\ checked = {} /\ found = {} /\ stray = {}

MainLoop ==
    \/ fill \/ draw \/ reset
    \/ recall_validate_file \/ recall_failed
    \/ wait_complete \/ wait_timeout
    \/ take_verdicts \/ clear \/ validate_srd

Task(w) ==
    start(w) \/ take_file(w) \/ check(w) \/ look(w) \/ count(w) \/ push(w)

\* Nothing is said of a program that used the iterator past its end.
Next == ~undefined /\ (MainLoop \/ \E w \in Worker : Task(w))

Spec == Init /\ [][Next]_vars

\* The main loop goes on; of the tasks nothing is assumed, a disk may hang.
FairSpec == Spec /\ WF_vars(~undefined /\ MainLoop)

-----------------------------------------------------------------------------
(* Properties *)

\* Types: the iterator of validate_meaningful_file stays inside the map of its
\* round, and verdicts name files of the table.
RoundTypeOK ==
    /\ loop \in {"idle", "draw", "reset", "queue", "take", "clear", "srd"}
    /\ g_validate_files_m \subseteq File
    /\ g_validate_files_m_iter \subseteq g_validate_files_m
    /\ g_validate_random \in 0..(MaxDraw + 1)
    /\ g_validated_files_num \in Nat
    /\ g_changed_files_v \subseteq File \X (0..(MaxDraw + 1))
    /\ to_queue \in 0..Cardinality(File)
    /\ queued \in Nat
    /\ task \in [Worker -> [pc : {"free", "file", "check", "look", "count", "push"},
                            random : 0..(MaxDraw + 1), file : File \cup {0},
                            map : 0..(MaxDraw + 1), changed : BOOLEAN]]
    /\ round \in Nat
    /\ proof \in BOOLEAN /\ undefined \in BOOLEAN
    /\ checked \subseteq File /\ found \subseteq checked
    /\ stray \subseteq Worker

\* A round that counts as a proof has checked every file of its map, however
\* many late tasks of earlier rounds end during it.  Only a task caught by
\* the draw between its look at the number and its count is counted wrongly.
ProofIsEarned ==
    proof /\ stray = {} => g_validate_files_m \subseteq checked

\* The verdicts a complete round applies are exactly those its tasks reached:
\* none of an earlier round is among them and none is lost, but for tasks
\* counted before their verdict is handed over.
VerdictsOfTheRound ==
    loop = "clear" /\ proof /\ stray = {} =>
        applied = {<<f, round>> : f \in found}

\* The main loop always comes back, so that srd is validated and reports go
\* on, even if the tasks hang.
RoundEnds == loop # "idle" ~> (loop = "idle" \/ undefined)

=============================================================================
