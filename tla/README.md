# A TLA+ model of spacex-storage

spacex-storage is the storage inspector of a node of the Mannheim network. An
SGX enclave seals the blocks of files that clients order and units of random
data (srd) that prove free space, checks again and again that both are still on
the disks, and signs work reports for the chain. An untrusted app around it
serves an HTTP API, runs thread pools, keeps the database and talks to ipfs and
the chain. This directory models the parts in which threads, processes and
machines meet, checks them with TLC on small instances and proves the main
invariants with TLAPS for every value of the constants.

All paths below are relative to the repository's `src/`. `PROJECT.json` gives,
for every definition that models code, the lines it stands for.

## 1. Inventory

| Part | State | Operations | Hard because | Module |
|---|---|---|---|---|
| Storage, `enclave/storage` | pending files, entries of the file table | seal start, seal, seal end, delete | every operation gives up its mutexes several times; failures are undone by deferred clean-ups | `Storage` |
| Workload, `enclave/workload` | file table with three statuses per file, deleted buffers, statistics, report marks, srd list | helpers of all others; cleaning of deleted files and units; serialisation and restore | buffers are emptied, worked on as a copy and put back while others add to them | `Workload`, `Storage`, `FileService`, `Srd`, `Restart` |
| Validator, `enclave/validator`, `app/process/Validator.cpp` | the round's map, iterator, random number, count and verdicts | rounds of validation for files and srd, one task per file or unit in the app's pool | five mutexes for one round; tasks outlive it; time limit | `FileService`, `ValidationRound`, `Srd` |
| Work report, `enclave/report` | frozen statuses, indexes of reported files, report height | generate, upload, handle the result | files are deleted and sealed anew while a report is at the chain; answers get lost | `Credit`, `FileService`, `Upgrade`, `Restart` |
| Srd, `enclave/srd`, `app/process/Srd.cpp` | list of units, task, statistics and their copy in the app | increase, decrease, remove space, change task | the deleted buffer holds indexes into a list that changes; four kinds of threads | `Srd` |
| Enclave queue, `app/ecalls` | running and waiting counters | admit and release an ecall | five mutexes taken one after the other, polling, priorities | `EnclaveQueue`, `Slots` |
| Start, restore, stop, `app/process/Process.cpp`, `enclave/identity` | metadata in the database, key pair, restart flag | restore or enter, store, stop | crash between any two steps; two threads store | `Restart` |
| Upgrade, `Process.cpp`, `EnclaveData.cpp`, `ApiHandler.h`, `Identity.cpp` | status of the app and of the enclave, data to hand over | the handshake of an old and a new version | two processes, five threads, messages that get lost, an attempt that is given up half way | `Upgrade` |
| Work-report thread, chain client, `WorkReport.cpp`, `app/chain` | target and own height | poll, wait, report | slots, upgrade, restart | `Upgrade`, `Restart` |
| App copy of the file information, `EnclaveData.cpp` | lists of files by type, pending sizes | ocalls; `/file/info`, `/workload` | the ocalls come outside the critical section they belong to | `FileInfo` |
| Identity and entry network, `Identity.cpp`, `EntryNetwork.cpp` | key pair, registration | key, quote, IAS, registration | each step may fail; the chain may accept without an answer | `Restart` |
| HTTP server, ipfs client, database, file utilities | none of their own | I/O | may fail | inputs of the models |
| Configuration, JSON, formatting, log | none | at start, or none | - | not modelled |

Threads meet like this: API handlers call ecalls through the enclave queue and
run `Storage`'s and `Srd`'s requests; the enclave's main loop stores the
metadata, validates files, cleans deleted files, validates srd, cleans deleted
units and works on the srd task, in this order; its ocalls hand tasks to two
pools of the app that call back into the enclave; the work-report thread makes
reports; `srd_check_reserved` frees space; and the check loop of `process_run`
watches for an upgrade. They share the Workload singleton, whose mutexes are
held for short sections only, and the app's EnclaveData.

What makes the system correct: a deleted file is deleted and goes away; no file
is stuck half sealed; what the enclave believes the chain credits is credited,
and each report is an exact increment; a sealed file is reported in the end;
space that is reported is there; a round of validation that counts as a proof
has looked at every file; the enclave's thread slots are never overdrawn; a
restart neither reports a slot twice nor loses the identity; an upgrade hands
over everything that was acknowledged, and ends.

## 2. Modules

**Workload** holds the file half of the Workload singleton and its helpers. The
sorted vector with binary search is a function of the cid; an entry has its
current, waiting and original status, the chain block number and the hash of its
list of leaves. Directories and the database are the external variables
`ipfs_dir` and `db_tree`.

**Storage** extends it with the requests. One action is one critical section or
one call out of the enclave, and `thread[t].pc` names what the thread does next;
the deferred clean-ups are the labels `clean_*` and `end_*`.
`deal_deleted_file` is the main loop's cleaning in three steps: take, clean, put
back. Sealing a block whose links are known by the constant `Links` counts the
block first and awaits its links in a later step, as in the code; a linked block
is unsealed with the mutex released, and the record that is used afterwards may
have been removed and come back.

**FileService** extends Storage with validation rounds as wholes and work
reports. `validate_meaningful_file` takes the snapshot, `validate_tree` and
`validate_block` are the two halves of a task, `judge_*` look at the deleted
buffer before a loss is believed, `change_file_status` applies the verdicts. A
report goes through `gen_work_report` (freezes statuses under `file_mutex`),
upload (accepted, refused, or accepted with the answer lost) and
`handle_report_result`. `ledger` is what the chain credits. Two history variables
name where enclave and chain, or statistics and table, may part. `unsettled` are
the files of which the chain may have booked what the enclave does not remember:
those of a report whose answer was lost, those whose entry was replaced or erased
while the chain credited it, and those a report added under an entry that was gone
when its result was handled. A file is settled again when the operator recovers it
(not while a report that was written before is still to be booked) or when the
result of a later report reaches the entry that report froze. `miscounted` is set
by the three steps that change the statistics on the supposition of a status they
do not look at, when the entry has another one: the undoing of a seal start, a seal
end (both suppose PENDING) and a verdict (the status of its snapshot). `Remember`
is the part of a request's step that keeps this history.

**Credit** is what work reports promise: two books about the files, the chain's
`ledger` and what the enclave believes credited, which a report brings together
increment by increment. A report is one step (`Write`), so is learning its result
(`Learn`); between reports the enclave's book can only forget, and `doubt` names
the files about which the books may differ. `ImplementsCredit` maps FileService to
it: believed are the files whose original status is VALID, `doubt` is `unsettled`,
and requests, rounds, tasks, cleanings and freezing are stuttering steps or
`Forget`.

**ValidationRound** opens a round: the main loop fills the map, draws the random
number, resets the count, queues the tasks and waits for the count or the time
limit (`wait_timeout`), takes the verdicts and clears the map; a task reads the
number, takes the next file of the shared iterator, checks it, looks whether the
number is still the same, is counted, and only then pushes its verdict. Each is a
step of its own. Using the iterator past its end sets `undefined`, after which
nothing is said. `stray` collects the tasks that the round caught between
their look and their last step; a round that starts with no trace of them left
forgets them.

**Srd** models units of random data as pairs of disk and number. A behaviour
begins with the units `Already` that `restore_srd` found in the metadata and
counted. Units are dealt to the disks as the code does it, one by one to the disk
with the fewest so far that has space (`get_increase_srd_info`); erasing indexes is
the closed form `delete_srd_meta`, and `set_srd_info` takes the number erased at
once. `main`,
`remover`, `client` and the workers each have a label `pc`; a thread that owes the
app a copy of the statistics has `pub` set and cannot go on before it has taken
(`get_srd_info`) and delivered it (`ocall_set_srd_info`). A round of validation
fills the map, draws a random number, queues its tasks and ends when the count
reaches the size of the map, or with the time limit (`validate_srd_timeout`) and
then without a proof. A task, `task[c]`, reads the number, takes the next entry of
the shared iterator, checks the unit and buffers the index of one it cannot read,
looks whether the number is still the same, is counted, pushes the unit and buffers
the index, each a step of its own; `old` marks a task whose round has ended. The
number itself is abstracted to whether it is still the one the task read. Indexes
count from 1. When the space remover looks for more units than the list has, or a
task moves the iterator past its end (`PastTheEnd`), the enclave reads where nothing
is and is `crashed`; no step follows. The history variables `condemned` (units found
bad or removed on purpose) and `overtaken` (a task buffered an index or handed in a
verdict after the end of its round) only serve the properties.

**EnclaveQueue** models `try_get_enclave` and `free_enclave`, one action per
critical section, for any table of priorities, block tasks and ignored tasks.
**Slots** is what it promises: a pool of slots in which entering and leaving are
single steps and some slots are kept for the highest priority. The refinement
mapping of `ImplementsSlots` takes the callers inside, by priority, for the slots
taken; polling, waiting and counting are stuttering steps.

**Upgrade** has two processes. The old version's threads are the web handler
(`handler`), the check loop (`check`), the work-report loop (`wr`), the main loop
(`tasks`) and clients' requests; the new version walks through `upgrade_try_start`,
`get_metadata`, `restore_from_upgrade`, `entry_network`, `new_report` and
`upgrade_try_complete_*`. The status of the app and that of the enclave are two
variables set one after the other; `set_upgrade_status(NONE)` releases its mutex
before it tells the enclave (`look_again`, `ecall_disable_upgrade`). `Lost` is a
message or call that fails. What is handed over is abstracted to the requests
whose effect is in it and the report height. History: `expired` says that the
old version gave an upgrade up, `crossed` that a status was set over one set
meanwhile.

**Restart** is one node over crashes and starts: `process_run` restores or enters
with a new key, two threads store the metadata under `g_metadata_mutex`, reports
are made slot by slot and files are sealed and deleted. A crash keeps database,
disks and chain and forgets the rest. A start that does not restore begins with an
empty table. The report height is lost with a crash, and the restart flag makes the
first reports fail.

**FileInfo** models the file routes of the API with the ocalls that keep the
app's copy of the table (`sealed_file`, `pending_size`), each at its place inside
or after the critical section, verdicts, reports, recovery, storing and restarting,
and the answers made from the copy (`get_file_info`, `unseal`, `gen_workload`).
`unseal(c)` is the set of answers the route may give: besides the block also the
errors of the enclave, whatever is on the disk. History: `acked` are the files whose
sealing was acknowledged and that no client deleted since, `unstored` those of them
that came after the last store of the metadata, `forgotten` those a restart may have
lost (it came before the store, or requests had overlapped), and `mixed` the files on
which requests overlapped.

The MC modules give the constants their values; where a run starts with files or
units already sealed, the MC module states that initial state in full, and it is
one that requests reach. The proofs about a module `M` are in `MProofs`:
`StorageProofs`, `FileServiceProofs`, `ValidationRoundProofs`, `SrdProofs`,
`EnclaveQueueProofs`, `UpgradeProofs`, `RestartProofs` and `FileInfoProofs`. Operators whose comment begins with
"Mutant" are plausible bugs; a run must fail when one replaces the definition it
imitates.

## 3. Runs

| Run | Instance | Shows |
|---|---|---|
| `race` | two files, one linking to the other's block, two threads, four requests of every kind, an upgrade, limit on pending files 0 | types; `NoStuckPending`; `DeletedIsBuffered`; `PendingBounded` |
| `report` | one sealed and one arrived file, one request (seal start, seal end or delete), deletions by the validator, failing disks and tasks, ipfs offline, refused reports, upgrade; a round checks one file, a report lists one | types; `ReportExact`; `SpecAtRest` |
| `live` | two sealed files, reports of one file, answers that get lost, deletions, failing database | `BooksAgree`; the refinement `ImplementsCredit`; under fairness `SealedIsReported` and `DeletedIsDropped` |
| `gate` | three callers, four kinds of ecall, two slots, one reserved | types; `CountsAgree`; the refinement `ImplementsSlots`; under fairness `LowTasksLeave` |
| `units` | two disks, a restored unit on each and one more to seal, a pool of two, one thread that checks, one request; one failing check, one round that times out, or both; or one failing queueing, failing seal or change of free space; or an upgrade begun and given up | types; `BufferedIsCondemned`; `HeldIsThere`; `InfoExact` |
| `handover` | one client, slot of 3 blocks, patience of one turn, one fault | types; `HandoverKeepsAcked`; `WaitsForTheLeaving`; `ReportsAscend`; under fairness `UpgradeEnds` and `EnclaveResumes` |
| `restart` | one file, two accounts, slot of 2 blocks, one crash, one fault | types; `StoredIsRegistered`; `RunsAsConfigured`; `OrphanIsYoung`; `ReportsAscend`; `StoreAdvances`; `ReportedIsThere` |
| `copy` | one file, two threads, five requests, verdicts, recovery, stores and restarts between any two steps | types; `ShownIsTrue`; `AckedIsKnown`; `SizeOfPending` |
| `rounds` | two files, two threads of the pool, four random numbers | types; `ProofIsEarned`; `VerdictsOfTheRound`; under fairness `RoundEnds` |
| `delete_final` | violated | deleting a fully arrived pending file completes it instead: it comes back VALID |
| `competing` | violated | a report of the old version arrives after the new version's first one |
| `stopped` | violated | `/stop` ends the process without storing what was sealed since the last store |

The three violated properties restate comments of the code; "findings" in
`PROJECT.json` quotes them.

### Bounds, and why they are enough

`MaxRequests`, `MaxChanges`, `MaxSrd`, `MaxFaults`, `MaxCrashes`, `MaxBlock` and
`MaxDraw` bound a behaviour; `Faults`, `Requests` and `Upgrades` select what happens
in it. Every race in the file modules is between two threads over one file, or
between a thread and a copy of a buffer, so two threads and one or two files
reach it; four requests are enough to start, seal and end a file while another
request interferes. Limits are set to 0, 1 or 2 so that they are met. In `units`
one disturbance is enough for each fault to meet a client's request, a full turn
and the remover; only the time limit is combined with a failing disk, since a late
task matters when it has found something. One thread that checks is enough for a
task that is late by a round and more, and for the iterator's end; the constraint
`InTime` cuts behaviours off once a task handed something in late, of which the
properties say nothing. Two workers with room for one more unit cover both a success
and a failure in the same turn. In `handover` the blocks 6 and 7 with a slot of 3 let
the upgrade begin both when a report is due and when it is not, and one fault is
enough to make the new version try again; a second one only repeats that. In
`restart` blocks 2 to 4 are two slots: the reports before and after a crash; the
crash may fall into the start after the first one's. `copy` needs a start, a
seal, an end and two requests that interfere. In `rounds` four numbers are two
rounds of files with the srd round between them, so a task may be late by one
round and by two.

`live` leaves out failures of disks, tasks and ipfs: with them a file whose verdict
flips between lost and valid is reported over and over and, sorted before the
others, can starve them under `WORKREPORT_FILE_LIMIT`; `SealedIsReported` would not
hold. It has no requests, so nothing is forgotten in it: the abstract step `Forget`
needs a credited entry that is replaced, which takes two seal ends of one file that
overlap. `ReportsKeepBooks` covers that case, and `report` has a request beside the
report; larger instances than these add states and no new step.

Deadlock is checked where the system never stops (`race`, `report`, `live`,
`gate`, `copy`). In the others it may: the enclave may have crashed (`units`,
`rounds`), the node may be stopped (`restart`), or the old version may be gone
(`handover`). Sizes: every file counts 1.

### Fairness

`Storage`: a started request runs to its end (threads of the API and the enclave
are scheduled) and the main loop cleans again and again (`ecall_main_loop` is an
endless loop). `FileService`: the rounds and their tasks go on, reports are
generated slot after slot, and a chain asked again and again accepts in the end
(strong fairness of `upload_accepted` alone). `SlotsOutlastRounds` says that again
and again both validations are complete when no report is under way: a slot is
`REPORT_SLOT` (1200) blocks of `BLOCK_INTERVAL` (3 s), far more than a turn of the
main loop. `EnclaveQueue`: a polling caller goes on polling; nothing is assumed of
the ecalls inside, since the main loop never returns. `Upgrade`: the old
version's loops, its handlers and the clients' ecalls are threads of their own
and go on; nothing is assumed of the chain or of the new version, which may stop
at any point. `ValidationRound`: the main loop goes on; nothing is assumed of the
tasks, since a disk may hang.

## 4. Theorems

Proved by TLAPS for all values of the constants, from the assumptions named in
the modules (`WorkloadAssumption`, `StorageAssumption`, `FileServiceAssumption`,
`EnclaveQueueAssumption`, `ValidationRoundAssumption`, `SrdAssumption`,
`UpgradeAssumption`, `RestartAssumption`, `FileInfoAssumption`). These say little:
sets of disks, files and clients that are counted are finite, limits and bounds are
numbers, a slot is not empty, the restart flag is set to at least one, an upgrade or
a start begins past the first slot, and the units restored from the metadata have
numbers of their own. That the threads of FileService are finitely many is what
`TCSNum` says in `enclave/Enclave.config.xml`; counting requests needs it.

* `StorageTypes`, `FileTypes`: the type invariants, one lemma per operation; the
  second reuses the step lemma of the first, since every file request of
  FileService is a Storage step.
* `DeletedStaysBuffered`, `DeletedStaysBufferedBesideValidator`:
  `DeletedIsBuffered` for any number of files, threads and requests. It is not
  inductive: the cleaning may only forget its copy when it is empty, so
  `CopyIsEmpty` (outside a cleaning the copy is empty, so taking a new one
  forgets nothing) is added.
* `PendingNeverStuck`: `NoStuckPending`. The argument goes by frames: a step that
  settles nothing, creates no PENDING entry and removes no pending file keeps it;
  the few others are done one by one.
* `PendingStaysBounded`: `PendingBounded`, without a bound on the files or threads.
  Not inductive: a request that ends makes a file count. `Standing` drops the
  requests that settle nothing from the exception: only a start that finds room adds
  to it, and what it may then hold was just counted under the same mutex. That a
  link bringing back the record of a failed file adds nothing is `NoStuckPending`:
  an entry that is PENDING without a record has somebody who will settle it.
* `OriginAlwaysOnChain`: `OriginOnChain`, from the inductive invariant
  `OriginInv`, which adds: a waiting status VALID during a report belongs to a
  file the report adds (`FrozenIsAdded`), a report lists what it deletes,
  deletes nothing it adds and, once accepted, has what it adds credited on chain
  (`ReportIsBooked`), and an absent entry remembers nothing
  (`AbsentIsForgotten`). `OriginOnChain` is one direction of `BooksAgree`, and the
  ground the next three stand on.
* `ReportsAreExact`: `ReportExact`, and `BooksAlwaysAgree`: `BooksAgree`, from
  `BookInv` on top of `OriginInv`. Neither is inductive: that a report is right when
  it is written and when it is handled needs what its entries wait for in between.
  `ListingInv`: an entry waits for what the report says of it, unless it was
  replaced. `BookedInv`: what is not unsettled is remembered as it was booked, but
  for the listed files of a report whose result is still to be handled.
  `IncrementInv`: until a report is booked, what it adds is not yet believed and what
  it deletes still is, although requests replace entries meanwhile. `TotalInv` is
  the total; counting it is `IncrementCount`, and it uses that a believed file is in
  the table. A request may break any of these for a file only by making it unsettled.
* `ReportsKeepBooks`: `ImplementsCredit`, the refinement, from the same invariants.
  One lemma per abstract step: a request is a `Forget` (of no file, if it replaces
  no credited entry), `gen_work_report` a `Write` because the table lists as added
  only what is not believed, the three outcomes of an upload are `Book`, `Lose` and
  `Refuse`, `handle_report_result` is a `Learn` of the entries that are still the
  frozen ones, the operator's word is a `Settle` or, about a file that is not in the
  table, nothing. Everything else changes no book (`CreditStutter`).
* `StatisticsExactAtRest`: `SpecAtRest`, from `BalanceInv`. Statistics and table are
  changed in different critical sections, so the invariant says by how much they are
  apart in every state: a start that inserted its entry and has not counted it, a
  deletion that marked an entry and counts it still (`Balance`). A step moves table,
  requests and statistics by the same amount for each status (`BalanceMoves`, one
  entry and one request at a time); the verdicts of a round, which move many at once,
  are `BalanceFlip`. This holds for deletions by the validator beside those of
  clients, and stops exactly at the three steps of `miscounted`.
* `QueueTypes`, `CapacityHolds`, `ReserveHolds`, `CountsStayExact`: from `QueueInv`, the
  conjunction of the types, the three properties and `RunningIsInside` (the
  counter of running tasks is the number of callers inside). Cardinalities are
  handled by `OneLess` and the two frame lemmas.
* `GateIsPool`: `ImplementsSlots`, the refinement. Initially nobody is inside; an
  admission under `QueueInv` is an `EnterHigh` or `EnterLow` step, because the
  counter it compares is exact (`RunningIsInside`); a release is a `Leave` step;
  every other step leaves the callers inside alone and stutters.
* `RoundTypes`, `ProofAlwaysEarned`: `ProofIsEarned`, from `RoundInv`. A round
  proves the files when its count reaches the size of its map, so the count has
  to be tied to the files: a file leaves the iterator once a round, so the tasks
  of a round hold different files (`CurrentIsNew`); a task that is about to be
  counted has checked a file of its own (`CountingIsChecked`); so the count never
  exceeds the number of files checked by tasks that have been counted
  (`CountIsEarned`). `Bounds`, `Outside`, `CheckedIsPassed` and `ProofInRound` say
  where these hold. `stray` excepts the tasks caught between their look and their
  last step, as the property does.
* `VerdictsAreOfTheRound`: `VerdictsOfTheRound`, from `VerdictInv` on top of
  `RoundInv`. A task of the present round holds a file of its map (`CurrentMap`);
  every loss that was found is in the list of verdicts or with a task that has been
  counted and will push it (`Handed`); and after the verdicts were taken there are
  none left and no task that holds one (`Quiet`), so that none of this round is
  applied in the next.
* `SrdTypes`, `BufferedAlwaysCondemned`, `HeldAlwaysThere`, `InfoAlwaysExact` and the
  action property `InTimeDropsInvalid`: from `SrdInv`. An index stands for a unit only
  as long as the list is not compacted, so the invariant says when it can be: a unit
  is in the list once and under a number of its own, and one that is sealed and not
  pushed yet is in no list (`UnitInv`); the pool works only while the main loop waits
  (`PoolInv`); the map of a round is of the list as it is during the round (`TaskInv`),
  and so are what a task of this round holds and what it pushed (`RoundInv`, with
  `EntryInv` for a task and `PushedInv` for a pushed unit), while nothing is claimed of
  the entry of a task that is left over from an earlier round; `srd_decrease` cuts the list with an empty buffer
  (`BufferInv`). `HeldInv` adds to `HeldIsThere` that nobody is about to delete the
  directory of a unit that stays (`Doomed`), `CountInv` to `InfoExact` that the total
  is not negative, so that erasing never meets the floor of `set_srd_info`. What
  `delete_srd_meta` leaves, and how much, are the lemmas `NthCounts`, `Compacted` and
  `CompactedCount`, by injections between index sets instead of induction over the
  list. Rounds may time out and tasks may outlive them, in any number. As in the
  properties, what happens once a task has buffered an index or handed in a verdict after
  the end of its round (`overtaken`) is excepted: the code does drop a good unit then.
* `UpgradeTypes`, `OldReportsAscend`, `LeavingIsAwaited`, `AckedIsHandedOver`: from three
  invariants, each on top of the one before. `ReportInv`: whoever holds
  `g_gen_work_report` with a report to send holds a height above all that the chain, the
  stored data and the new version have seen. `LeavingInv` follows the status of the
  old version through the new one's progress, unless it gave up (`expired`).
  `QuietInv`, unless a status was set over another (`crossed`): from the status END on
  no request is being carried out, so what was acknowledged is in the data that are
  made then and, once it has them, in the new version's.
* `RestartTypes`, `StoredKeyIsRegistered`, `NodeRunsAsConfigured`, `OrphansAreYoung`,
  `StoresAdvance`, `ReportsOfAKeyAscend`, `ReportedDataIsThere`: from `RestartInv`.
  Nothing is under way in a process that is down (`AsleepInv`); key and account are
  followed from the registration to the database and back (`IdentityInv`); a thread
  that is about to put holds the mutex and no stale copy (`StoreInv`); the enclave's
  height is not below that of the chain, or the restart flag keeps it from reporting
  (`SlotInv`); what was validated is on the disk (`DataInv`); data on the disk have an
  entry in the snapshot and in every copy about to be stored, or are of a file begun
  later (`OrphanInv`, `CopyInv`).
* `FileInfoTypes`, `ShownTypesAreTrue`, `AckedFileIsKnown`, `SizeIsOfPending`: from
  `FileInv(c)`, about a file whose requests came one after the other. At most one
  thread works on it; `Rest(c)` relates table, pending files and the app's copy between
  two requests; `Doing(r)` says for each place in a request how far they have gone
  apart and what the request still brings together. A step is looked at for one file.
  `AckedFileIsKnown` goes over restarts, so it needs `StoredInv` too: the stored metadata
  have every acknowledged file that the next restart will not forget.

Only model-checked, and why:

* `SealedIsReported`, `DeletedIsDropped`, `LowTasksLeave`, `UpgradeEnds`,
  `EnclaveResumes`, `RoundEnds`: liveness; fairness and ENABLED are outside the prover.

Every invariant and every action property of a passing run is the subject of a
theorem, as are both refinements.

## 5. Known limits and abstractions

What the code does although one would not wish it, found while modelling and
kept in the models:

* `SealedIsComplete` of Storage does not hold: a seal end that arrives between the
  counting of a block and the awaiting of its links (`enclave/storage/Storage.cpp:205`
  and `:215`) accepts a file without the blocks below.
* `VerdictSparesDeleted` of FileService does not hold: the deleted buffer is looked
  at when a block is read, so a verdict reached before a deletion is applied after
  it and a DELETED entry becomes LOST (`Validator.cpp:400`). Verdicts tell two
  copies of a file apart by chain block number only.
* Enclave and chain part for good where `unsettled` says so. A file that is deleted
  and cleaned while the report that adds it is at the chain leaves the table before
  the result is handled: the chain credits it, no later report deletes it, and
  `recover_illegal_file` looks in the table only (`Workload.cpp:566` and `:984`). A second seal
  end of a file replaces the entry the chain credits by one it was never told of
  (`Storage.cpp:408`), and the next report adds the file again.
* The statistics drift for good at the three steps of `miscounted`: a seal start over
  the limit that is undone after another request changed the entry, a seal end that
  finds an entry that is not PENDING (two seal ends of one file count it twice), and
  a verdict on an entry that was deleted or sealed anew since the snapshot.
* `OnlyInvalidIsDropped` of Srd does not hold: a failed check that is counted
  before it buffers its index (`Validator.cpp:178`) may buffer it after the list
  was compacted, and an intact unit is dropped. So does a task that is still at
  work when its round times out: it buffers the index of a unit it cannot read
  (`Validator.cpp:197` and `:237`) without looking at the random number.
* A restart forgets the files that were acknowledged after the metadata were last
  stored: their data are on the disk and nobody knows them (`forgotten` of
  FileInfo; `stopped` shows that `/stop` does not store them either).
* `VerdictIsSynced` of FileInfo does not hold: when a verdict and a request overlap,
  the app's copy may keep the file under its old type. In general requests that
  overlap on a file may leave the copy wrong until the next restart: the ocalls that
  change it come after the critical sections, in either order, and the size of a
  block may be added after the pending record was removed (`IpfsOCalls.cpp:95`). The
  properties of FileInfo therefore speak of files on which requests did not overlap.
* A task that starts after its round timed out uses the shared iterator without
  looking at its end (`Validator.cpp:158` and `:468`), and one that is caught between its look
  at the random number and its count is counted for the next round
  (`Validator.cpp:480-489`). ValidationRound has both, as `undefined` and `stray`;
  in Srd they are `PastTheEnd` and part of `overtaken`.
* A restored table does not fill the deleted buffer, so entries that were DELETED
  at a restart stay in the table (`Workload.cpp:359`).
* The enclave and the app may disagree about an upgrade that is begun again while
  it is given up (`crossed`), and an old version that gave up does not stop a new
  one that already has its data (`expired`).
* The limit on pending files may be exceeded by one (`Storage.cpp:54`).
  `/srd/change` may exceed `SRD_NUMBER_UPPER_LIMIT`, since the limit is tested
  against the list and the task but not against the share of the running turn
  (`enclave/srd/Srd.cpp:404`). The space remover can overrun the list
  (`Srd.cpp:346`) when its copy of the statistics is out of date, and picks units
  that are already condemned again (`Srd.cpp:352`).
* A block task admitted between the look at the block tasks and the admission runs
  beside the task it blocks (`EnclaveQueue.cpp:197`, against `EnclaveQueue.h:93`).
  `ENC_PERMANENT_TASK_NUM` is deducted whether the permanent task still waits or
  not (`EnclaveQueue.cpp:211`).
* `Report.cpp:74` speaks of the first four reports after a restart; the flag that
  `id_restore_metadata` sets makes one report fail.

What the models leave out of the parts they cover:

* An empty list of leaves at seal end is modelled as a failed store; the code
  would persist an empty value. Deleting all blocks of a cid in ipfs is one step.
* A list of leaves whose hash differs ends a validation task without a verdict:
  the code sets the loss and returns before it is recorded.
* `set_file_spec` counts -1 for any change that is not positive.
* Asking for the pending size of an unknown file inserts a zero (`EnclaveData.cpp:130`),
  which FileInfo takes for no size: whoever counts begins from zero in both cases.
  FileInfo does not bring a removed pending record back after a link, which only
  happens when requests overlap.
* Upgrade tells the enclave of a status only after NONE was set; the code reads the
  status again after any (`EnclaveData.cpp:204`), which makes a difference only when
  statuses cross (`crossed`).
* FileService takes the count of a finished task and the push of its verdict as
  one step and has no time limit; ValidationRound is about exactly these.
* Erasing several units and adjusting the statistics is one step although the
  statistics' mutex is taken once per unit; a copy taken in between is not
  modelled. Reading the app's statistics and the free space is one step.
* In the file and srd modules the upgrade status changes at any time among the
  values in `Upgrades`; the protocol behind it is in Upgrade.
* Upgrade begins with an old version past its first slot, with its restart flag
  down; a handler ends before the new version's next request. The new version
  does not crash, but may stop for ever.
* Restart writes to the database in one step, however many parts a value has on
  its way out of the enclave, and ends a process in one step; the order in which
  an exiting process releases its objects is below the model.

### Not modelled

* The cryptography of quotes, certificates, sealing and signatures, and the
  contents of blocks and srd units: pure computation; steps that need them
  succeed or fail.
* Sockets, sessions and routing of the web server, HTTP and ipfs clients, logging,
  JSON, formatting, path building and configuration: no state that a property is
  about. `Json.h`, `Ctpl.h` and the SGX support files are vendored.
* `check_or_init_disk` and the choice of a disk for a block: which disk holds what
  matters to no property stated here.

## 6. Plan

1. **Algorithms**, against reference definitions: binary search of
   `is_file_dup_nolock`, the dealing of units to disks, chunked persistence
   (`ecall_safe_store2`), the parsing of links.
2. **Abstract specification** of the rest of a file's life (absent, pending, valid,
   lost, deleted), beside the books of Credit, that Storage and FileInfo implement.
3. **Proofs** of the algorithms, as recursive functions over bounded data, where
   the provers' lack of induction allows it.
