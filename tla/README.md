# Formal models of Transformer Lab

TLA+ models of the parts of Transformer Lab that decide what happens to a job: its launch, its
record, its status, its quota, its sweep, its machine in a cloud, and the versions of models and datasets
that it saves. TLC checks them on small instances; TLAPS proves, for
every instance, each safety property, type invariant and refinement that the runs check. Liveness is model-checked only. Paths below are relative to the repository (`src/` here).

## 1. The system

Transformer Lab is a FastAPI server (`api/`), an SDK that runs inside jobs (`lab-sdk/`), a command
line client (`cli/`) and a React interface (`src/`). A *job* is a directory with an `index.json`; it
is launched on a *compute provider* (the host itself, a cluster, a cloud), reports through the SDK and
the `tfl-remote-trap` wrapper, and is observed by a background worker. One API process, elected with
`flock`, runs the background workers; several API processes may serve requests.

| component | code | state | operations | with whom it interacts |
|---|---|---|---|---|
| launch request | `services/compute_provider/launch_template.py` | none | check quota, hold minutes, create the job, enqueue | quota, job service, both queues |
| local launch queue | `services/local_provider_queue.py` | `_local_launch_queue`, `_processing`, two locks, in memory | enqueue, drain, launch, wait for the process | local provider, job service, quota |
| remote launch queue | `services/remote_provider_queue.py` | table `job_queue`, a semaphore, launch tasks | enqueue, poll, mark, reconstruct, launch | providers, job service, quota |
| local provider | `compute_providers/local.py` | child processes, `<job_dir>/pid` | launch, stop, status | process registry, trap |
| trap and SDK | `lab-sdk/src/lab/remote_trap.py`, `lab_facade.py` | status, `live_status`, `job_data` in the record | start, finish, crash, `lab.init/finish/error` | the record, from another process |
| job record | `lab-sdk/src/lab/labresource.py`, `job.py` | `index.json` on local or object storage | read, read-modify-write of fields | every writer above, with no lock |
| job service and cache | `services/job_service.py`, `cache_service.py` | one in-memory cache per API process | update status, stop, delete, cached reads | record, quota, status worker |
| status worker | `services/remote_job_status_service.py` | copies of jobs, circuit breaker, empty-poll counters | one cycle over active jobs | providers, job service |
| quota | `services/quota_service.py` | rows QuotaHold (HELD, RELEASED, CONVERTED) and QuotaUsage | check, hold, release, convert, record, backfill | launch request, status writers |
| sweeps | `services/sweep_status_service.py`, `launch_sweep.py` | parent's counts and status | launch children, aggregate | job service |
| cloud and cluster providers | `compute_providers/{aws,gcp,runpod,vastai,lambda_labs,nebius,azure,skypilot,slurm,dstack}.py` | machines or submitted jobs, and what a team's machines share, in the cloud | launch, stop, status | cluster management, launch queue, status worker, threads of their own |
| asset versions | `services/asset_version_service.py`, `routers/experiment/jobs.py` | per group `index.json` and `versions.json`, folders `vN` | create, rename, tag, delete, list, save from a job | datasets, models, background saves |
| notifications | `services/notification_service.py` | `job_data.notification_sent` | scan, post, mark | job service |
| process registry | `services/process_registry.py` | a locked JSON file of pids | register, kill, kill_all | local provider, shutdown |

Left aside: uploads, teams and invitations, authentication and permissions, models,
datasets and galleries (files written like job records), migrations, the client and the interface.
`PROJECT.json` lists them with their reasons.

### What is hard, and what makes it correct

* **Local queue.** Requests, one drainer, an executor thread, the job's process, the poller and users
  interleave at every `await`. Correct means: one drainer, no lost wake-up, FIFO service, one batch
  process at a time unless a turn was ended early, minutes charged once, every queued item served.
* **Remote queue.** A row is marked before its job is loaded, so a crash loses it, but never launches
  it twice. Correct means: at most one launch per row, nothing dropped without a fault, failed launches
  free their minutes and their slot, every launch comes to an end.
* **Record.** Read-modify-write by several processes without a lock; opening a local file for writing
  empties it, and leaving the open file by an exception puts an empty object on an object store; a failed read
  answers `{}`. Correct means: an update changes the field it names, and the record is there to be read.
* **Cache.** Terminal records are cached for seven days in each process; after an update to a terminal status
  whatever is read back is cached, even if the write failed. Correct means: what is served is terminal, and what is
  stored, as far as terminal statuses are final.
* **Status worker.** A verdict is reached on a copy and written several awaits later; failures open a
  circuit breaker; each of ten providers says in its own way that a machine is gone, and some hide that they
  do not know. Correct means: no verdict for want of a few answers, nor on an answer that is not about the job, machines torn down before the status says
  so, every end that can be noticed is noticed.
* **Quota.** The check reads two sums and is not atomic with the hold; tracker, backfill and failing
  launch settle a hold; a usage row is unique per job and team, and a second insertion rolls back what was
  flushed with it; each of them may end early without a word. Correct means: an overdraft has a known cause, a hold does not outlive its job, a job
  is charged once.
* **Sweeps.** Children are launched in the background and counted while they change; launcher, worker and
  users rewrite one record. Correct means: never completed early, completed in the end, requests stand.
* **Cloud machines.** Requests fail with the machine made, launches of one team race over what they share,
  stops run beside launches, deletions are refused while something is in use. Correct means: one machine
  per job, none that nobody knows, none after a stop, nothing that bills for ever.
* **Asset versions.** Lists are read, changed and written back without a lock; a read may write; the folders
  that versions are numbered by can be deleted under their list. Correct
  means: one holder per tag, saves in folders of their own, answered versions stay, names differ.
* **Notifications, registry.** A crash between an effect and its record, pids that are reused.

## 2. The modules

| module | models | states and actions |
|---|---|---|
| `LocalQueue` | local queue in its environment | the item's `stage` follows the coroutine that carries it; one action per stretch of code between two awaits |
| `FifoServer` | what the queue promises | arrive, advance, forget |
| `LocalQueueProofs` | theorems about `LocalQueue` | |
| `JobProofs` | theorems about `JobRecord` and `JobCache` | |
| `RemoteQueue` | launch request, `job_queue`, worker, launch tasks, and around them poller, users, restarts | `worker` is the program counter of the cycle, `task[j]` that of a launch task |
| `DurableQueue` | what the table promises | post, take, start, drop |
| `RemoteQueueProofs` | theorems about `RemoteQueue` | |
| `JobRecord` | updates of one `index.json` | read, open (which empties a local file), close, failed read; a writer is killed (`Dies`) or leaves `async with` by an exception or a cancellation (`BreaksOff`) |
| `AtomicRecord` | what the setters promise | set one field |
| `StatusWorker` | the worker's cycle over the jobs of one provider, with the wrapper, the machine, users and outages around it | a look at a job (report, breaker or answer) and the write of its verdict are two steps |
| `StatusWorkerProofs` | theorems about `StatusWorker` | |
| `JobCache` | one record and the caches of all API processes | each cached read and each terminal update is split at its awaits; the write of an update may fail unnoticed (`UpdateFails`) |
| `QuotaLedger` | the quota of one user: launches, ends of jobs, tracking tasks, backfill, owner, calendar | `stage[j]` is the launch request's progress; one action per transaction, two for a check; `debt`, `raced`, `lost` are history; `Mishap` is a failure that the code swallows |
| `Account` | what the two quota tables promise per job | reserve, free, charge |
| `QuotaLedgerProofs` | theorems about `QuotaLedger` | |
| `Sweep` | parent, children, launcher, worker, users of one sweep | each update of the parent is a draft and a rewrite; one action per child read |
| `SweepProofs` | theorems about `Sweep` | |
| `CloudMachines` | launch and stop of the nine providers that know a machine, or a submitted job, by its name | one action per request; `kind` is the provider, `todo` the shared things a launch has still to see to |
| `AzureMachine` | one machine, its interface and its IP | a launch thread, stop threads, Azure's cascade and the machine's own deletion |
| `MachineProofs` | theorems about `CloudMachines` and `AzureMachine` | |
| `AssetVersions` | groups of versioned models and datasets | `op[t]` is what a request or a background save is doing; each read, opening and closing of a file is an action; `Requests` are the kinds of operations of an instance |
| `AssetVersionsProofs` | theorems about `AssetVersions` | |

`LocalQueue` composes the queue with the job's process and SDK, the status poller, users and restarts,
because its hazards are between them: `stage` for the drainer, `proc` and `pidFile` for the process,
`poll` for the poller's copy, `hold` and `usage` for the quota rows. Updates of a record are atomic
there; `JobRecord` takes them apart. `RemoteQueue` lets the poller write any verdict late, an
over-approximation of its decision; `StatusWorker` has the decision itself. Its `kind` is one of the
ten provider types; they differ in whether a service that does not answer raises (`Raises`) or looks like an
absence (`Hides`), and in what an absent machine means for a running and for a stopping job: settled at once on the one absence
(`TakenAtOnce`), after the threshold (`Debounced`) or never. SLURM's answers may be about other jobs only
(`ListsOthers`). `JobCache` keeps only the status of the record; `LiveReads` is
either the stored status or the failed read that `JobRecord` explains. `QuotaLedger` takes launches,
ends and settlements from their services and leaves the queues out: any launch may fail, return or lose its
provider at any time. `Sweep` and `AssetVersions` use the same read-modify-write as `JobRecord`, split where
the code awaits. `CloudMachines` stands one step below `RemoteQueue`'s `ClusterComesUp` and `StatusWorker`'s
machine: it says how a launch comes back with a machine, an error or both.

`JobProofs` and `MachineProofs` each extend two modules; the initial and next-state formulas of the second
therefore have names of their own (`CacheInit`, `CacheNext`, `CacheSpec`; `AzureInit`, `AzureNext`, `AzureSpec`),
as those of `Account` have.

A constant whose comment says "bound" limits TLC's exploration and has no counterpart in the code. Operators
whose comment begins with "Mutant" are plausible errors; `PROJECT.json` names the run and
property that notice each. Where a job's `start_time` matters: the launch request stores it, so a
terminal status always records usage.

## 3. The runs

| run | instance | what it shows |
|---|---|---|
| `local_queue` | 2 jobs, all writers, 3 checks, 1 restart, 2 user requests | one drainer, nobody stranded, batch processes overlap only after a named escape, no double charge |
| `local_queue_turns` | 3 jobs, one interactive, no restart | the queue implements `FifoServer`; every queued item gets its turn |
| `local_queue_reopened` | 2 jobs, 1 request | finding: a job deleted while it waits in the queue is launched |
| `remote_queue` | 2 jobs, 1 slot, 1 fault, 1 restart, 1 request | one row dropped at most per fault and restart, holds settled, implements `DurableQueue` (each row started once at most), every launch ends |
| `job_cache` | 2 processes, 2 status writes, each of which may fail | the cache holds terminal statuses unless an update did not read back what it wrote, is right while terminal statuses are final, and fresh again after its ttl |
| `job_record` | 2 writers, 2 fields, 3 updates, 1 failed read, 1 writer killed or broken off, both storages | undisturbed updates implement `AtomicRecord`; a record is empty, and an object torn or incomplete, only for the causes named |
| `status_worker` | 1 job, interactive or not, 8 provider types, thresholds and backoff of 2, 1 fault, 1 restart, 1 request, outages at any time | no hasty verdict, machines torn down before the status says so, every end noticed that the provider lets it notice |
| `quota_ledger` | 2 jobs of 0 or 1 minute, 2 ends, 1 change of limit, month, restart or mishap | overdraft explained by races and late costs, leaked holds explained, implements `Account` |
| `sweep` | 2 children, 1 fault, 1 request | never completed early, requests stand, sweeps end |
| `cloud_machines` | 2 jobs on each of 9 providers, 3 tries, 2 lookups, 3 faults, 3 stops | one machine each, orphans explained, shared things whole, stops for good |
| `azure_machine` | 1 launch, 2 stops, 2 tries, 2 images, 2 faults | taken down as far as it was tried, IPs freed in the end |
| `asset_versions` | 2 tasks, 3 operations of any kind, 2 groups, 2 names, 1 fault, both storages | one holder per tag, saves in folders of their own that enter their version, answered versions stay, names differ and stay |

**Bounds.** Two jobs give every race of two items for the flag, the slot and the quota rows; the third
is needed for an order among waiting items and for an interactive job between batch jobs. One restart
is enough because it resets everything in memory; one fault per run reaches each failure branch; two
user requests give stop-then-delete. The wait's error limit is the code's 3 in `local_queue` and 2 in
`local_queue_turns`, where only its being finite matters. Two processes give every race between a
fill and another process's write. Three updates give an update after a disturbed pair.
In `status_worker` the counters of a job and its verdict do not depend on other jobs, except through the
breaker, which more jobs only count down sooner; thresholds of 2 have a step below, at and after each
boundary. Of the ten provider types it takes those that differ with one job: Vast.ai is treated as RunPod is, and dstack
as SkyPilot but for what is kept of an earlier sight. The theorems are about all ten. In `quota_ledger` a job asks for, spends or is granted 0 or 1 minute, which with two jobs has every
order of the sums around the limit; -1 stands for clocks that differ. Two children in `sweep` give one that is
read early and one late. In `cloud_machines` two launches give every race over a shared thing, three tries one
after a retried one, and three faults a lost answer between a broken launch and a failed stop. Three operations on asset versions, two at a
time, give an update after a disturbed pair. Two groups give every
pair of names that could be the same. Two tries in `azure_machine` give one refused and one last try.
Jobs, tasks, groups and names are interchangeable where a configuration declares symmetry, and those runs
check safety only.

**Deadlock** is not checked: each system may stop, with all jobs done and no user active, and the bounds
stop the rest.

**Fairness.** `LocalQueue!FairSpec` assumes that a task that can run is run by the event loop, and that
`launch_cluster` comes back (its subprocess calls have timeouts). Nothing is assumed of users, the
poller, restarts or job processes: `EveryTurnComes` therefore has the premise that no job process stays
alive for ever. `RemoteQueue!FairSpec` assumes that the worker and each launch task make progress, that
is, that calls to providers return, and that `MaxFaults` bounds the faults; a task lost in a restart counts as ended.
`StatusWorker!FairSpec` assumes that the worker's loop goes on and its calls return; that the provider
answers is the premise of `EveryEndNoticed`, as an outage may last for ever. `JobCache!FairSpec` assumes that a coroutine that was started runs on and that the clock reaches every
ttl.

`Sweep!FairSpec` assumes that the worker's loop goes on: its errors are caught and it is started again with
the API; nothing is assumed of launcher, children or users. `AzureMachine!FairSpec` assumes that a thread
runs on, as each of its requests is answered or times out, and that Azure finishes the operations it has
begun. The other modules have safety properties only and no fairness.

**Escapes.** `SerialUnlessEscaped` names the five ways a turn ends while its process may run on: the
launch failed after `Popen`, the failure handler itself failed, the record was terminal, three checks
failed in a row, the API restarted.

## 4. What is proved

`LocalQueueProofs` holds six theorems about `Spec` of `LocalQueue`, for all values of the constants
that satisfy `LocalQueueAssumption` (subsets of `Jobs`, a positive error limit, natural bounds):

| theorem | property |
|---|---|
| `TypeCorrect` | `TypeOK` |
| `OneDrainer` | `SingleDrainer` |
| `NoneStranded` | `NobodyStranded` |
| `ChargedOnce` | `NotChargedTwice` |
| `BatchJobsSerial` | `SerialUnlessEscaped` |
| `QueueIsFifo` | `ServesInOrder`, that is `Fifo!FifoSpec` |

The inductive invariant is `QueueInv == TypeOK /\ Shape /\ Patience`. `TypeOK` alone is not inductive:
that `errors` stays within the limit needs `Patience`, that an item which may still be checked is below
it; and `Patience` needs `Shape` (one drainer, and the queue holds just the items in stage "queued"),
because the item a turn passes to must be one that was waiting. `Shape` is the conjunction of
`SingleDrainer` and `NobodyStranded`: neither is inductive without the other, since an arrival joins the
queue only when the flag is up, and the flag is up only while somebody will drain. The lemma `StepKinds`
says that for the queue every step is an arrival, an end of a turn, a restart, a move of one item within its turn, or none
of these, so that the proofs about the queue have five cases and not thirty.

`BatchJobsSerial` adds `AliveInHand`: a live batch process is in the hands of its turn or its turn ended
by an escape; with one drainer, two live processes then imply an escape. `ChargedOnce` is inductive with
`TypeOK`. For `QueueIsFifo` the mapping takes `queue` for the waiting line and the item in a turn for the
one served; `Shape` makes that item unique, and `FifoStep` maps each step to a step of `FifoServer` or to
a stutter.

`StatusWorkerProofs` holds three theorems about `Spec` of `StatusWorker`, from `StatusWorkerAssumption`
(positive thresholds, natural bounds, `NoVerdict` not a verdict):

| theorem | property |
|---|---|
| `TypeCorrect` | `TypeOK`, inductive as it stands |
| `MachinesTornDown` | `TornDownFirst` |
| `VerdictsNotHasty` | `NoHastyVerdict` |

`TornDownFirst` becomes inductive with `StoppedBeforeVerdict`, the same statement one step earlier, when the
verdict is reached and not yet written. `NoHastyVerdict` needs `CountInv`: the counter in a job's record is
at most the number of answers without the job, and the copy of every job still to be looked at agrees with
the record. The second half is what makes counting on a copy right: only the worker writes the counter,
and it looks at each copy once. It is lost with the first write of a counter that fails, hence the premise
`faults = 0`. For verdicts on an answer it needs `AnswerInv`: the command of a machine that is gone is over, and
a verdict that rests on an answer stays founded (`Founded`: the command is over, or it is one of the stops, or the
provider, for which the code takes less) until it is written.

`JobProofs` and `MachineProofs` have a type theorem for each of their modules (`TypeCorrect`, `CacheTypeCorrect`,
`AzureTypeCorrect`), which no run repeats, and these:

| theorem | property | the invariant it needs |
|---|---|---|
| `JobProofs!CachesRight` | `RightWhileFinal` | what a coroutine has read and not yet cached is right as well (`AllTrusted`); an update that was not undone finds a terminal status when it reads back (`AllOwn`) |
| `JobProofs!RecordWhole` | `StaysWhole` | the copies of updates that may still write are whole (`CopiesWhole`), and only a local file is ever empty under a writer (`OpenIfEmpty`) |
| `JobProofs!FieldsSet` | `SetsFields`, that is `Atomic!RecordSpec` | an undisturbed update is alone and its copy is what is stored (`Alone`) |
| `MachineProofs!AllTakenDown` | `TakenDown` | a launch has an image left as long as it tries (`ImageLeft`), and what each thread has behind it is deleted or refused (`TakenDownInv`) |
| `MachineProofs!OneMachine` | `OneMachineEach` | no machine before the first request, and the tries of each provider within its limit (`Births`, `Going`) |
| `MachineProofs!AllOrphansExplained` | `OrphansExplained` | the same; a step that fails a launch knows why (`LaunchFails`) |
| `MachineProofs!StopsFinal` | `StopsForGood` | a stop that was not early came after the launch (`LateStops`), and has found what it ends (`Found`) |
| `MachineProofs!AllSharedWhole` | `SharedWhole` | inductive with the types: a launch moves one shared thing at a time (`GroupStep`, `RoleStep`) |

The remaining four modules each hold the theorem `TypeCorrect` for the `TypeOK` of their module, and these:

| theorem | property |
|---|---|
| `RemoteQueueProofs!HoldsAreSettled` | `HoldsSettled` |
| `RemoteQueueProofs!NoneDropped` | `NothingDropped` |
| `RemoteQueueProofs!QueueIsDurable` | `KeepsPromise`, that is `Board!BoardSpec` |
| `SweepProofs!CompletedLate` | `NotCompletedEarly` |
| `SweepProofs!RequestsStand` | `RequestStands` |
| `QuotaLedgerProofs!OverdraftBounded` | `OverdraftExplained` |
| `QuotaLedgerProofs!LeaksNamed` | `LeaksExplained` |
| `QuotaLedgerProofs!AccountsKept` | `KeepsAccounts`, that is `Books!AccountSpec` |
| `AssetVersionsProofs!OneHolderEach` | `OneHolder` |
| `AssetVersionsProofs!SavesKeepApart` | `SavesApart` |
| `AssetVersionsProofs!AnsweredStay` | `AckedStay` |
| `AssetVersionsProofs!NamesApart` | `NamesDiffer` |
| `AssetVersionsProofs!NamesKept` | `NamesStay`, an action property |

**Remote queue.** The invariant is `QueueInv == TypeOK /\ Fresh /\ TableShape /\ BatchShape /\ Hands /\ HoldsSettled`.
A row is in one place: `BatchShape` says that what the worker has still to mark is PENDING, what it has marked and
not loaded is DISPATCHED, and nothing is in its batch twice; `Hands`, that a job has its task after the worker let
go of it, and a cluster after the task has launched one. `NoneDropped` adds `FewDropped`: the set of dropped rows
grows by one at most with a fault or a restart. Without them `PlaceOf`, the mapping to `DurableQueue`,
could take a started row back to "taken". `Fresh` (no trace of a job before its request) is what a request step
needs. That `Among`, the answer of the poll, has only rows asked for, each once, is an induction over the table.

**Sweep.** `SweepInv` adds to the types `OverEnded` (a child that is over, in its record or as the worker has read
it, has been over), `CompleteRight` (a COMPLETE that is stored, or is in any draft yet to be stored, is right) and
`DraftShape` (what each update makes of the status it read). The drafts are the reason why the property alone is
not inductive. `CountsAdd` gives the arithmetic: complete and failed children are counted apart, so that their
counts reach the number of all children only if each is over.

**Quota.** `LedgerInv == TypeOK /\ Shape /\ Calendar /\ Covered`. `Covered` relates a check in progress to the
rows that it does not see any more: what a reading launch believes to be unused, and what a checked one is about
to hold, exceeds `Slack` (limit less usage plus `debt`) by no more than `raced`, what others took from under
it. `Shape` says of each job that there is no hold before its launch, that a hold is settled with the first usage
row, which is the only one and not of a month to come (so that a new month starts with nothing used), and that
a leaked hold has its cause, the mishaps included; the refinement uses it to show that no step makes an entry of `Account` wrong.
`Calendar` bounds the months by the events.

**Asset versions.** `Registry` (types, operations and lists as they should be, in the files as in every copy) gives
`OneHolder`: a torn write loses a list and never mixes two. The others are invariants on top of it. `SavesInv`: but
for names whose folders were deleted (`emptied`), the label of each save that has left its reservation is a reserved
folder, two such saves of one name have different labels, and no group that a name claims has such a label in use;
hence neither the copy nor `create_version` collides. `AckInv`: in a group where no updates overlapped there is one writer, its copy holds the
answered labels, and while it has the local file open the file is corrupt. `NameInv`: what the one operation
that writes a name has seen of the groups still holds, as long as no group was named without a look for the name
(`unchecked`). `FreshInv`: on an object store a group without a name has one task at its index, unless it is
`crowded`; only a group without an index is given its default, and a description writes the default back only to a
group that still has it.

**Data.** Sums over jobs, `Among` and `Without` are recursive functions. What they return is proved: the
theorem that the naturals are well-founded gives `SetInduction`, which speaks of a set that has 0 and all
successors and not of a predicate, and from it follow the existence of the function and the lemmas the steps
cite (a sum with one job changed, a sublist without repetitions).

The assumptions are those of each module: positive limits, natural bounds, model values that are not data.
The bounds are arbitrary naturals in the theorems.

Only model-checked: liveness (`EveryTurnComes`, `EveryLaunchEnds`, `EventuallyFresh`, `EveryEndNoticed`,
`SweepEnds`, `IpsFreed`), as fairness and `ENABLED` are out of the prover's reach; and the run
`local_queue_reopened`, whose property is violated.

## 5. What the models show of the code

The run `local_queue_reopened` finds a disagreement between the code and its documentation: a job deleted, or
stopped and settled, while it waits in a launch queue is set back to LAUNCHING and launched
(`local_provider_queue.py:144`, likewise `remote_provider_queue.py:373`), while `job_status.py` says that
terminal states are not left.

Other behaviours are part of the models, and the premises of the properties name them:

* The local provider is not strictly serial (`local_provider_queue.py:278`): the escapes of
  `SerialUnlessEscaped`.
* `job_update_status` swallows a failed write (`job_service.py:758`), reads the record back and caches it for
  seven days without a look at its status (`job_service.py:785`): a process may serve RUNNING after the job has
  ended. The same happens when another writer comes between write and read. `undone` of `RightWhileFinal` names the
  processes with such an update. A deleted job may be served after its invalidation (`job_service.py:335`): that
  terminal statuses are final is a premise, and `EventuallyFresh` bounds all of it by the ttl.
* An exception or a cancellation between open and write closes the file with nothing in it: `AsyncFileWrapper`
  then puts an empty object in the place of the record (`storage.py:49`), which reads as `{}`; the next update wipes
  every other field. `cutShort` of `StaysWhole` names it, together with a writer killed over an open local file.
* Concurrent updates of different fields of a record lose one of them (`labresource.py:209`): `SetsFields`
  speaks of undisturbed updates, `clobbered` of `Sweep` counts the others.
* The backoff of a failing provider is counted in jobs and not in cycles (`remote_job_status_service.py:84`).
* RunPod, Vast.ai, Lambda, Azure, SkyPilot and dstack answer an outage as if the job were not there
  (`Hides`): an outage as long as the threshold settles a running job of RunPod, Vast.ai, SkyPilot or dstack,
  as COMPLETE where it has run (`skypilot.py:1350`).
* A machine lost without a report is never noticed on AWS, and on Azure, Nebius and Lambda only of a job that
  is to stop (`LossNoticed`). Of a job that is to stop, one absence is enough on RunPod, Vast.ai, Nebius, Lambda and
  Azure (`TakenAtOnce`), hidden outages included but for Azure.
* SLURM lists all jobs of its user, and the log files of a day as completed (`slurm.py:975`): a job that is not in
  the queue is settled at once by the ends of others, without the debounce, as COMPLETE if it did not stop; one that
  has ended waits while others run or while a state that the worker does not know is listed (`ListsOthers`).
* The quota of a finished job is not settled if the record cannot be read again (`job_service.py:765`), if it
  names no user or team or the user is gone (`:640`, `:698`), or after a database error (`:719`): `Follows` and
  `GivesUp`, part of `lost`.
* Children of a sweep and resumed jobs bypass the quota check but are charged: part of `debt`.
* A stopped sweep keeps the status STOPPING; only RUNNING parents are looked at again.
* Deleting a group of versions reports success and deletes nothing, as `storage.rm` does not take the second
  argument it is given and the TypeError is swallowed (`asset_version_service.py:578`): `Drops`.
* On an object store a directory reserves nothing: `SavesApart` speaks of local workspaces.
* Deleting a dataset or a model removes the folders of its versions and not their list (`routers/data.py:704`): the
  next save answers started and is then refused its label, and two saves may share a folder (`emptied`).
* A version created with a group id looks for no other group of the name it gives (`asset_version_service.py:245`):
  `unchecked` of `NamesDiffer`. A new description writes back the name it has read (`:349`), and two first requests
  with one group id, or a description beside the first one, can put the default name over a given one: `crowded` of
  `NamesStay`.
* RunPod, Vast.ai and Lambda take a failed listing for an empty one, and SLURM's stop answers that it stopped
  and does nothing (`slurm.py:363`): `blind` in `StopsForGood`.
* SkyPilot's provider sends a request again after any error of its client but a lost connection
  (`skypilot.py:200`), and a job may run twice: the exception in `OneMachineEach`.
* An error of `sbatch`, or one that SkyPilot's server answers, counts as a launch (`Unheeded`); the worker then
  finds no such job and fails it at its threshold.

## 6. Plan

Done: `LocalQueue`, `FifoServer`; `RemoteQueue`, `DurableQueue`; `JobCache`;
`JobRecord`, `AtomicRecord`; `StatusWorker`; `QuotaLedger`, `Account`; `Sweep`; `CloudMachines`;
`AzureMachine`; `AssetVersions`.

Proved: every invariant, action property and refinement that the passing runs check (section 4).

Left, in this order:

1. The end of a launcher of sweeps that dies before the parent has learned its children
   (`launch_sweep.py:495`): `Sweep` has the death, and no property speaks of the children that nobody counts.
2. Notifications sent again after a crash or a lost mark (`notification_service.py:243`), with the record of
   `JobRecord` below them.
3. Chunked uploads and teams, if their steps come to overlap: each is one client or one transaction today.

## 7. Not modelled

* Notifications: a sequential scan; its one hazard, a crash between the POST and the mark, is one step.
* Process registry: its kills are steps of `LocalQueue` (`ProcessKilled`, at shutdown followed by `Restart`);
  reuse of a pid belongs to the operating system and the code does not guard against it.
* `jobs.json` and its lock in `lab-sdk/src/lab/experiment.py`: nothing calls that code any more.
* Uploads: staging directories with one client each; the check for an existing target before the copy is the
  pattern of `Reserves` and `Copies` in `AssetVersions`.
* Of the providers: logs, price lists and the parsing of their outputs, and `submit_job` and `cancel_job` of the
  schedulers, single requests that no job of a launch queue makes.
* Of sweeps: an update of the parent whose read fails and wipes the record, the case of `ReadFails` in `JobRecord`.
* Of asset versions: other tags than the default, versions created without one, and explicit labels in requests
  (`into` and `create` are numbered by the code, `save` and `register` bring theirs).
* Worker election (one `flock`), teams, users, permissions, experiments, galleries, migrations, command line
  client and interface: request checks over rows and files, sequential scripts, presentation.
