------------------------------ MODULE RemoteQueue ------------------------------
(***************************************************************************)
(* Launches on remote providers: the request that submits a job            *)
(* (launch_template.py), the job_queue table, the worker that dispatches   *)
(* its rows, the launch tasks under their semaphore                        *)
(* (remote_provider_queue.py), and what goes on around them: the status    *)
(* poller's verdicts, the job that starts to run, users, and restarts.     *)
(*                                                                         *)
(* Grain.  An action is the code between two awaits whose order matters.   *)
(* How the poller reaches a verdict is not modelled here: any verdict may  *)
(* be written at any time after the poller copied the job.                 *)
(***************************************************************************)
EXTENDS Naturals, Sequences, FiniteSets

CONSTANTS Jobs,           \* remote jobs, one launch request each
          Interactive,    \* those of subtype "interactive"
          MaxConcurrent,  \* _MAX_CONCURRENT_REMOTE_LAUNCHES
          MaxFaults,      \* bound: failing reads and database calls
          MaxRestarts,    \* bound: restarts of the API process
          MaxRequests     \* bound: stop and delete requests of users

ASSUME RemoteQueueAssumption ==
    /\ Interactive \subseteq Jobs
    /\ MaxConcurrent \in Nat \ {0}
    /\ MaxFaults \in Nat /\ MaxRestarts \in Nat /\ MaxRequests \in Nat

VARIABLES
    request,   \* where the launch request of a job is
    table,     \* job_queue rows, oldest first
    row,       \* status of a job's row
    worker,    \* what the worker does next: "poll", "mark" or "load"
    batch,     \* pending_entries still to dispatch
    task,      \* the job's _process_launch_item task
    status,    \* index.json status
    cluster,   \* the provider's cluster for the job
    launches,  \* history: clusters launched for the job
    hold,      \* status of the job's QuotaHold row
    usage,     \* does the job have a QuotaUsage row
    poll,      \* does the poller have a verdict on a copy of the job
    faults, restarts, requests

tableVars == <<request, table, row>>
workerVars == <<worker, batch>>
clusterVars == <<cluster, launches>>
quotaVars == <<hold, usage>>
boundVars == <<faults, restarts, requests>>
vars == <<tableVars, workerVars, task, status, clusterVars, quotaVars, poll, boundVars>>

Status == {"NONE", "LAUNCHING", "INTERACTIVE", "RUNNING", "STOPPING",
           "STOPPED", "COMPLETE", "FAILED", "DELETED"}
TerminalStatuses == {"STOPPED", "COMPLETE", "FAILED", "DELETED"}
PolledStatuses == {"LAUNCHING", "RUNNING", "STOPPING", "INTERACTIVE"}
Holding == {"preparing", "launching", "launched"}
Ended == {"done", "failed", "crashed", "lost"}

(* The status of a job that launch_template_on_provider creates.  Mutant  *)
(* WaitingStatus takes a remote job for a local one.                      *)
WaitingStatus(j) == "WAITING"
InitialStatus(j) == IF j \in Interactive THEN "INTERACTIVE" ELSE "LAUNCHING"

RequestType == request \in [Jobs -> {"new", "created", "enqueued", "rejected"}]
TableType == table \in Seq(Jobs) /\ row \in [Jobs -> {"none", "PENDING", "DISPATCHED", "FAILED"}]
WorkerType == worker \in {"poll", "mark", "load"} /\ batch \in Seq(Jobs)
TaskType == task \in [Jobs -> {"none", "waiting"} \cup Holding \cup Ended]
StatusType == status \in [Jobs -> Status]
ClusterType == cluster \in [Jobs -> {"none", "up", "gone"}] /\ launches \in [Jobs -> Nat]
QuotaType == hold \in [Jobs -> {"none", "HELD", "RELEASED", "CONVERTED"}] /\ usage \in [Jobs -> BOOLEAN]
PollType == poll \in [Jobs -> {"idle"} \cup TerminalStatuses]
BoundType == faults \in 0 .. MaxFaults /\ restarts \in 0 .. MaxRestarts /\ requests \in 0 .. MaxRequests

TypeOK == /\ RequestType /\ TableType /\ WorkerType /\ TaskType /\ StatusType
          /\ ClusterType /\ QuotaType /\ PollType /\ BoundType

Init ==
    /\ request = [j \in Jobs |-> "new"]
    /\ table = <<>>
    /\ row = [j \in Jobs |-> "none"]
    /\ worker = "poll"
    /\ batch = <<>>
    /\ task = [j \in Jobs |-> "none"]
    /\ status = [j \in Jobs |-> "NONE"]
    /\ cluster = [j \in Jobs |-> "none"]
    /\ launches = [j \in Jobs |-> 0]
    /\ hold = [j \in Jobs |-> "none"]
    /\ usage = [j \in Jobs |-> FALSE]
    /\ poll = [j \in Jobs |-> "idle"]
    /\ faults = 0
    /\ restarts = 0
    /\ requests = 0
-------------------------------------------------------------------------------
(* The launch request.                                                    *)

(* The job exists with its first status, its hold is committed. *)
CreateJob(j) ==
    /\ request[j] = "new"
    /\ request' = [request EXCEPT ![j] = "created"]
    /\ status' = [status EXCEPT ![j] = InitialStatus(j)]
    /\ hold' = [hold EXCEPT ![j] = "HELD"]
    /\ UNCHANGED <<table, row, workerVars, task, clusterVars, usage, poll, boundVars>>

(* HTTP 400, no run command: job and hold stay as they are. *)
Reject(j) ==
    /\ request[j] = "created"
    /\ request' = [request EXCEPT ![j] = "rejected"]
    /\ UNCHANGED <<table, row, workerVars, task, status, clusterVars, quotaVars, poll, boundVars>>

EnqueueRemote(j) ==
    /\ request[j] = "created"
    /\ request' = [request EXCEPT ![j] = "enqueued"]
    /\ table' = Append(table, j)
    /\ row' = [row EXCEPT ![j] = "PENDING"]
    /\ UNCHANGED <<workerVars, task, status, clusterVars, quotaVars, poll, boundVars>>
-------------------------------------------------------------------------------
(* The worker: one cycle polls the table, then marks and loads each row.  *)

(* Rows the worker selects.  Mutant AnyRow forgets the status. *)
AnyRow(j) == row[j] # "none"
Selected(j) == row[j] = "PENDING"

Current == Head(batch)
NextEntry ==
    /\ batch' = Tail(batch)
    /\ worker' = IF Tail(batch) = <<>> THEN "poll" ELSE "mark"

(* The except clause of the cycle: what is left of the batch is dropped,  *)
(* rows still PENDING will be selected again.                             *)
CycleFails ==
    /\ faults < MaxFaults
    /\ faults' = faults + 1
    /\ worker' = "poll"
    /\ batch' = <<>>

(* What the query answers: the rows in K, oldest first. *)
Among(rows, K) ==
    LET among[i \in 0 .. Len(rows)] ==
            IF i = 0 THEN <<>>
            ELSE IF rows[i] \in K THEN Append(among[i - 1], rows[i]) ELSE among[i - 1]
    IN among[Len(rows)]

PollTable ==
    /\ worker = "poll"
    /\ batch' = Among(table, {j \in Jobs : Selected(j)})
    /\ batch' # <<>>
    /\ worker' = "mark"
    /\ UNCHANGED <<tableVars, task, status, clusterVars, quotaVars, poll, boundVars>>

(* Mutant MarkedBatch marks the whole batch. *)
MarkedBatch == [j \in Jobs |-> IF \E i \in DOMAIN batch : batch[i] = j THEN "DISPATCHED" ELSE row[j]]
Marked == [row EXCEPT ![Current] = "DISPATCHED"]

MarkDispatched ==
    /\ worker = "mark"
    /\ row' = Marked
    /\ worker' = "load"
    /\ UNCHANGED <<request, table, batch, task, status, clusterVars, quotaVars, poll, boundVars>>

(* Any database call of the cycle raised; in particular after the mark,   *)
(* when a row that is DISPATCHED should have become FAILED.               *)
DatabaseFails ==
    /\ worker \in {"mark", "load"}
    /\ CycleFails
    /\ UNCHANGED <<tableVars, task, status, clusterVars, quotaVars, poll, restarts, requests>>

(* job_get found nothing, for instance because it read index.json while a *)
(* writer had it truncated: the row is FAILED, the job is left alone.     *)
JobNotFound ==
    /\ worker = "load"
    /\ faults < MaxFaults
    /\ faults' = faults + 1
    /\ row' = [row EXCEPT ![Current] = "FAILED"]
    /\ NextEntry
    /\ UNCHANGED <<request, table, task, status, clusterVars, quotaVars, poll, restarts, requests>>

(* Usage recorded and the hold converted if still HELD, or all rolled     *)
(* back because the job has its usage row already.                        *)
Converted(j) == [hold EXCEPT ![j] = IF ~usage[j] /\ @ = "HELD" THEN "CONVERTED" ELSE @]

(* The record lacks what _reconstruct_work_item needs. *)
JobIncomplete ==
    /\ worker = "load"
    /\ faults < MaxFaults
    /\ faults' = faults + 1
    /\ row' = [row EXCEPT ![Current] = "FAILED"]
    /\ status' = [status EXCEPT ![Current] = "FAILED"]
    /\ usage' = [usage EXCEPT ![Current] = TRUE]
    /\ hold' = Converted(Current)
    /\ NextEntry
    /\ UNCHANGED <<request, table, task, clusterVars, poll, restarts, requests>>

Dispatch ==
    /\ worker = "load"
    /\ task' = [task EXCEPT ![Current] = "waiting"]
    /\ NextEntry
    /\ UNCHANGED <<tableVars, status, clusterVars, quotaVars, poll, boundVars>>
-------------------------------------------------------------------------------
(* The launch tasks.                                                      *)

(* Who holds the semaphore.  Mutant NeverReleased: a task that ends badly *)
(* keeps its slot.                                                        *)
NeverReleased == {k \in Jobs : task[k] \in Holding \cup {"failed", "crashed"}}
Launching == {k \in Jobs : task[k] \in Holding}

AcquireSlot(j) ==
    /\ task[j] = "waiting"
    /\ Cardinality(Launching) < MaxConcurrent
    /\ task' = [task EXCEPT ![j] = "preparing"]
    /\ UNCHANGED <<tableVars, workerVars, status, clusterVars, quotaVars, poll, boundVars>>

(* Usage recorded, then the hold released by id whatever its state. *)
ProviderMissing(j) ==
    /\ task[j] = "preparing"
    /\ task' = [task EXCEPT ![j] = "failed"]
    /\ status' = [status EXCEPT ![j] = "FAILED"]
    /\ usage' = [usage EXCEPT ![j] = TRUE]
    /\ hold' = [hold EXCEPT ![j] = "RELEASED"]
    /\ UNCHANGED <<tableVars, workerVars, clusterVars, poll, boundVars>>

(* get_provider_instance raised, or the failure branch of the launch did: *)
(* the task dies, nothing is written.                                     *)
TaskCrashes(j) ==
    /\ task[j] \in Holding
    /\ faults < MaxFaults
    /\ faults' = faults + 1
    /\ task' = [task EXCEPT ![j] = "crashed"]
    /\ UNCHANGED <<tableVars, workerVars, status, clusterVars, quotaVars, poll, restarts, requests>>

StartLaunch(j) ==
    /\ task[j] = "preparing"
    /\ task' = [task EXCEPT ![j] = "launching"]
    /\ UNCHANGED <<tableVars, workerVars, status, clusterVars, quotaVars, poll, boundVars>>

ClusterComesUp(j) ==
    /\ task[j] = "launching"
    /\ task' = [task EXCEPT ![j] = "launched"]
    /\ cluster' = [cluster EXCEPT ![j] = "up"]
    /\ launches' = [launches EXCEPT ![j] = @ + 1]
    /\ UNCHANGED <<tableVars, workerVars, status, quotaVars, poll, boundVars>>

(* The release is flushed in the session that then records the usage: if  *)
(* the usage row exists the rollback undoes the release too.              *)
(* Mutant ReleaseRolledBack loses the release in every case.              *)
ReleaseRolledBack(j) == hold
Released(j) == [hold EXCEPT ![j] = IF usage[j] THEN @ ELSE "RELEASED"]

(* The health check or launch_cluster raised, or the provider answered    *)
(* with an error, possibly after the cluster came up.                     *)
LaunchFails(j) ==
    /\ task[j] \in Holding
    /\ task' = [task EXCEPT ![j] = "failed"]
    /\ status' = [status EXCEPT ![j] = "FAILED"]
    /\ usage' = [usage EXCEPT ![j] = TRUE]
    /\ hold' = Released(j)
    /\ UNCHANGED <<tableVars, workerVars, clusterVars, poll, boundVars>>

(* The status becomes LAUNCHING or INTERACTIVE whatever it is by now. *)
ReportLaunched(j) ==
    /\ task[j] = "launched"
    /\ task' = [task EXCEPT ![j] = "done"]
    /\ status' = [status EXCEPT ![j] = InitialStatus(j)]
    /\ UNCHANGED <<tableVars, workerVars, clusterVars, quotaVars, poll, boundVars>>
-------------------------------------------------------------------------------
(* Around them.                                                           *)

(* The trap on the cluster reports RUNNING. *)
JobRuns(j) ==
    /\ cluster[j] = "up"
    /\ status' = [status EXCEPT ![j] = IF @ = "INTERACTIVE" THEN @ ELSE "RUNNING"]
    /\ UNCHANGED <<tableVars, workerVars, task, clusterVars, quotaVars, poll, boundVars>>

(* The poller, for a job it found in a status it polls, reached verdict v *)
(* (interactive jobs are never COMPLETE), and writes it later.            *)
PollDecides(j, v) ==
    /\ poll[j] = "idle"
    /\ status[j] \in PolledStatuses
    /\ v = "STOPPED" => status[j] = "STOPPING"
    /\ v = "COMPLETE" => j \notin Interactive
    /\ poll' = [poll EXCEPT ![j] = v]
    /\ UNCHANGED <<tableVars, workerVars, task, status, clusterVars, quotaVars, boundVars>>

PollWrites(j) ==
    /\ poll[j] # "idle"
    /\ poll' = [poll EXCEPT ![j] = "idle"]
    /\ status' = [status EXCEPT ![j] = poll[j]]
    /\ usage' = [usage EXCEPT ![j] = TRUE]
    /\ hold' = Converted(j)
    /\ UNCHANGED <<tableVars, workerVars, task, clusterVars, boundVars>>

(* stop_cluster, then job_stop; a launch still to come is not told. *)
UserStops(j) ==
    /\ request[j] # "new"
    /\ requests < MaxRequests
    /\ requests' = requests + 1
    /\ status' = [status EXCEPT ![j] = "STOPPING"]
    /\ cluster' = [cluster EXCEPT ![j] = IF @ = "up" THEN "gone" ELSE @]
    /\ UNCHANGED <<tableVars, workerVars, task, launches, quotaVars, poll, faults, restarts>>

UserDeletes(j) ==
    /\ request[j] # "new"
    /\ requests < MaxRequests
    /\ requests' = requests + 1
    /\ status' = [status EXCEPT ![j] = "DELETED"]
    /\ UNCHANGED <<tableVars, workerVars, task, clusterVars, quotaVars, poll, faults, restarts>>

(* The API restarts: requests, tasks and copies are gone, the tables and  *)
(* the clusters are not.                                                  *)
Restart ==
    /\ restarts < MaxRestarts
    /\ restarts' = restarts + 1
    /\ worker' = "poll"
    /\ batch' = <<>>
    /\ task' = [j \in Jobs |-> IF task[j] \in {"waiting"} \cup Holding THEN "lost" ELSE task[j]]
    /\ request' = [j \in Jobs |-> IF request[j] = "created" THEN "rejected" ELSE request[j]]
    /\ poll' = [j \in Jobs |-> "idle"]
    /\ UNCHANGED <<table, row, status, clusterVars, quotaVars, faults, requests>>
-------------------------------------------------------------------------------
Worker == PollTable \/ MarkDispatched \/ DatabaseFails \/ JobNotFound \/ JobIncomplete \/ Dispatch
Task(j) == \/ AcquireSlot(j) \/ ProviderMissing(j) \/ TaskCrashes(j) \/ StartLaunch(j)
           \/ ClusterComesUp(j) \/ LaunchFails(j) \/ ReportLaunched(j)
Around(j) == \/ JobRuns(j) \/ PollWrites(j) \/ UserStops(j) \/ UserDeletes(j)
             \/ \E v \in {"STOPPED", "COMPLETE", "FAILED"} : PollDecides(j, v)

Next ==
    \/ \E j \in Jobs : CreateJob(j) \/ Reject(j) \/ EnqueueRemote(j) \/ Task(j) \/ Around(j)
    \/ Worker
    \/ Restart

Spec == Init /\ [][Next]_vars

(* The event loop runs the worker and the tasks that can run, and every   *)
(* call to a provider comes back.  Nothing is assumed of users, of the    *)
(* poller, of the clusters or of restarts.                                *)
FairSpec == Spec /\ WF_vars(Worker) /\ \A j \in Jobs : WF_vars(Task(j))
-------------------------------------------------------------------------------
(* Properties.                                                            *)

(* A row that was marked is in the worker's hands or has become a launch  *)
(* task, but for one row at most per failing call and per restart: what   *)
(* else the batch of an aborted cycle held is found again.                *)
Dropped ==
    {j \in Jobs : /\ row[j] \in {"DISPATCHED", "FAILED"} /\ task[j] = "none"
                  /\ ~(worker = "load" /\ batch # <<>> /\ j = Current)}
NothingDropped == Cardinality(Dropped) <= faults + restarts

(* A launch that failed, or a job whose usage is recorded, leaves no       *)
(* minutes held, whether the task or the poller settled it first.         *)
HoldsSettled == \A j \in Jobs : task[j] = "failed" \/ usage[j] => hold[j] # "HELD"

(* The worker and the tasks implement a durable queue that starts each    *)
(* item at most once.                                                     *)
InHand(j) == worker = "load" /\ batch # <<>> /\ j = Current
PlaceOf(j) ==
    CASE row[j] = "none" -> "absent"
      [] row[j] = "PENDING" -> "posted"
      [] launches[j] > 0 -> "started"
      [] row[j] \in {"DISPATCHED", "FAILED"} /\ launches[j] = 0
         /\ (InHand(j) \/ task[j] \in {"waiting", "preparing", "launching"}) -> "taken"
      [] OTHER -> "dropped"
Board == INSTANCE DurableQueue WITH Item <- Jobs, board <- [j \in Jobs |-> PlaceOf(j)]
KeepsPromise == Board!BoardSpec

(* Every row in the table is taken up, and its launch task comes to an    *)
(* end, unless a fault or a restart drops it.                             *)
EveryLaunchEnds == \A j \in Jobs : row[j] = "PENDING" ~> (task[j] \in Ended \/ PlaceOf(j) = "dropped")
===============================================================================
