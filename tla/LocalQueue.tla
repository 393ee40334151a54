------------------------------ MODULE LocalQueue ------------------------------
(***************************************************************************)
(* The local provider's launch queue (services/local_provider_queue.py) in *)
(* its environment: the job's process with its tfl-remote-trap wrapper and *)
(* SDK, the status poller, the user's stop and delete requests, and        *)
(* restarts of the API process, which lose the in-memory queue.            *)
(*                                                                         *)
(* Grain.  The coroutines of one event loop interleave at awaits, so an    *)
(* action is the code between two awaits whose order against other writers *)
(* matters.  Writes of a job's record are atomic here; module JobRecord    *)
(* takes them apart.                                                       *)
(***************************************************************************)
EXTENDS Naturals, Sequences

CONSTANTS Jobs,         \* local jobs, one launch item each
          Interactive,  \* those of subtype "interactive"
          Instrumented, \* those whose command uses the SDK (lab.init, lab.finish, lab.error)
          Polled,       \* bound: jobs the status poller gets round to
          NoJob,        \* no job at all
          ErrorLimit,   \* consecutive failed checks before the wait gives up (3)
          MaxRestarts,  \* bound: restarts of the API process
          MaxRequests   \* bound: stop and delete requests of users

ASSUME LocalQueueAssumption ==
    /\ Interactive \subseteq Jobs /\ Instrumented \subseteq Jobs /\ Polled \subseteq Jobs
    /\ NoJob \notin Jobs
    /\ ErrorLimit \in Nat \ {0}
    /\ MaxRestarts \in Nat
    /\ MaxRequests \in Nat

VARIABLES
    queue,       \* _local_launch_queue
    processing,  \* _processing
    stage,       \* where a job's launch item is
    errors,      \* consecutive_errors of the wait loop
    released,    \* history: how the item's turn ended
    status,      \* index.json status of a job
    live,        \* job_data.live_status
    proc,        \* the process launch_cluster spawned
    pidFile,     \* has launch_cluster written <job_dir>/pid
    hold,        \* status of the job's QuotaHold row
    usage,       \* does the job have a QuotaUsage row
    poll,        \* what the status poller is doing with its copy of a job
    restarts,    \* restarts so far
    requests     \* user requests so far

queueVars == <<queue, processing, stage, errors, released>>
recordVars == <<status, live>>
procVars == <<proc, pidFile>>
quotaVars == <<hold, usage>>
boundVars == <<restarts, requests>>
vars == <<queueVars, recordVars, procVars, quotaVars, poll, boundVars>>

Status == {"WAITING", "LAUNCHING", "INTERACTIVE", "RUNNING", "STOPPING",
           "STOPPED", "COMPLETE", "FAILED", "DELETED"}
TerminalStatuses == {"STOPPED", "COMPLETE", "FAILED", "DELETED"}
PolledStatuses == {"LAUNCHING", "RUNNING", "STOPPING", "INTERACTIVE"}

(* Stages in which the item is in the hands of a _run_and_drain task. *)
Preparing == {"picked", "starting", "launching", "spawned"}
Turn == Preparing \cup {"waiting", "draining"}
Stage == Turn \cup {"submitted", "queued", "done", "lost"}

(* Why a turn ended: the item failed, its failure could not be recorded,  *)
(* it is interactive, its record is terminal, its process exited, its     *)
(* checks kept failing, or the API restarted.                             *)
Reason == {"no", "failed", "error", "interactive", "terminal", "exited", "gaveUp", "lost"}

(* Test of enqueue_local_launch: is somebody's turn under way?            *)
(* Mutant BusyIfBacklog asks the queue instead of the flag.               *)
BusyIfBacklog == queue # <<>>
Busy == processing

(* Test of _run_and_drain before it lowers the flag.                      *)
(* Mutant NearlyDrained is off by one.                                    *)
NearlyDrained == Len(queue) < 2
Drained == queue = <<>>

(* queue.get_nowait().  Mutant NewestItem serves the last arrival first.  *)
NewestItem == [item |-> queue[Len(queue)], rest |-> SubSeq(queue, 1, Len(queue) - 1)]
NextItem == [item |-> Head(queue), rest |-> Tail(queue)]

Alive(j) == proc[j] \in {"spawned", "running"}

(* get_cluster_status says DOWN.  Mutants: any pid file counts as an      *)
(* exit; an exit is never noticed (zombies taken for running).            *)
ExitedIfPid(j) == pidFile[j]
NeverExited(j) == FALSE
Exited(j) == pidFile[j] /\ ~Alive(j)

InitialStatus(j) == IF j \in Interactive THEN "INTERACTIVE" ELSE "LAUNCHING"

Idle == [at |-> "idle", val |-> "none"]
PollStates == {Idle} \cup [at : {"check", "write"}, val : Status]

QueueType ==
    /\ queue \in Seq(Jobs)
    /\ processing \in BOOLEAN
    /\ stage \in [Jobs -> Stage]
    /\ errors \in [Jobs -> 0 .. ErrorLimit]
    /\ released \in [Jobs -> Reason]
RecordType == status \in [Jobs -> Status] /\ live \in [Jobs -> {"none", "finished", "crashed"}]
ProcType == proc \in [Jobs -> {"none", "spawned", "running", "exited"}] /\ pidFile \in [Jobs -> BOOLEAN]
QuotaType == hold \in [Jobs -> {"HELD", "RELEASED", "CONVERTED"}] /\ usage \in [Jobs -> BOOLEAN]
PollType == poll \in [Jobs -> PollStates]
BoundType == restarts \in 0 .. MaxRestarts /\ requests \in 0 .. MaxRequests

TypeOK == QueueType /\ RecordType /\ ProcType /\ QuotaType /\ PollType /\ BoundType

(* Jobs as launch_template_on_provider leaves them before it enqueues:    *)
(* status WAITING, the quota hold committed.                              *)
Init ==
    /\ queue = <<>>
    /\ processing = FALSE
    /\ stage = [j \in Jobs |-> "submitted"]
    /\ errors = [j \in Jobs |-> 0]
    /\ released = [j \in Jobs |-> "no"]
    /\ status = [j \in Jobs |-> "WAITING"]
    /\ live = [j \in Jobs |-> "none"]
    /\ proc = [j \in Jobs |-> "none"]
    /\ pidFile = [j \in Jobs |-> FALSE]
    /\ hold = [j \in Jobs |-> "HELD"]
    /\ usage = [j \in Jobs |-> FALSE]
    /\ poll = [j \in Jobs |-> Idle]
    /\ restarts = 0
    /\ requests = 0
-------------------------------------------------------------------------------
(* The queue and its drainer.                                             *)

(* Nothing awaits inside the dispatch lock of enqueue_local_launch: the   *)
(* test of _processing and its consequence are one step.                  *)
EnqueueBuffered(j) ==
    /\ stage[j] = "submitted"
    /\ Busy
    /\ queue' = Append(queue, j)
    /\ stage' = [stage EXCEPT ![j] = "queued"]
    /\ UNCHANGED <<processing, errors, released, recordVars, procVars, quotaVars, poll, boundVars>>

EnqueueDirect(j) ==
    /\ stage[j] = "submitted"
    /\ ~Busy
    /\ processing' = TRUE
    /\ stage' = [stage EXCEPT ![j] = "picked"]
    /\ UNCHANGED <<queue, errors, released, recordVars, procVars, quotaVars, poll, boundVars>>

(* The item's turn is over for reason why; the drainer looks for another. *)
EndTurn(j, why) ==
    /\ stage' = [stage EXCEPT ![j] = "draining"]
    /\ released' = [released EXCEPT ![j] = why]

(* _record_quota_usage_internal for a job with a start_time: one usage    *)
(* row, the hold converted if still HELD, all rolled back when the unique *)
(* index already has the job.                                             *)
(* Mutant NotConverted leaves the hold counted beside the usage.          *)
NotConverted(j) == hold
Converted(j) == [hold EXCEPT ![j] = IF ~usage[j] /\ @ = "HELD" THEN "CONVERTED" ELSE @]

(* Every failure branch marks the job FAILED, which records its usage,    *)
(* and releases its hold by id, whatever the state of the hold.           *)
FailJob(j) ==
    /\ status' = [status EXCEPT ![j] = "FAILED"]
    /\ usage' = [usage EXCEPT ![j] = TRUE]
    /\ hold' = [hold EXCEPT ![j] = "RELEASED"]
    /\ EndTurn(j, "failed")
    /\ UNCHANGED <<queue, processing, errors, live, procVars, poll, boundVars>>

ProviderMissing(j) == stage[j] = "picked" /\ FailJob(j)

(* launch_cluster, or anything around it, raised.  In stage "spawned" the *)
(* process is already running: writing the pid file or registering failed.*)
LaunchFails(j) == stage[j] \in Preparing /\ FailJob(j)

(* The failure branch itself raised (the database is away): the exception *)
(* is swallowed by _run_and_drain with nothing written.                   *)
HandlerFails(j) ==
    /\ stage[j] \in Preparing
    /\ EndTurn(j, "error")
    /\ UNCHANGED <<queue, processing, errors, recordVars, procVars, quotaVars, poll, boundVars>>

(* WAITING -> LAUNCHING or INTERACTIVE, whatever the status is by now. *)
SetInitialStatus(j) ==
    /\ stage[j] = "picked"
    /\ stage' = [stage EXCEPT ![j] = "starting"]
    /\ status' = [status EXCEPT ![j] = InitialStatus(j)]
    /\ UNCHANGED <<queue, processing, errors, released, live, procVars, quotaVars, poll, boundVars>>

(* async with _worker_lock: launch_cluster runs in the executor. *)
StartLaunch(j) ==
    /\ stage[j] = "starting"
    /\ \A k \in Jobs : stage[k] \notin {"launching", "spawned"}
    /\ stage' = [stage EXCEPT ![j] = "launching"]
    /\ UNCHANGED <<queue, processing, errors, released, recordVars, procVars, quotaVars, poll, boundVars>>

(* subprocess.Popen; the pid file does not exist yet. *)
Spawn(j) ==
    /\ stage[j] = "launching"
    /\ stage' = [stage EXCEPT ![j] = "spawned"]
    /\ proc' = [proc EXCEPT ![j] = "spawned"]
    /\ UNCHANGED <<queue, processing, errors, released, recordVars, pidFile, quotaVars, poll, boundVars>>

(* The pid is written and registered and launch_cluster returns: a batch  *)
(* job is waited for, an interactive one gives up its turn.               *)
LaunchReturns(j) ==
    /\ stage[j] = "spawned"
    /\ pidFile' = [pidFile EXCEPT ![j] = TRUE]
    /\ IF j \in Interactive
       THEN EndTurn(j, "interactive")
       ELSE stage' = [stage EXCEPT ![j] = "waiting"] /\ UNCHANGED released
    /\ UNCHANGED <<queue, processing, errors, recordVars, proc, quotaVars, poll, boundVars>>

WaitSeesTerminal(j) ==
    /\ stage[j] = "waiting"
    /\ status[j] \in TerminalStatuses
    /\ EndTurn(j, "terminal")
    /\ UNCHANGED <<queue, processing, errors, recordVars, procVars, quotaVars, poll, boundVars>>

WaitSeesExit(j) ==
    /\ stage[j] = "waiting"
    /\ Exited(j)
    /\ EndTurn(j, "exited")
    /\ UNCHANGED <<queue, processing, errors, recordVars, procVars, quotaVars, poll, boundVars>>

WaitSeesAlive(j) ==
    /\ stage[j] = "waiting"
    /\ ~Exited(j)
    /\ errors' = [errors EXCEPT ![j] = 0]
    /\ UNCHANGED <<queue, processing, stage, released, recordVars, procVars, quotaVars, poll, boundVars>>

(* consecutive_errors >= 3.  Mutant GivesUpLate is off by one. *)
GivesUpLate(j) == errors[j] + 1 > ErrorLimit
GivesUp(j) == errors[j] + 1 >= ErrorLimit

WaitCheckFails(j) ==
    /\ stage[j] = "waiting"
    /\ errors' = [errors EXCEPT ![j] = @ + 1]
    /\ IF GivesUp(j)
       THEN EndTurn(j, "gaveUp")
       ELSE UNCHANGED <<stage, released>>
    /\ UNCHANGED <<queue, processing, recordVars, procVars, quotaVars, poll, boundVars>>

(* End of an iteration of _run_and_drain, under the dispatch lock. *)
DrainNext(j) ==
    /\ stage[j] = "draining"
    /\ ~Drained
    /\ queue' = NextItem.rest
    /\ stage' = [stage EXCEPT ![j] = "done", ![NextItem.item] = "picked"]
    /\ UNCHANGED <<processing, errors, released, recordVars, procVars, quotaVars, poll, boundVars>>

DrainEmpty(j) ==
    /\ stage[j] = "draining"
    /\ Drained
    /\ processing' = FALSE
    /\ stage' = [stage EXCEPT ![j] = "done"]
    /\ UNCHANGED <<queue, errors, released, recordVars, procVars, quotaVars, poll, boundVars>>

(* The API process dies or is restarted.  The queue, the drainer and the  *)
(* poller's copies are gone; job processes run in sessions of their own.  *)
Restart ==
    /\ restarts < MaxRestarts
    /\ restarts' = restarts + 1
    /\ queue' = <<>>
    /\ processing' = FALSE
    /\ stage' = [j \in Jobs |-> IF stage[j] \in Turn \cup {"queued"} THEN "lost" ELSE stage[j]]
    /\ released' = [j \in Jobs |-> IF stage[j] \in Turn \cup {"queued"} THEN "lost" ELSE released[j]]
    /\ poll' = [j \in Jobs |-> Idle]
    /\ UNCHANGED <<errors, recordVars, procVars, quotaVars, requests>>
-------------------------------------------------------------------------------
(* The job's process: tfl-remote-trap around the user's command.          *)

TrapStarts(j) ==
    /\ proc[j] = "spawned"
    /\ proc' = [proc EXCEPT ![j] = "running"]
    /\ status' = [status EXCEPT ![j] = IF @ = "INTERACTIVE" THEN @ ELSE "RUNNING"]
    /\ UNCHANGED <<queueVars, live, pidFile, quotaVars, poll, boundVars>>

(* lab.init, lab.finish and lab.error write the record with no regard to  *)
(* the status they find and no quota bookkeeping.                         *)
SdkWrites(j, s) ==
    /\ j \in Instrumented
    /\ proc[j] = "running"
    /\ status' = [status EXCEPT ![j] = s]
    /\ UNCHANGED <<queueVars, live, procVars, quotaVars, poll, boundVars>>

(* The command ended and the trap reported it, or all was killed. *)
TrapReports(j, outcome) ==
    /\ proc[j] = "running"
    /\ proc' = [proc EXCEPT ![j] = "exited"]
    /\ live' = [live EXCEPT ![j] = outcome]
    /\ status' = [status EXCEPT ![j] = IF outcome = "crashed" THEN "FAILED" ELSE @]
    /\ UNCHANGED <<queueVars, pidFile, quotaVars, poll, boundVars>>

ProcessKilled(j) ==
    /\ Alive(j)
    /\ proc' = [proc EXCEPT ![j] = "exited"]
    /\ UNCHANGED <<queueVars, recordVars, pidFile, quotaVars, poll, boundVars>>
-------------------------------------------------------------------------------
(* Users and the status poller.                                           *)

(* job_stop; stop_cluster's signal is ProcessKilled or a crash report. *)
UserStops(j) ==
    /\ requests < MaxRequests
    /\ requests' = requests + 1
    /\ status' = [status EXCEPT ![j] = "STOPPING"]
    /\ UNCHANGED <<queueVars, live, procVars, quotaVars, poll, restarts>>

UserDeletes(j) ==
    /\ requests < MaxRequests
    /\ requests' = requests + 1
    /\ status' = [status EXCEPT ![j] = "DELETED"]
    /\ UNCHANGED <<queueVars, live, procVars, quotaVars, poll, restarts>>

(* _handle_live_status on the poller's copy of the record. *)
LiveVerdict(j) ==
    CASE live[j] = "crashed" -> "FAILED"
      [] live[j] = "finished" /\ status[j] = "STOPPING" -> "STOPPED"
      [] live[j] = "finished" /\ status[j] # "STOPPING" /\ j \notin Interactive -> "COMPLETE"
      [] OTHER -> "none"

(* _check_job_via_provider for a LOCAL job whose copy had status seen. *)
ClusterVerdict(j, seen) ==
    CASE seen = "STOPPING" /\ (Exited(j) \/ ~pidFile[j]) -> "STOPPED"
      [] seen # "STOPPING" /\ Exited(j) /\ j \in Interactive -> "FAILED"
      [] seen # "STOPPING" /\ Exited(j) /\ j \notin Interactive -> "COMPLETE"
      [] OTHER -> "none"

(* A cycle starts: the poller copies the jobs it will look at. *)
PollCycle ==
    /\ \A j \in Jobs : poll[j] = Idle
    /\ poll' = [j \in Jobs |->
                  IF j \notin Polled \/ status[j] \notin PolledStatuses THEN Idle
                  ELSE IF LiveVerdict(j) # "none" THEN [at |-> "write", val |-> LiveVerdict(j)]
                  ELSE [at |-> "check", val |-> status[j]]]
    /\ poll' # poll
    /\ UNCHANGED <<queueVars, recordVars, procVars, quotaVars, boundVars>>

PollCheck(j) ==
    /\ poll[j].at = "check"
    /\ LET verdict == ClusterVerdict(j, poll[j].val)
       IN  poll' = [poll EXCEPT ![j] = IF verdict = "none" THEN Idle
                                       ELSE [at |-> "write", val |-> verdict]]
    /\ UNCHANGED <<queueVars, recordVars, procVars, quotaVars, boundVars>>

(* job_update_status with the verdict, however old the copy is. *)
PollWrite(j) ==
    /\ poll[j].at = "write"
    /\ poll' = [poll EXCEPT ![j] = Idle]
    /\ status' = [status EXCEPT ![j] = poll[j].val]
    /\ usage' = [usage EXCEPT ![j] = TRUE]
    /\ hold' = Converted(j)
    /\ UNCHANGED <<queueVars, live, procVars, boundVars>>
-------------------------------------------------------------------------------
Launching(j) ==
    \/ ProviderMissing(j) \/ LaunchFails(j) \/ HandlerFails(j)
    \/ SetInitialStatus(j) \/ StartLaunch(j) \/ Spawn(j) \/ LaunchReturns(j)
Waiting(j) == WaitSeesTerminal(j) \/ WaitSeesExit(j) \/ WaitSeesAlive(j) \/ WaitCheckFails(j)
Draining(j) == DrainNext(j) \/ DrainEmpty(j)
Process(j) ==
    \/ TrapStarts(j)
    \/ \E s \in {"RUNNING", "COMPLETE", "FAILED"} : SdkWrites(j, s)
    \/ \E outcome \in {"finished", "crashed"} : TrapReports(j, outcome)
    \/ ProcessKilled(j)

Next ==
    \/ \E j \in Jobs :
          \/ EnqueueBuffered(j) \/ EnqueueDirect(j)
          \/ Launching(j) \/ Waiting(j) \/ Draining(j)
          \/ Process(j)
          \/ UserStops(j) \/ UserDeletes(j)
          \/ PollCheck(j) \/ PollWrite(j)
    \/ PollCycle
    \/ Restart

Spec == Init /\ [][Next]_vars

(* The event loop keeps running a task that can run, and the executor     *)
(* finishes launch_cluster (its subprocess calls have timeouts).  Nothing *)
(* is assumed of users, of the poller, of job processes or of restarts.   *)
FairSpec ==
    /\ Spec
    /\ \A j \in Jobs :
          /\ WF_vars(Launching(j))
          /\ WF_vars(WaitSeesTerminal(j))
          /\ WF_vars(WaitSeesExit(j))
          /\ WF_vars(Draining(j))
-------------------------------------------------------------------------------
(* Properties.                                                            *)

(* One _run_and_drain task at most: no two items are in hand at once, and *)
(* the flag _processing says exactly whether there is one.                *)
SingleDrainer ==
    /\ \A j, k \in Jobs : stage[j] \in Turn /\ stage[k] \in Turn => j = k
    /\ processing <=> \E j \in Jobs : stage[j] \in Turn

(* No lost wake-up: an item sits in the queue only while some task will   *)
(* come back to look at the queue, and it sits there once.                *)
NobodyStranded ==
    /\ queue # <<>> => \E j \in Jobs : stage[j] \in Turn
    /\ \A j \in Jobs : stage[j] = "queued" <=> \E i \in DOMAIN queue : queue[i] = j
    /\ \A i, k \in DOMAIN queue : queue[i] = queue[k] => i = k

(* Ways a turn may end while the item's process runs on. *)
Escapes == {"failed", "error", "terminal", "gaveUp", "lost"}

(* The local provider runs one batch job at a time, except for a process  *)
(* whose turn ended early: the job's record already said terminal, three  *)
(* checks in a row failed, launch_cluster or its handler raised after the *)
(* process had started, or the API restarted under it.                    *)
SerialUnlessEscaped ==
    \A j, k \in Jobs \ Interactive :
        j # k /\ Alive(j) /\ Alive(k) => released[j] \in Escapes \/ released[k] \in Escapes

(* A job's minutes are not counted twice by get_available_quota: once its *)
(* usage is recorded its hold no longer counts, whichever of the drainer  *)
(* and the poller settled it, and in whichever order.                     *)
NotChargedTwice == \A j \in Jobs : usage[j] => hold[j] # "HELD"

(* The drainer and the executor implement a FIFO server that serves one   *)
(* item at a time and never idles while an item waits.                    *)
CurrentItem ==
    IF \E j \in Jobs : stage[j] \in Turn THEN CHOOSE j \in Jobs : stage[j] \in Turn ELSE NoJob
Fifo == INSTANCE FifoServer WITH Item <- Jobs, Nobody <- NoJob, waiting <- queue, current <- CurrentItem
ServesInOrder == Fifo!FifoSpec

(* If no job process runs for ever, every item in the queue gets its turn.*)
EveryTurnComes ==
    (\A k \in Jobs : []<>~Alive(k)) => \A j \in Jobs : stage[j] = "queued" ~> stage[j] # "queued"

(* job_status.py, on the terminal states: "once a job enters one of these *)
(* it should not transition further".  For the queue: an item whose job   *)
(* reached one while it waited in the queue never gets a process.         *)
TerminalNotLaunched ==
    \A j \in Jobs :
        [](stage[j] = "queued" /\ status[j] \in TerminalStatuses => [](proc[j] = "none"))
===============================================================================
