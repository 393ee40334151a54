------------------------------ MODULE StatusWorker ------------------------------
(***************************************************************************)
(* The status worker (remote_job_status_service.py) and the remote jobs of *)
(* one provider.  Each cycle lists the active jobs, then settles or checks *)
(* each on the copy the listing made, however old that is by then.  The    *)
(* provider runs a machine per job or a queue of jobs; what the worker     *)
(* makes of a job that is not there differs from provider to provider.     *)
(*                                                                         *)
(* Grain.  One action looks at a job: its live_status, the circuit breaker *)
(* or the provider's answer, with the counters it leaves; another writes   *)
(* the verdict.  In between jobs and users go on.                          *)
(***************************************************************************)
EXTENDS Naturals

CONSTANTS Jobs,             \* remote jobs of the provider, launched
          Providers,        \* types of provider looked at
          NoVerdict,        \* nothing about to be written
          EmptyThreshold,   \* EMPTY_PROVIDER_JOBS_TERMINAL_THRESHOLD
          FailureThreshold, \* _PROVIDER_FAILURE_THRESHOLD
          BackoffCycles,    \* _PROVIDER_BACKOFF_CYCLES
          MaxFaults,        \* bound: writes and stop calls that fail
          MaxRestarts,      \* bound: restarts of the worker
          MaxRequests       \* bound: stop and delete requests of users

TerminalStatuses == {"STOPPED", "COMPLETE", "FAILED", "DELETED"}
Verdicts == [job : Jobs, val : TerminalStatuses, why : {"live", "answer", "missing"}]

PerJob == {"runpod", "vastai", "gcp", "azure", "aws", "nebius", "lambda"}
Queued == {"skypilot", "slurm", "dstack"}
Kinds == PerJob \cup Queued

ASSUME StatusWorkerAssumption ==
    /\ Providers \subseteq Kinds
    /\ NoVerdict \notin Verdicts
    /\ EmptyThreshold \in Nat \ {0} /\ FailureThreshold \in Nat \ {0} /\ BackoffCycles \in Nat
    /\ MaxFaults \in Nat /\ MaxRestarts \in Nat /\ MaxRequests \in Nat

VARIABLES
    kind,      \* the type of the provider
    interactive,  \* jobs of subtype "interactive"
    status,    \* index.json status of a job
    live,      \* job_data.live_status
    polls,     \* job_data.provider_empty_jobs_polls
    seen,      \* job_data.provider_jobs_seen_once
    work,      \* how far the remote command and its wrapper are
    machine,   \* is the job's machine there
    todo,      \* jobs this cycle has still to look at
    copy,      \* their records as listed
    verdict,   \* what the worker is about to write
    failures, skip,  \* _provider_failures of the provider
    outage,    \* does the provider fail to answer
    unseen,    \* history: answers in a row that did not show the job
    settled,   \* history: on what evidence the worker settled the job last
    faults, restarts, requests

recordVars == <<status, live, polls, seen>>
shape == <<kind, interactive>>
remoteVars == <<shape, work, machine, outage>>
breakerVars == <<failures, skip>>
historyVars == <<unseen, settled>>
boundVars == <<faults, restarts, requests>>
vars == <<recordVars, remoteVars, todo, copy, verdict, breakerVars, historyVars, boundVars>>

PolledStatuses == {"LAUNCHING", "RUNNING", "STOPPING", "INTERACTIVE"}
Status == PolledStatuses \cup TerminalStatuses
Live == {"none", "finished", "crashed"}
Copies == [status : Status, live : Live, polls : Nat, seen : BOOLEAN]
NoCopy == [status |-> "DELETED", live |-> "none", polls |-> 0, seen |-> FALSE]

RecordType ==
    /\ status \in [Jobs -> Status] /\ live \in [Jobs -> Live]
    /\ polls \in [Jobs -> Nat] /\ seen \in [Jobs -> BOOLEAN]
RemoteType ==
    /\ kind \in Kinds /\ interactive \subseteq Jobs
    /\ work \in [Jobs -> {"starting", "running", "reporting", "over"}]
    /\ machine \in [Jobs -> {"up", "gone"}]
    /\ outage \in BOOLEAN
CycleType ==
    /\ todo \subseteq Jobs /\ copy \in [Jobs -> Copies]
    /\ verdict \in Verdicts \cup {NoVerdict}
BreakerType ==
    /\ failures \in 0 .. FailureThreshold - 1 /\ skip \in 0 .. BackoffCycles
HistoryType ==
    /\ unseen \in [Jobs -> 0 .. EmptyThreshold]
    /\ settled \in [Jobs -> {"no", "live", "answer", "missing"}]
BoundType ==
    faults \in 0 .. MaxFaults /\ restarts \in 0 .. MaxRestarts /\ requests \in 0 .. MaxRequests
TypeOK == RecordType /\ RemoteType /\ CycleType /\ BreakerType /\ HistoryType /\ BoundType

(* Jobs as the launch queue leaves them. *)
Init ==
    /\ kind \in Providers /\ interactive \in SUBSET Jobs
    /\ status = [j \in Jobs |-> IF j \in interactive THEN "INTERACTIVE" ELSE "LAUNCHING"]
    /\ live = [j \in Jobs |-> "none"]
    /\ polls = [j \in Jobs |-> 0]
    /\ seen = [j \in Jobs |-> FALSE]
    /\ work = [j \in Jobs |-> "starting"]
    /\ machine = [j \in Jobs |-> "up"]
    /\ todo = {} /\ copy = [j \in Jobs |-> NoCopy] /\ verdict = NoVerdict
    /\ failures = 0 /\ skip = 0
    /\ outage = FALSE
    /\ unseen = [j \in Jobs |-> 0]
    /\ settled = [j \in Jobs |-> "no"]
    /\ faults = 0 /\ restarts = 0 /\ requests = 0

Fault == faults < MaxFaults /\ faults' = faults + 1 /\ UNCHANGED <<restarts, requests>>
NoFault == UNCHANGED boundVars
-------------------------------------------------------------------------------
(* A cycle.                                                               *)

StartCycle ==
    /\ todo = {} /\ verdict = NoVerdict
    /\ todo' = {j \in Jobs : status[j] \in PolledStatuses}
    /\ todo' # {}
    /\ copy' = [j \in Jobs |-> IF j \in todo'
                               THEN [status |-> status[j], live |-> live[j], polls |-> polls[j], seen |-> seen[j]]
                               ELSE NoCopy]
    /\ UNCHANGED <<recordVars, remoteVars, verdict, failures, skip, historyVars, boundVars>>

(* The worker is done with job j of this cycle. *)
Leave(j) ==
    /\ todo' = todo \ {j}
    /\ copy' = [copy EXCEPT ![j] = NoCopy]

(* The job is to be settled as v. *)
Settle(j, v, why) ==
    /\ verdict' = [job |-> j, val |-> v, why |-> why]
    /\ UNCHANGED <<todo, copy, failures, skip>>

(* The provider answered, there is no verdict: _record_provider_success. *)
Answered(j) ==
    /\ Leave(j)
    /\ failures' = 0 /\ skip' = 0
    /\ UNCHANGED verdict

(* Has the provider failed often enough?                                  *)
(* Mutant TrippedLate allows one failure more.                            *)
TrippedLate == failures + 1 > FailureThreshold
Tripped == failures + 1 >= FailureThreshold

(* _record_provider_failure. *)
Failed ==
    IF Tripped
    THEN failures' = 0 /\ skip' = BackoffCycles
    ELSE failures' = failures + 1 /\ UNCHANGED skip

(* _handle_live_status: what the wrapper's report means for the copy. *)
LiveVerdict(j) ==
    LET c == copy[j]
    IN  CASE c.live = "crashed" -> "FAILED"
          [] c.live = "finished" /\ c.status = "STOPPING" -> "STOPPED"
          [] c.live = "finished" /\ c.status # "STOPPING" /\ j \notin interactive -> "COMPLETE"
          [] OTHER -> "none"

(* Is the cluster to be stopped before the report is acted on?            *)
(* Mutant OnCrashOnly forgets the machines of jobs that ended well.       *)
Crashed(j) == copy[j].live = "crashed" /\ (j \in interactive \/ copy[j].status # "STOPPING")
OnCrashOnly(j) == Crashed(j)
Teardown(j) == Crashed(j) \/ kind \in PerJob

Turn(j) == j \in todo /\ verdict = NoVerdict

(* The machine of job j goes, and the command with it. *)
Gone(j) ==
    /\ machine' = [machine EXCEPT ![j] = "gone"]
    /\ work' = [work EXCEPT ![j] = "over"]

(* _best_effort_stop_cluster_for_job swallows a failed call. *)
LookLive(j) ==
    /\ Turn(j) /\ LiveVerdict(j) # "none"
    /\ Settle(j, LiveVerdict(j), "live")
    /\ \/ Teardown(j) /\ Gone(j) /\ NoFault
       \/ Teardown(j) /\ Fault /\ UNCHANGED <<machine, work>>
       \/ ~Teardown(j) /\ NoFault /\ UNCHANGED <<machine, work>>
    /\ UNCHANGED <<recordVars, shape, outage, historyVars>>

(* _is_provider_backed_off counts down at every job it skips.             *)
(* Mutant NeverCloses does not count.                                     *)
NeverCloses == skip
CountedDown == skip - 1

SkipBackedOff(j) ==
    /\ Turn(j) /\ LiveVerdict(j) = "none"
    /\ skip > 0
    /\ skip' = CountedDown
    /\ Leave(j)
    /\ UNCHANGED <<recordVars, remoteVars, verdict, failures, historyVars, boundVars>>

Query(j) == Turn(j) /\ LiveVerdict(j) = "none" /\ skip = 0

(* Providers whose module raises when the service does not answer, and    *)
(* those that return as if the job was not there (SkyPilot does either).  *)
Raises == {"gcp", "aws", "nebius", "slurm", "skypilot"}
Hides == {"runpod", "vastai", "lambda", "azure", "skypilot", "dstack"}

QueryFails(j) ==
    /\ Query(j)
    /\ outage /\ kind \in Raises
    /\ Failed
    /\ Leave(j)
    /\ UNCHANGED <<recordVars, remoteVars, verdict, historyVars, boundVars>>

(* _set_provider_empty_jobs_polls swallows the exception of a failed write. *)
SetPolls(j, n) ==
    \/ polls' = [polls EXCEPT ![j] = n] /\ NoFault
    \/ polls[j] # n /\ Fault /\ UNCHANGED polls

(* The provider shows the job: the counter of the copy is cleared.        *)
(* Mutant KeptCount leaves it.                                            *)
KeptCount(j) == polls[j]
ClearedCount(j) == IF copy[j].polls > 0 THEN 0 ELSE polls[j]

Shown(j) ==
    /\ SetPolls(j, ClearedCount(j))
    /\ unseen' = [unseen EXCEPT ![j] = 0]

(* It does not: the job is settled as v at the threshold only. *)
Unshown(j, v) ==
    /\ SetPolls(j, copy[j].polls + 1)
    /\ unseen' = [unseen EXCEPT ![j] = IF @ = EmptyThreshold THEN @ ELSE @ + 1]
    /\ IF copy[j].polls + 1 < EmptyThreshold THEN Answered(j) ELSE Settle(j, v, "missing")

(* What a job that ended without a report becomes. *)
EndedAs(j, well) ==
    CASE copy[j].status = "STOPPING" -> "STOPPED"
      [] copy[j].status # "STOPPING" /\ (~well \/ j \in interactive) -> "FAILED"
      [] OTHER -> "COMPLETE"

(* The machine is there, in whatever state that is not an end. *)
MachineUp(j) ==
    /\ Query(j) /\ kind \in PerJob /\ ~outage /\ machine[j] = "up"
    /\ Shown(j)
    /\ Answered(j)
    /\ UNCHANGED <<status, live, seen, remoteVars, settled>>

(* What it means that it is not there.  Of a job that was to stop, one    *)
(* answer without its machine is enough on five providers; Azure tells a  *)
(* machine that does not exist from one it cannot say anything about.     *)
TakenAtOnce(j) ==
    /\ copy[j].status = "STOPPING"
    /\ kind \in {"runpod", "vastai", "nebius", "lambda"} \/ (kind = "azure" /\ ~outage)
Debounced(j) ==
    IF copy[j].status = "STOPPING" THEN kind \in {"gcp", "azure"} ELSE kind \in {"runpod", "vastai", "gcp"}

(* A machine that is up may be missing from one answer or another. *)
MachineMissing(j) ==
    /\ Query(j) /\ kind \in PerJob /\ (outage => kind \in Hides)
    /\ \/ TakenAtOnce(j) /\ Settle(j, "STOPPED", "answer") /\ NoFault /\ UNCHANGED <<polls, unseen>>
       \/ Debounced(j) /\ Unshown(j, EndedAs(j, TRUE))
       \/ ~TakenAtOnce(j) /\ ~Debounced(j) /\ Answered(j) /\ NoFault /\ UNCHANGED <<polls, unseen>>
    /\ UNCHANGED <<status, live, seen, remoteVars, settled>>

MachineDown(j) ==
    /\ Query(j) /\ kind \in PerJob /\ ~outage /\ machine[j] = "gone"
    /\ Shown(j)
    /\ \E well \in BOOLEAN : Settle(j, EndedAs(j, well), "answer")
    /\ UNCHANGED <<status, live, seen, remoteVars, settled>>

(* Only of SkyPilot's jobs is it kept that they were in the queue once. *)
QueueEmpty(j) ==
    /\ Query(j) /\ kind \in Queued /\ (outage => kind \in Hides)
    /\ Unshown(j, EndedAs(j, kind = "skypilot" => copy[j].seen))
    /\ UNCHANGED <<status, live, seen, remoteVars, settled>>

(* SLURM lists every job of the user (over REST of all users) whichever is *)
(* asked for, and of those that ended the log files of a day: what it says *)
(* may be about other jobs only, or name a state the worker does not know. *)
ListsOthers == kind = "slurm"
SeenNow(j) == seen' = IF kind = "skypilot" THEN [seen EXCEPT ![j] = TRUE] ELSE seen

QueueActive(j) ==
    /\ Query(j) /\ kind \in Queued /\ ~outage /\ (work[j] # "over" \/ ListsOthers)
    /\ Shown(j)
    /\ SeenNow(j)
    /\ Answered(j)
    /\ UNCHANGED <<status, live, remoteVars, settled>>

(* All entries listed have ended; a cancelled one means STOPPED. *)
QueueEnded(j) ==
    /\ Query(j) /\ kind \in Queued /\ ~outage /\ (work[j] = "over" \/ ListsOthers)
    /\ Shown(j)
    /\ SeenNow(j)
    /\ \E v \in {"STOPPED", EndedAs(j, TRUE), EndedAs(j, FALSE)} : Settle(j, v, "answer")
    /\ UNCHANGED <<status, live, remoteVars, settled>>

Current == verdict.job

(* job_update_status, whatever the status is by now. *)
WriteVerdict ==
    /\ verdict # NoVerdict
    /\ status' = [status EXCEPT ![Current] = verdict.val]
    /\ settled' = [settled EXCEPT ![Current] = verdict.why]
    /\ verdict' = NoVerdict
    /\ Leave(Current)
    /\ IF verdict.why = "live" THEN UNCHANGED <<failures, skip>> ELSE failures' = 0 /\ skip' = 0
    /\ UNCHANGED <<live, polls, seen, remoteVars, unseen, boundVars>>

(* The write raised: swallowed after a report, and taken for a failure of *)
(* the provider after an answer.                                          *)
WriteFails ==
    /\ verdict # NoVerdict
    /\ Fault
    /\ verdict' = NoVerdict
    /\ Leave(Current)
    /\ IF verdict.why = "live" THEN UNCHANGED breakerVars ELSE Failed
    /\ UNCHANGED <<recordVars, remoteVars, historyVars>>

(* Copies and breaker are memory, the counters of a job are in its record.*)
Restart ==
    /\ restarts < MaxRestarts
    /\ restarts' = restarts + 1
    /\ todo' = {} /\ copy' = [j \in Jobs |-> NoCopy] /\ verdict' = NoVerdict
    /\ failures' = 0 /\ skip' = 0
    /\ UNCHANGED <<recordVars, remoteVars, historyVars, faults, requests>>
-------------------------------------------------------------------------------
(* Jobs, users and the provider.                                          *)

Around == <<polls, seen, shape, outage, todo, copy, verdict, breakerVars, historyVars>>

JobStarts(j) ==
    /\ work[j] = "starting" /\ machine[j] = "up"
    /\ work' = [work EXCEPT ![j] = "running"]
    /\ status' = [status EXCEPT ![j] = IF @ = "INTERACTIVE" THEN @ ELSE "RUNNING"]
    /\ UNCHANGED <<Around, live, machine, boundVars>>

(* lab.finish and lab.error write the status themselves. *)
SdkFinishes(j) ==
    /\ work[j] = "running"
    /\ \E s \in {"COMPLETE", "FAILED"} : status' = [status EXCEPT ![j] = s]
    /\ UNCHANGED <<Around, live, work, machine, boundVars>>

(* The wrapper writes live_status, and after a crash the status; what     *)
(* goes wrong in it is swallowed.                                         *)
TrapReports(j) ==
    /\ work[j] = "running"
    /\ \/ live' = [live EXCEPT ![j] = "finished"] /\ work' = [work EXCEPT ![j] = "over"] /\ NoFault
       \/ live' = [live EXCEPT ![j] = "crashed"] /\ work' = [work EXCEPT ![j] = "reporting"] /\ NoFault
       \/ work' = [work EXCEPT ![j] = "over"] /\ Fault /\ UNCHANGED live
    /\ UNCHANGED <<Around, status, machine>>

TrapFails(j) ==
    /\ work[j] = "reporting"
    /\ work' = [work EXCEPT ![j] = "over"]
    /\ status' = [status EXCEPT ![j] = "FAILED"]
    /\ UNCHANGED <<Around, live, machine, boundVars>>

(* The machine shuts itself down, is preempted, or is stopped by hand. *)
MachineGoes(j) ==
    /\ machine[j] = "up"
    /\ Gone(j)
    /\ UNCHANGED <<Around, status, live, boundVars>>

UserAsks(j) ==
    /\ requests < MaxRequests
    /\ requests' = requests + 1
    /\ \E s \in {"STOPPING", "DELETED"} : status' = [status EXCEPT ![j] = s]
    /\ UNCHANGED <<Around, live, machine, work, faults, restarts>>

Outage ==
    /\ outage' = ~outage
    /\ UNCHANGED <<recordVars, shape, work, machine, todo, copy, verdict, breakerVars, historyVars, boundVars>>
-------------------------------------------------------------------------------
Ask(j) == \/ QueryFails(j) \/ MachineUp(j) \/ MachineMissing(j) \/ MachineDown(j)
          \/ QueueEmpty(j) \/ QueueActive(j) \/ QueueEnded(j)
Worker == \/ StartCycle \/ WriteVerdict \/ WriteFails
          \/ \E j \in Jobs : LookLive(j) \/ SkipBackedOff(j) \/ Ask(j)

Next ==
    \/ Worker \/ Restart \/ Outage
    \/ \E j \in Jobs : \/ JobStarts(j) \/ SdkFinishes(j) \/ TrapReports(j) \/ TrapFails(j)
                       \/ MachineGoes(j) \/ UserAsks(j)

Spec == Init /\ [][Next]_vars

(* The worker's loop goes on, and every call to the provider comes back;  *)
(* nothing is assumed of jobs, machines, users or the provider's answers. *)
FairSpec == Spec /\ WF_vars(Worker)
-------------------------------------------------------------------------------
(* Properties.                                                            *)

(* What a verdict without a report of the wrapper rests on, as long as    *)
(* the counter could be written: on as many polls in a row without the    *)
(* job as the threshold says, across cycles, restarts and backoffs, or on *)
(* an answer.  An answer settles a job whose command goes on only if it   *)
(* was to stop on one of the providers where one absence, real or of an   *)
(* outage, is taken at once, or on SLURM, where other jobs answer for it. *)
NoHastyVerdict ==
    faults = 0 /\ verdict # NoVerdict =>
        /\ verdict.why = "missing" => unseen[Current] >= EmptyThreshold
        /\ verdict.why = "answer" =>
             \/ work[Current] = "over"
             \/ copy[Current].status = "STOPPING" /\ kind \in {"runpod", "vastai", "nebius", "lambda", "azure"}
             \/ kind = "slurm"

(* A machine whose job the worker settled on the wrapper's report is gone *)
(* when the status says so, unless the stop call failed.                  *)
TornDownFirst ==
    faults = 0 /\ kind \in PerJob => \A j \in Jobs : settled[j] = "live" => machine[j] = "gone"

(* If the provider answers from some time on, every job that has crashed, *)
(* that the wrapper reported, or that has left the queue of SkyPilot or   *)
(* dstack gets a terminal status.  So does one whose machine was lost on RunPod, Vast.ai *)
(* or GCP; on Azure, Nebius and Lambda it does if it was to stop, and on   *)
(* AWS only if the worker looks while AWS still lists what it ended.      *)
LossNoticed(j) ==
    kind \in {"runpod", "vastai", "gcp"} \/ (status[j] = "STOPPING" /\ kind \in {"azure", "nebius", "lambda"})
Noticeable(j) ==
    \/ live[j] = "crashed"
    \/ live[j] = "finished" /\ j \notin interactive
    \/ machine[j] = "gone" /\ LossNoticed(j)
    \/ kind \in {"skypilot", "dstack"} /\ work[j] = "over"
EveryEndNoticed ==
    <>[]~outage => \A j \in Jobs : Noticeable(j) ~> status[j] \in TerminalStatuses
================================================================================
