------------------------------ MODULE QuotaLedger ------------------------------
(***************************************************************************)
(* The quota of one user in one team (quota_service.py): minutes are       *)
(* checked and held when a job is launched, and the hold is released or    *)
(* turned into usage when the job is over, by the background task of       *)
(* job_update_status, by a launch that fails, or by the backfill endpoint. *)
(*                                                                         *)
(* Grain.  One action per committed transaction; the check of a launch is  *)
(* two actions, because the sums of used and of held minutes are separate  *)
(* queries that see whatever was committed before each.                    *)
(***************************************************************************)
EXTENDS Integers, FiniteSets, Sequences, Functions, SequencesExt

CONSTANTS Jobs,         \* jobs the user launches
          Undated,      \* no end_time in job_data
          MaxMinutes,   \* bound: minutes asked for, spent, and granted
          MaxVerdicts,  \* bound: ends of jobs
          MaxEvents     \* bound: changes of the limit, new months, restarts of the API, mishaps

ASSUME QuotaAssumption ==
    /\ IsFiniteSet(Jobs) /\ Undated \notin Int
    /\ MaxMinutes \in Nat \ {0} /\ MaxVerdicts \in Nat /\ MaxEvents \in Nat

VARIABLES
    limit,     \* minutes of the team and of the user's override, per period
    month,     \* the current period
    stage,     \* how far the launch of a job is
    asked,     \* minutes_requested
    unused,    \* limit less the used minutes, as a check has read them
    hold,      \* status of the job's quota_holds row
    usage,     \* its quota_usage rows
    status,    \* status of the job: "active" or a terminal one
    end,       \* end_time less start_time, in minutes
    trackers,  \* minutes of the tracking tasks of the job not run yet
    looked,    \* a backfill has found no usage of the job
    raced,     \* history: minutes taken from under the check of a launch
    debt,      \* history: minutes the user may be overdrawn by, and why
    lost,      \* history: jobs whose last verdict no tracking task settles
    verdicts, events

launchVars == <<stage, asked, unused>>
ledgerVars == <<hold, usage>>
jobVars == <<status, end>>
taskVars == <<trackers, looked>>
historyVars == <<raced, debt, lost>>
boundVars == <<verdicts, events>>
vars == <<limit, month, launchVars, ledgerVars, jobVars, taskVars, historyVars, boundVars>>

TrackedStatuses == {"COMPLETE", "STOPPED", "FAILED"}
TerminalStatuses == TrackedStatuses \cup {"DELETED"}
Minutes == 0 .. MaxMinutes
Spans == -1 .. MaxMinutes   \* -1: the clocks of API and machine differ
Rows == [minutes : Minutes, month : 1 .. MaxEvents + 1]

LaunchType ==
    /\ stage \in [Jobs -> {"new", "reading", "checked", "held", "queued", "over", "refused"}]
    /\ asked \in [Jobs -> Minutes] /\ unused \in [Jobs -> Int]
LedgerType ==
    /\ limit \in Minutes /\ month \in 1 .. MaxEvents + 1
    /\ hold \in [Jobs -> {"none", "HELD", "RELEASED", "CONVERTED"}]
    /\ usage \in [Jobs -> Seq(Rows)]
JobType ==
    /\ status \in [Jobs -> {"active"} \cup TerminalStatuses]
    /\ end \in [Jobs -> Spans \cup {Undated}]
    /\ trackers \in [Jobs -> Seq(Spans)] /\ looked \subseteq Jobs
HistoryType ==
    /\ raced \in [Jobs -> Nat] /\ debt \in Nat /\ lost \subseteq Jobs
    /\ verdicts \in 0 .. MaxVerdicts /\ events \in 0 .. MaxEvents
TypeOK == LaunchType /\ LedgerType /\ JobType /\ HistoryType

Init ==
    /\ limit = MaxMinutes /\ month = 1
    /\ stage = [j \in Jobs |-> "new"] /\ asked = [j \in Jobs |-> 0]
    /\ unused = [j \in Jobs |-> 0]
    /\ hold = [j \in Jobs |-> "none"] /\ usage = [j \in Jobs |-> <<>>]
    /\ status = [j \in Jobs |-> "active"] /\ end = [j \in Jobs |-> Undated]
    /\ trackers = [j \in Jobs |-> <<>>] /\ looked = {}
    /\ raced = [j \in Jobs |-> 0] /\ debt = 0 /\ lost = {}
    /\ verdicts = 0 /\ events = 0

MinutesIn(rows, m) ==
    SumFunctionOnSet([i \in DOMAIN rows |-> rows[i].minutes], {i \in DOMAIN rows : rows[i].month = m})
UsedIn(m) == SumFunctionOnSet([j \in Jobs |-> MinutesIn(usage[j], m)], Jobs)
Reserved(j) == IF hold[j] = "HELD" THEN asked[j] ELSE 0
HeldMinutes == SumFunctionOnSet([j \in Jobs |-> Reserved(j)], Jobs)
Excess(m, covered) == IF m > covered THEN m - covered ELSE 0
-------------------------------------------------------------------------------
(* Launching a job.  Children of a sweep and resumed jobs ask for nothing.  *)

Asks(j, m) ==
    /\ stage[j] = "new"
    /\ asked' = [asked EXCEPT ![j] = m]
    /\ IF m = 0
       THEN stage' = [stage EXCEPT ![j] = "checked"] /\ UNCHANGED unused
       ELSE /\ stage' = [stage EXCEPT ![j] = "reading"]
            /\ unused' = [unused EXCEPT ![j] = limit - UsedIn(month)]
    /\ UNCHANGED <<limit, month, ledgerVars, jobVars, taskVars, historyVars, boundVars>>

(* Mutant ForgetsHolds takes what is not used for what is available. *)
ForgetsHolds(j) == unused[j]
Available(j) == unused[j] - HeldMinutes

Checks(j) ==
    /\ stage[j] = "reading"
    /\ stage' = [stage EXCEPT ![j] = IF Available(j) >= 0 /\ Available(j) >= asked[j]
                                     THEN "checked" ELSE "refused"]
    /\ unused' = [unused EXCEPT ![j] = 0]
    /\ UNCHANGED <<limit, month, asked, ledgerVars, jobVars, taskVars, historyVars, boundVars>>

(* The hold is committed; launches that are past their check do not know. *)
Holds(j) ==
    /\ stage[j] = "checked"
    /\ stage' = [stage EXCEPT ![j] = "held"]
    /\ IF asked[j] = 0
       THEN UNCHANGED <<hold, raced, debt>>
       ELSE /\ hold' = [hold EXCEPT ![j] = "HELD"]
            /\ debt' = debt + raced[j]
            /\ raced' = [i \in Jobs |-> IF i = j THEN 0 ELSE IF stage[i] = "checked" THEN raced[i] + asked[j] ELSE raced[i]]
    /\ UNCHANGED <<limit, month, asked, unused, usage, jobVars, taskVars, lost, boundVars>>

(* job_data, with the team and start_time, and the queue item.  A task      *)
(* without a command is refused between the two: nothing is queued.         *)
Queues(j) ==
    /\ stage[j] = "held"
    /\ stage' \in {[stage EXCEPT ![j] = "queued"], [stage EXCEPT ![j] = "over"]}
    /\ UNCHANGED <<limit, month, asked, unused, ledgerVars, jobVars, taskVars, historyVars, boundVars>>

DataWritten(j) == stage[j] \in {"queued", "over"}
-------------------------------------------------------------------------------
(* Settling.                                                               *)

(* Mutant NotUnique has no unique index on job and team. *)
NotUnique(j) == TRUE
MayInsert(j) == usage[j] = <<>>

(* Mutant StaysHeld records the usage and keeps the hold. *)
StaysHeld(j) == hold
Converted(j) == [hold EXCEPT ![j] = IF hold[j] = "HELD" THEN "CONVERTED" ELSE hold[j]]

(* A hold is released by its id, whatever its status.  Mutant FREED writes a *)
(* status that nobody knows.                                               *)
ReleasedAsFreed(j) == [hold EXCEPT ![j] = IF hold[j] = "none" THEN "none" ELSE "FREED"]
Released(j) == [hold EXCEPT ![j] = IF hold[j] = "none" THEN "none" ELSE "RELEASED"]

Charged(j, m) ==
    /\ usage' = [usage EXCEPT ![j] = Append(@, [minutes |-> m, month |-> month])]
    /\ debt' = debt + Excess(m, Reserved(j))
    /\ raced' = [i \in Jobs |-> IF stage[i] = "reading" THEN raced[i] + m ELSE raced[i]]

(* Something fails where the code goes on, or ends without a word.         *)
Mishap == events < MaxEvents /\ events' = events + 1

(* No email or team in the record read, no such user, or a database error,  *)
(* which is rolled back: nothing is recorded.                              *)
GivesUp == Mishap /\ UNCHANGED <<ledgerVars, raced, debt>>

(* Usage and hold in one transaction, rolled back if the job has usage. *)
Settles(j, m) ==
    IF m >= 0 /\ MayInsert(j)
    THEN Charged(j, m) /\ hold' = Converted(j)
    ELSE UNCHANGED <<ledgerVars, raced, debt>>

(* The background task of job_update_status. *)
Tracks(j) ==
    /\ \E i \in DOMAIN trackers[j] :
        /\ trackers' = [trackers EXCEPT ![j] = RemoveAt(@, i)]
        /\ \/ /\ Settles(j, trackers[j][i]) /\ UNCHANGED events
              /\ lost' = IF trackers[j][i] < 0 THEN lost \cup {j} ELSE lost
           \/ GivesUp /\ lost' = lost \cup {j}
    /\ UNCHANGED <<limit, month, launchVars, jobVars, looked, verdicts>>

BackfillLooks(j) ==
    /\ DataWritten(j) /\ status[j] \in TerminalStatuses
    /\ usage[j] = <<>>
    /\ end[j] # Undated \/ status[j] = "COMPLETE"
    /\ looked' = looked \cup {j}
    /\ UNCHANGED <<limit, month, launchVars, ledgerVars, jobVars, trackers, historyVars, boundVars>>

BackfillSettles(j) ==
    /\ j \in looked
    /\ looked' = looked \ {j}
    /\ \/ (\E m \in IF end[j] = Undated THEN Minutes ELSE {end[j]} : Settles(j, m)) /\ UNCHANGED events
       \/ GivesUp
    /\ UNCHANGED <<limit, month, launchVars, jobVars, trackers, lost, verdicts>>
-------------------------------------------------------------------------------
(* The end of a job.                                                       *)

Verdict(j) ==
    /\ stage[j] \in {"held", "queued", "over"} /\ verdicts < MaxVerdicts
    /\ verdicts' = verdicts + 1
Writes(j, s) == status' = [status EXCEPT ![j] = s]

(* Mutant CompletedOnly tracks jobs that completed. *)
CompletedOnly(j, s) == DataWritten(j) /\ s = "COMPLETE"
Tracked(j, s) == DataWritten(j) /\ s \in TrackedStatuses

(* The task that tracks the quota starts if the record, read again, is that *)
(* of a remote job; it takes its own time for an end_time that is not there. *)
Follows(j, s) ==
    IF Tracked(j, s)
    THEN \E m \in IF end'[j] = Undated THEN Minutes ELSE {end'[j]} :
             /\ trackers' = [trackers EXCEPT ![j] = Append(@, m)]
             /\ lost' = lost \ {j}
    ELSE lost' = (IF DataWritten(j) THEN lost ELSE lost \cup {j}) /\ UNCHANGED trackers

(* job_update_status, whose caller has just written end_time or leaves it as *)
(* it is.  It goes on when the write fails, and a record that cannot be read *)
(* again is not that of a remote job.                                      *)
Ends(j, s, e) ==
    /\ s \in TrackedStatuses /\ Verdict(j)
    /\ end' = IF e = Undated THEN end ELSE [end EXCEPT ![j] = e]
    /\ \/ Writes(j, s) /\ Follows(j, s) /\ UNCHANGED events
       \/ UNCHANGED status /\ Follows(j, s) /\ Mishap
       \/ Writes(j, s) /\ lost' = lost \cup {j} /\ UNCHANGED trackers /\ Mishap
    /\ UNCHANGED <<limit, month, launchVars, ledgerVars, looked, raced, debt>>

(* The SDK's end of a job and a user's deletion write the record only. *)
EndsUntracked(j, s) ==
    /\ status[j] = "active" \/ s = "DELETED"
    /\ Verdict(j) /\ UNCHANGED events
    /\ Writes(j, s)
    /\ end' \in IF s = "DELETED" THEN {end} ELSE {[end EXCEPT ![j] = m] : m \in Spans}
    /\ lost' = IF Len(trackers[j]) = 0 THEN lost \cup {j} ELSE lost
    /\ UNCHANGED <<limit, month, launchVars, ledgerVars, taskVars, raced, debt>>

(* The launch fails: the hold is released, FAILED is written and the wait is *)
(* charged in one transaction; usage recorded before, or an error of the     *)
(* database, rolls all of it back, and without a user it is not charged.     *)
LaunchFails(j, m) ==
    /\ stage[j] = "queued"
    /\ stage' = [stage EXCEPT ![j] = "over"]
    /\ status' = [status EXCEPT ![j] = "FAILED"]
    /\ \/ /\ IF MayInsert(j) THEN Charged(j, m) /\ hold' = Released(j) ELSE UNCHANGED <<ledgerVars, raced, debt>>
          /\ UNCHANGED <<lost, events>>
       \/ Mishap /\ hold' = Released(j) /\ UNCHANGED <<usage, historyVars>>
       \/ GivesUp /\ lost' = lost \cup {j}
    /\ UNCHANGED <<limit, month, asked, unused, end, taskVars, verdicts>>

(* The provider is gone: FAILED and the charge first, then the release.   *)
ProviderMissing(j, m) ==
    /\ stage[j] = "queued"
    /\ stage' = [stage EXCEPT ![j] = "over"]
    /\ status' = [status EXCEPT ![j] = "FAILED"]
    /\ \/ (IF MayInsert(j) THEN Charged(j, m) ELSE UNCHANGED <<usage, raced, debt>>) /\ UNCHANGED events
       \/ Mishap /\ UNCHANGED <<usage, raced, debt>>
    /\ hold' = Released(j)
    /\ UNCHANGED <<limit, month, asked, unused, end, taskVars, lost, verdicts>>

(* The launch returns and puts the job back to LAUNCHING, even a job that was *)
(* stopped or deleted meanwhile.                                           *)
LaunchReturns(j) ==
    /\ stage[j] = "queued"
    /\ stage' = [stage EXCEPT ![j] = "over"]
    /\ status' = [status EXCEPT ![j] = "active"]
    /\ UNCHANGED <<limit, month, asked, unused, ledgerVars, end, taskVars, historyVars, boundVars>>
-------------------------------------------------------------------------------
(* The owner, the calendar and restarts.                                   *)

Event == Mishap /\ UNCHANGED verdicts

OwnerSets(l) ==
    /\ Event
    /\ limit' = l
    /\ debt' = debt + Excess(limit, l)
    /\ UNCHANGED <<month, launchVars, ledgerVars, jobVars, taskVars, raced, lost>>

NextMonth ==
    /\ Event
    /\ month' = month + 1
    /\ UNCHANGED <<limit, launchVars, ledgerVars, jobVars, taskVars, historyVars>>

(* A restart ends the requests and the tracking tasks that were under way. *)
Crash ==
    /\ Event
    /\ stage' = [j \in Jobs |-> IF stage[j] \in {"reading", "checked"} THEN "refused" ELSE stage[j]]
    /\ trackers' = [j \in Jobs |-> <<>>] /\ looked' = {}
    /\ lost' = lost \cup {j \in Jobs : trackers[j] # <<>>}
    /\ UNCHANGED <<limit, month, asked, unused, ledgerVars, jobVars, raced, debt>>

Launch(j) == (\E m \in Minutes : Asks(j, m)) \/ Checks(j) \/ Holds(j) \/ Queues(j)
Outcome(j) ==
    \/ LaunchReturns(j)
    \/ \E m \in Minutes : LaunchFails(j, m) \/ ProviderMissing(j, m)
Finish(j) ==
    \/ \E s \in TrackedStatuses, e \in Minutes \cup {Undated} : Ends(j, s, e)
    \/ \E s \in {"COMPLETE", "FAILED", "DELETED"} : EndsUntracked(j, s)
Settle(j) == Tracks(j) \/ BackfillLooks(j) \/ BackfillSettles(j)

Next ==
    \/ \E j \in Jobs : Launch(j) \/ Outcome(j) \/ Finish(j) \/ Settle(j)
    \/ \E l \in Minutes : OwnerSets(l)
    \/ NextMonth
    \/ Crash

Spec == Init /\ [][Next]_vars

(* Nothing tells one job from another. *)
Symmetry == Permutations(Jobs)
-------------------------------------------------------------------------------
(* The user is overdrawn by no more than what is accounted for: launches that *)
(* were past their check when another hold was committed, usage recorded      *)
(* between the two sums of a check, jobs that ran longer than they asked for, *)
(* and a limit that the owner lowered (check_quota_available, which promises  *)
(* to block all launches of an overdrawn user).                               *)
OverdraftExplained == limit - UsedIn(month) - HeldMinutes >= -debt

(* A hold outlives its job only where no task was left to settle it: the end *)
(* was written by the SDK or a deletion, the job's data was never written or *)
(* could not be read again, a restart took the task, the clocks differed, or *)
(* the task or the failing launch did not find whom to charge or ended in a  *)
(* database error (job_update_status, _track_quota_for_job_status_change).   *)
HoldOutlives(j) == hold[j] = "HELD" /\ status[j] # "active" /\ stage[j] # "queued" /\ trackers[j] = <<>>
LeaksExplained == \A j \in Jobs : HoldOutlives(j) => j \in lost

Entry(j) ==
    CASE usage[j] = <<>> /\ hold[j] = "none" -> "open"
      [] usage[j] = <<>> /\ hold[j] = "HELD" -> "reserved"
      [] usage[j] = <<>> /\ hold[j] = "RELEASED" -> "freed"
      [] Len(usage[j]) = 1 /\ hold[j] # "HELD" -> "charged"
      [] OTHER -> "wrong"
(* The two tables keep one entry per job: reserved once, then freed or       *)
(* charged, never both at once and charged once at most, whatever tracker,   *)
(* backfill and failing launch do in whatever order (the unique index of     *)
(* quota_usage and the commits of quota_service).                            *)
Entries == [j \in Jobs |-> Entry(j)]
Books == INSTANCE Account WITH entry <- Entries
KeepsAccounts == Books!AccountSpec
================================================================================
