--------------------------- MODULE StatusWorkerProofs ---------------------------
(***************************************************************************)
(* What holds of the status worker for any number of jobs, faults and      *)
(* restarts, and any thresholds.                                           *)
(***************************************************************************)
EXTENDS StatusWorker, TLAPS

(* What an action leaves alone keeps its type. *)
LEMMA TypeFrame ==
    /\ RecordType /\ UNCHANGED recordVars => RecordType'
    /\ RemoteType /\ UNCHANGED remoteVars => RemoteType'
    /\ CycleType /\ UNCHANGED <<todo, copy, verdict>> => CycleType'
    /\ BreakerType /\ UNCHANGED breakerVars => BreakerType'
    /\ HistoryType /\ UNCHANGED historyVars => HistoryType'
    /\ BoundType /\ UNCHANGED boundVars => BoundType'
  BY DEF RecordType, recordVars, RemoteType, remoteVars, shape, CycleType, BreakerType, breakerVars,
         HistoryType, historyVars, BoundType, boundVars

(* A fault counts once, as long as there are faults left. *)
LEMMA FaultType == BoundType /\ (Fault \/ NoFault) => BoundType'
  BY StatusWorkerAssumption DEF StatusWorkerAssumption, BoundType, boundVars, Fault, NoFault

(* The copy of a job that was dealt with goes. *)
LEMMA LeaveType ==
    ASSUME CycleType, NEW j, Leave(j), verdict' \in Verdicts \cup {NoVerdict}
    PROVE  CycleType'
  BY DEF CycleType, Leave, NoCopy, Copies, Status, TerminalStatuses, Live

(* The breaker after a verdict, an answer and a failure. *)
LEMMA SettleType ==
    ASSUME CycleType, BreakerType, NEW j \in Jobs, NEW v \in TerminalStatuses,
           NEW why \in {"live", "answer", "missing"}, Settle(j, v, why)
    PROVE  CycleType' /\ BreakerType'
  BY DEF CycleType, BreakerType, Settle, Verdicts
LEMMA AnsweredType ==
    ASSUME CycleType, BreakerType, NEW j \in Jobs, Answered(j)
    PROVE  CycleType' /\ BreakerType'
<1>1. CycleType'
  BY LeaveType DEF Answered, CycleType
<1>2. BreakerType'
  BY StatusWorkerAssumption DEF StatusWorkerAssumption, Answered, BreakerType
<1> QED
  BY <1>1, <1>2
LEMMA FailedType == ASSUME BreakerType, Failed PROVE BreakerType'
<1>1. CASE Tripped
  BY <1>1, StatusWorkerAssumption DEF StatusWorkerAssumption, Failed, Tripped, BreakerType
<1>2. CASE ~Tripped
  BY <1>2, StatusWorkerAssumption DEF StatusWorkerAssumption, Failed, Tripped, BreakerType
<1> QED
  BY <1>1, <1>2

(* Counters of polls stay natural numbers. *)
LEMMA PollsType ==
    ASSUME polls \in [Jobs -> Nat], BoundType, NEW j \in Jobs, NEW n \in Nat, SetPolls(j, n)
    PROVE  polls' \in [Jobs -> Nat] /\ BoundType'
<1>1. polls' \in [Jobs -> Nat]
  BY DEF SetPolls
<1>2. BoundType'
  BY FaultType DEF SetPolls
<1> QED
  BY <1>1, <1>2
LEMMA ShownType ==
    ASSUME TypeOK, NEW j \in Jobs, Shown(j), settled' = settled
    PROVE  polls' \in [Jobs -> Nat] /\ BoundType' /\ HistoryType'
<1>1. ClearedCount(j) \in Nat
  BY DEF TypeOK, RecordType, ClearedCount
<1>2. polls' \in [Jobs -> Nat] /\ BoundType'
  BY <1>1, PollsType DEF TypeOK, RecordType, Shown
<1>3. HistoryType'
  BY StatusWorkerAssumption DEF StatusWorkerAssumption, TypeOK, HistoryType, Shown
<1> QED
  BY <1>2, <1>3
LEMMA UnshownType ==
    ASSUME TypeOK, NEW j \in Jobs, NEW v \in TerminalStatuses, Unshown(j, v), settled' = settled
    PROVE  polls' \in [Jobs -> Nat] /\ BoundType' /\ HistoryType' /\ CycleType' /\ BreakerType'
<1>1. copy[j].polls + 1 \in Nat
  BY DEF TypeOK, CycleType, Copies
<1>2. polls' \in [Jobs -> Nat] /\ BoundType'
  BY <1>1, PollsType DEF TypeOK, RecordType, Unshown
<1>3. HistoryType'
  BY StatusWorkerAssumption DEF StatusWorkerAssumption, TypeOK, HistoryType, Unshown
<1>4. CASE Answered(j)
  BY <1>2, <1>3, <1>4, AnsweredType DEF TypeOK
<1>5. CASE Settle(j, v, "missing")
  BY <1>2, <1>3, <1>5, SettleType DEF TypeOK
<1> QED
  BY <1>4, <1>5 DEF Unshown

(* What becomes of a job that ended is a terminal status. *)
LEMMA VerdictTypes ==
    ASSUME NEW j
    PROVE  /\ LiveVerdict(j) # "none" => LiveVerdict(j) \in TerminalStatuses
           /\ \A well : EndedAs(j, well) \in TerminalStatuses
  BY DEF LiveVerdict, EndedAs, TerminalStatuses

(* The steps of the worker outside the answers keep the types. *)
LEMMA TypeCycle ==
    ASSUME TypeOK, StartCycle \/ WriteVerdict \/ WriteFails \/ Restart
    PROVE  TypeOK'
<1> USE DEF TypeOK
<1>1. CASE StartCycle
  <2>1. CycleType'
    BY <1>1 DEF StartCycle, CycleType, RecordType, Copies, NoCopy, Status, TerminalStatuses, Live
  <2>2. BreakerType'
    BY <1>1, StatusWorkerAssumption DEF StatusWorkerAssumption, StartCycle, BreakerType
  <2> QED
    BY <1>1, <2>1, <2>2, TypeFrame DEF StartCycle
<1>2. CASE WriteVerdict
  <2>1. Current \in Jobs /\ verdict.val \in Status /\ verdict.why \in {"live", "answer", "missing"}
    BY <1>2 DEF WriteVerdict, Current, CycleType, Verdicts, Status
  <2>2. RecordType' /\ HistoryType'
    BY <1>2, <2>1 DEF WriteVerdict, RecordType, HistoryType
  <2>3. CycleType'
    BY <1>2, LeaveType DEF WriteVerdict
  <2>4. BreakerType'
    BY <1>2, StatusWorkerAssumption DEF StatusWorkerAssumption, WriteVerdict, BreakerType
  <2> QED
    BY <1>2, <2>2, <2>3, <2>4, TypeFrame DEF WriteVerdict
<1>3. CASE WriteFails
  <2>1. CycleType'
    BY <1>3, LeaveType DEF WriteFails
  <2>2. BreakerType'
    BY <1>3, FailedType, TypeFrame DEF WriteFails
  <2> QED
    BY <1>3, <2>1, <2>2, FaultType, TypeFrame DEF WriteFails
<1>4. CASE Restart
  <2>1. CycleType'
    BY <1>4 DEF Restart, CycleType, Copies, NoCopy, Status, TerminalStatuses, Live
  <2>2. BreakerType' /\ BoundType'
    BY <1>4, StatusWorkerAssumption DEF StatusWorkerAssumption, Restart, BreakerType, BoundType
  <2> QED
    BY <1>4, <2>1, <2>2, TypeFrame DEF Restart
<1> QED
  BY <1>1, <1>2, <1>3, <1>4

(* Looking at a job keeps them. *)
LEMMA TypeLook ==
    ASSUME TypeOK, NEW j \in Jobs, LookLive(j) \/ SkipBackedOff(j) \/ QueryFails(j)
    PROVE  TypeOK'
<1> USE DEF TypeOK
<1>1. CASE LookLive(j)
  <2>1. CycleType' /\ BreakerType'
    BY <1>1, VerdictTypes, SettleType DEF LookLive
  <2>2. RemoteType'
    BY <1>1 DEF LookLive, Gone, RemoteType, shape
  <2>3. BoundType'
    BY <1>1, FaultType DEF LookLive
  <2> QED
    BY <1>1, <2>1, <2>2, <2>3, TypeFrame DEF LookLive
<1>2. CASE SkipBackedOff(j)
  <2>1. CycleType'
    BY <1>2, LeaveType DEF SkipBackedOff, CycleType
  <2>2. BreakerType'
    BY <1>2, StatusWorkerAssumption DEF StatusWorkerAssumption, SkipBackedOff, CountedDown, BreakerType
  <2> QED
    BY <1>2, <2>1, <2>2, TypeFrame DEF SkipBackedOff
<1>3. CASE QueryFails(j)
  <2>1. CycleType'
    BY <1>3, LeaveType DEF QueryFails, CycleType
  <2>2. BreakerType'
    BY <1>3, FailedType DEF QueryFails
  <2> QED
    BY <1>3, <2>1, <2>2, TypeFrame DEF QueryFails
<1> QED
  BY <1>1, <1>2, <1>3

(* Every answer of the provider keeps them. *)
LEMMA TypeAnswer ==
    ASSUME TypeOK, NEW j \in Jobs,
           \/ MachineUp(j) \/ MachineMissing(j) \/ MachineDown(j)
           \/ QueueEmpty(j) \/ QueueActive(j) \/ QueueEnded(j)
    PROVE  TypeOK'
<1> USE DEF TypeOK
<1>1. CASE MachineUp(j)
  <2>1. polls' \in [Jobs -> Nat] /\ BoundType' /\ HistoryType' /\ CycleType' /\ BreakerType'
    BY <1>1, ShownType, AnsweredType DEF MachineUp
  <2> QED
    BY <1>1, <2>1, TypeFrame DEF MachineUp, RecordType
<1>2. CASE MachineMissing(j)
  <2>1. CASE Unshown(j, EndedAs(j, TRUE))
    <3>1. polls' \in [Jobs -> Nat] /\ BoundType' /\ HistoryType' /\ CycleType' /\ BreakerType'
      BY <1>2, <2>1, VerdictTypes, UnshownType DEF MachineMissing
    <3> QED
      BY <1>2, <3>1, TypeFrame DEF MachineMissing, RecordType
  <2>2. CASE Settle(j, "STOPPED", "answer") /\ NoFault /\ UNCHANGED <<polls, unseen>>
    <3>1. CycleType' /\ BreakerType' /\ BoundType'
      BY <2>2, SettleType, FaultType DEF TerminalStatuses
    <3> QED
      BY <1>2, <2>2, <3>1, TypeFrame DEF MachineMissing, RecordType, HistoryType
  <2>3. CASE Answered(j) /\ NoFault /\ UNCHANGED <<polls, unseen>>
    <3>1. CycleType' /\ BreakerType' /\ BoundType'
      BY <2>3, AnsweredType, FaultType
    <3> QED
      BY <1>2, <2>3, <3>1, TypeFrame DEF MachineMissing, RecordType, HistoryType
  <2> QED
    BY <1>2, <2>1, <2>2, <2>3 DEF MachineMissing
<1>3. CASE MachineDown(j)
  <2>1. CycleType' /\ BreakerType'
    BY <1>3, VerdictTypes, SettleType DEF MachineDown
  <2>2. polls' \in [Jobs -> Nat] /\ BoundType' /\ HistoryType'
    BY <1>3, ShownType DEF MachineDown
  <2> QED
    BY <1>3, <2>1, <2>2, TypeFrame DEF MachineDown, RecordType
<1>4. CASE QueueEmpty(j)
  <2>1. polls' \in [Jobs -> Nat] /\ BoundType' /\ HistoryType' /\ CycleType' /\ BreakerType'
    BY <1>4, VerdictTypes, UnshownType DEF QueueEmpty
  <2> QED
    BY <1>4, <2>1, TypeFrame DEF QueueEmpty, RecordType
<1>5. CASE QueueActive(j)
  <2>1. polls' \in [Jobs -> Nat] /\ BoundType' /\ HistoryType' /\ CycleType' /\ BreakerType'
    BY <1>5, ShownType, AnsweredType DEF QueueActive
  <2> QED
    BY <1>5, <2>1, TypeFrame DEF QueueActive, SeenNow, RecordType
<1>6. CASE QueueEnded(j)
  <2>1. CycleType' /\ BreakerType'
    <3>1. PICK v \in {"STOPPED", EndedAs(j, TRUE), EndedAs(j, FALSE)} : Settle(j, v, "answer")
      BY <1>6 DEF QueueEnded
    <3>2. v \in TerminalStatuses
      BY VerdictTypes DEF TerminalStatuses
    <3> QED
      BY <3>1, <3>2, SettleType
  <2>2. polls' \in [Jobs -> Nat] /\ BoundType' /\ HistoryType'
    BY <1>6, ShownType DEF QueueEnded
  <2> QED
    BY <1>6, <2>1, <2>2, TypeFrame DEF QueueEnded, SeenNow, RecordType
<1> QED
  BY <1>1, <1>2, <1>3, <1>4, <1>5, <1>6

(* So do jobs, machines, users and outages. *)
LEMMA TypeAround ==
    ASSUME TypeOK,
           \/ Outage
           \/ \E j \in Jobs : \/ JobStarts(j) \/ SdkFinishes(j) \/ TrapReports(j) \/ TrapFails(j)
                              \/ MachineGoes(j) \/ UserAsks(j)
    PROVE  TypeOK'
<1> USE DEF TypeOK, Around, recordVars, remoteVars, shape
<1>1. CASE Outage
  BY <1>1, TypeFrame DEF Outage, RemoteType
<1>2. ASSUME NEW j \in Jobs, JobStarts(j) \/ SdkFinishes(j) \/ TrapReports(j) \/ TrapFails(j)
                             \/ MachineGoes(j) \/ UserAsks(j)
      PROVE  TypeOK'
  <2>1. RecordType'
    BY <1>2 DEF JobStarts, SdkFinishes, TrapReports, TrapFails, MachineGoes, UserAsks,
                RecordType, Status, PolledStatuses, TerminalStatuses, Live
  <2>2. RemoteType'
    BY <1>2 DEF JobStarts, SdkFinishes, TrapReports, TrapFails, MachineGoes, UserAsks, Gone, RemoteType
  <2>3. BoundType'
    BY <1>2, FaultType, StatusWorkerAssumption
       DEF StatusWorkerAssumption, JobStarts, SdkFinishes, TrapReports, TrapFails, MachineGoes, UserAsks,
           NoFault, BoundType, boundVars
  <2>4. UNCHANGED <<todo, copy, verdict, breakerVars, historyVars>>
    BY <1>2 DEF JobStarts, SdkFinishes, TrapReports, TrapFails, MachineGoes, UserAsks
  <2> QED
    BY <2>1, <2>2, <2>3, <2>4, TypeFrame
<1> QED
  BY <1>1, <1>2

(* Every variable has a value of its declared type; in particular the     *)
(* failures counted for a provider stay below the threshold that resets   *)
(* them, and a verdict is a terminal status.                              *)
THEOREM TypeCorrect == Spec => []TypeOK
<1>1. Init => TypeOK
  <2> SUFFICES ASSUME Init PROVE TypeOK
    OBVIOUS
  <2> USE StatusWorkerAssumption DEF StatusWorkerAssumption, Init
  <2>1. RecordType /\ RemoteType
    BY DEF RecordType, RemoteType, Status, PolledStatuses, Live, Kinds
  <2>2. CycleType
    BY DEF CycleType, Copies, NoCopy, Status, TerminalStatuses, Live
  <2>3. BreakerType /\ HistoryType /\ BoundType
    BY DEF BreakerType, HistoryType, BoundType
  <2> QED
    BY <2>1, <2>2, <2>3 DEF TypeOK
<1>2. TypeOK /\ [Next]_vars => TypeOK'
  <2> SUFFICES ASSUME TypeOK, [Next]_vars PROVE TypeOK'
    OBVIOUS
  <2>1. CASE UNCHANGED vars
    BY <2>1, TypeFrame DEF vars, TypeOK
  <2> QED
    BY <2>1, TypeCycle, TypeLook, TypeAnswer, TypeAround DEF Next, Worker, Ask
<1> QED
  BY <1>1, <1>2, PTL DEF Spec

(* A verdict read off the wrapper's report follows the teardown. *)
StoppedBeforeVerdict ==
    faults = 0 /\ kind \in PerJob /\ verdict # NoVerdict =>
        (verdict.why = "live" => machine[verdict.job] = "gone")

TeardownInv == StoppedBeforeVerdict /\ TornDownFirst

(* A step in which nothing is settled on a report: machines only go. *)
OnlyGoes ==
    /\ machine' = machine \/ \E j \in Jobs : machine' = [machine EXCEPT ![j] = "gone"]
    /\ kind' = kind /\ settled' = settled
    /\ faults' = faults \/ faults' = faults + 1
    /\ \/ verdict' = verdict \/ verdict' = NoVerdict
       \/ (verdict'.job \in Jobs /\ verdict'.why \in {"answer", "missing"})

(* A counter of polls is written, or the write fails. *)
LEMMA PollsFault == ASSUME NEW j, NEW n, SetPolls(j, n) PROVE faults' = faults \/ faults' = faults + 1
  BY DEF SetPolls, NoFault, Fault, boundVars

(* A job that is not shown is left, or settled for being missing. *)
LEMMA UnshownOnly ==
    ASSUME NEW j \in Jobs, NEW v, Unshown(j, v)
    PROVE  /\ faults' = faults \/ faults' = faults + 1
           /\ verdict' = verdict \/ (verdict'.job \in Jobs /\ verdict'.why = "missing")
<1>1. faults' = faults \/ faults' = faults + 1
  BY PollsFault DEF Unshown
<1>2. CASE Answered(j)
  BY <1>1, <1>2 DEF Answered
<1>3. CASE Settle(j, v, "missing")
  BY <1>1, <1>3 DEF Settle
<1> QED
  BY <1>2, <1>3 DEF Unshown

(* What the provider's answer does to the variables of the argument. *)
LEMMA AnswersOnlyGo == ASSUME NEW j \in Jobs, Ask(j) PROVE OnlyGoes
<1> USE DEF OnlyGoes, remoteVars, shape
<1>1. CASE QueryFails(j)
  BY <1>1 DEF QueryFails, historyVars, boundVars
<1>2. CASE MachineUp(j)
  BY <1>2, PollsFault DEF MachineUp, Answered, Shown
<1>3. CASE MachineMissing(j)
  <2>1. CASE Unshown(j, EndedAs(j, TRUE))
    BY <1>3, <2>1, UnshownOnly DEF MachineMissing
  <2>2. CASE Settle(j, "STOPPED", "answer") /\ NoFault
    BY <1>3, <2>2 DEF MachineMissing, Settle, NoFault, boundVars
  <2>3. CASE Answered(j) /\ NoFault
    BY <1>3, <2>3 DEF MachineMissing, Answered, NoFault, boundVars
  <2> QED
    BY <1>3, <2>1, <2>2, <2>3 DEF MachineMissing
<1>4. CASE MachineDown(j)
  <2>1. PICK well \in BOOLEAN : Settle(j, EndedAs(j, well), "answer")
    BY <1>4 DEF MachineDown
  <2> QED
    BY <1>4, <2>1, PollsFault DEF MachineDown, Shown, Settle
<1>5. CASE QueueEmpty(j)
  BY <1>5, UnshownOnly DEF QueueEmpty
<1>6. CASE QueueActive(j)
  BY <1>6, PollsFault DEF QueueActive, Answered, Shown
<1>7. CASE QueueEnded(j)
  <2>1. PICK v \in {"STOPPED", EndedAs(j, TRUE), EndedAs(j, FALSE)} : Settle(j, v, "answer")
    BY <1>7 DEF QueueEnded
  <2> QED
    BY <1>7, <2>1, PollsFault DEF QueueEnded, Shown, Settle
<1> QED
  BY <1>1, <1>2, <1>3, <1>4, <1>5, <1>6, <1>7 DEF Ask

(* The jobs, their wrappers and the users. *)
LEMMA SurroundingsOnlyGo ==
    ASSUME NEW j \in Jobs,
           \/ JobStarts(j) \/ SdkFinishes(j) \/ TrapReports(j) \/ TrapFails(j)
           \/ MachineGoes(j) \/ UserAsks(j)
    PROVE  OnlyGoes
<1> USE DEF OnlyGoes, Around, shape, historyVars, boundVars, Fault, NoFault
<1>1. CASE JobStarts(j) \/ SdkFinishes(j) \/ TrapFails(j)
  BY <1>1 DEF JobStarts, SdkFinishes, TrapFails
<1>2. CASE TrapReports(j) \/ UserAsks(j)
  BY <1>2 DEF TrapReports, UserAsks
<1>3. CASE MachineGoes(j)
  BY <1>3 DEF MachineGoes, Gone
<1> QED
  BY <1>1, <1>2, <1>3

(* Apart from the two steps that act on a report, every step is of this   *)
(* kind.                                                                  *)
LEMMA StepKinds ==
    ASSUME [Next]_vars
    PROVE  OnlyGoes \/ WriteVerdict \/ \E j \in Jobs : LookLive(j)
<1> USE DEF OnlyGoes, remoteVars, shape, historyVars, boundVars
<1>1. CASE UNCHANGED vars
  BY <1>1 DEF vars
<1>2. CASE StartCycle
  BY <1>2 DEF StartCycle
<1>3. CASE WriteFails
  BY <1>3 DEF WriteFails, Fault
<1>4. CASE Restart
  BY <1>4 DEF Restart
<1>5. CASE Outage
  BY <1>5 DEF Outage
<1>6. ASSUME NEW j \in Jobs, SkipBackedOff(j) PROVE OnlyGoes
  BY <1>6 DEF SkipBackedOff
<1> QED
  BY <1>1, <1>2, <1>3, <1>4, <1>5, <1>6, AnswersOnlyGo, SurroundingsOnlyGo DEF Next, Worker

(* Steps of that kind keep the invariant. *)
LEMMA OnlyGoesKeeps == TypeOK /\ TeardownInv /\ OnlyGoes => TeardownInv'
<1> SUFFICES ASSUME TypeOK, TeardownInv, OnlyGoes PROVE TeardownInv'
  OBVIOUS
<1>1. faults' = 0 => faults = 0
  BY StatusWorkerAssumption DEF StatusWorkerAssumption, TypeOK, BoundType, OnlyGoes
<1>2. \A i \in Jobs : machine[i] = "gone" => machine'[i] = "gone"
  BY DEF TypeOK, RemoteType, OnlyGoes
<1>3. StoppedBeforeVerdict'
  BY <1>1, <1>2 DEF TypeOK, CycleType, Verdicts, OnlyGoes, TeardownInv, StoppedBeforeVerdict
<1>4. TornDownFirst'
  BY <1>1, <1>2 DEF OnlyGoes, TeardownInv, TornDownFirst
<1> QED
  BY <1>3, <1>4 DEF TeardownInv

(* Acting on a report, the worker stops the machine first. *)
LEMMA LookLiveKeeps == ASSUME TypeOK, TeardownInv, NEW j \in Jobs, LookLive(j) PROVE TeardownInv'
<1>1. /\ verdict' = [job |-> j, val |-> LiveVerdict(j), why |-> "live"]
      /\ settled' = settled /\ kind' = kind
  BY DEF LookLive, Settle, historyVars, shape
<1>2. \/ machine' = [machine EXCEPT ![j] = "gone"] /\ faults' = faults
      \/ machine' = machine /\ faults' = faults + 1
      \/ machine' = machine /\ faults' = faults /\ kind \notin PerJob
  BY DEF LookLive, Gone, Teardown, NoFault, Fault, boundVars
<1>3. faults' = 0 => faults = 0 /\ faults' = faults
  BY <1>2, StatusWorkerAssumption DEF StatusWorkerAssumption, TypeOK, BoundType
<1>4. StoppedBeforeVerdict'
  BY <1>1, <1>2, <1>3 DEF TypeOK, RemoteType, BoundType, StoppedBeforeVerdict
<1>5. TornDownFirst'
  BY <1>1, <1>2, <1>3 DEF TypeOK, RemoteType, TeardownInv, TornDownFirst
<1> QED
  BY <1>4, <1>5 DEF TeardownInv

(* The status is written with the machine gone. *)
LEMMA WriteKeeps == TypeOK /\ TeardownInv /\ WriteVerdict => TeardownInv'
<1> SUFFICES ASSUME TypeOK, TeardownInv, WriteVerdict PROVE TeardownInv'
  OBVIOUS
<1>1. /\ verdict # NoVerdict /\ verdict' = NoVerdict
      /\ settled' = [settled EXCEPT ![verdict.job] = verdict.why]
      /\ machine' = machine /\ kind' = kind /\ faults' = faults
  BY DEF WriteVerdict, Current, remoteVars, shape, boundVars
<1>2. StoppedBeforeVerdict'
  BY <1>1 DEF StoppedBeforeVerdict
<1>3. TornDownFirst'
  BY <1>1 DEF TypeOK, HistoryType, TeardownInv, StoppedBeforeVerdict, TornDownFirst
<1> QED
  BY <1>2, <1>3 DEF TeardownInv

(* A machine whose job the worker settled on the wrapper's report is gone *)
(* when the status says so, unless a call or a write failed: the order of *)
(* stop_cluster and job_update_status in _handle_live_status.             *)
THEOREM MachinesTornDown == Spec => []TornDownFirst
<1>1. Init => TeardownInv
  BY DEF Init, TeardownInv, StoppedBeforeVerdict, TornDownFirst
<1>2. TypeOK /\ TeardownInv /\ [Next]_vars => TeardownInv'
  BY StepKinds, OnlyGoesKeeps, LookLiveKeeps, WriteKeeps
<1>3. TeardownInv => TornDownFirst
  BY DEF TeardownInv
<1> QED
  BY <1>1, <1>2, <1>3, TypeCorrect, PTL DEF Spec

(* As long as every write of a counter succeeds, a job's counter is at    *)
(* most the number of answers without it (which stops at the threshold),  *)
(* and the copies of the jobs still to be looked at are up to date.       *)
Ripe(j) == unseen[j] = EmptyThreshold
Counted(j) == polls[j] <= unseen[j] \/ Ripe(j)
Pending(j) == verdict # NoVerdict /\ verdict.job = j
Copied(j) == j \in todo /\ ~Pending(j) => copy[j].polls = polls[j]
CountInv ==
    faults = 0 =>
        /\ \A j \in Jobs : Counted(j) /\ Copied(j)
        /\ verdict # NoVerdict => (verdict.why = "missing" => Ripe(verdict.job))

(* A step that leaves the counters alone: a verdict it reaches is not for *)
(* want of answers, and a copy it makes is up to date.                    *)
KeepsCounts ==
    /\ polls' = polls /\ unseen' = unseen
    /\ faults' = faults \/ faults' = faults + 1
    /\ \/ verdict' = verdict
       \/ verdict' = NoVerdict
       \/ verdict'.why # "missing"
    /\ \A j \in todo' :
          \/ Pending(j)'
          \/ j \in todo /\ ~Pending(j) /\ copy'[j] = copy[j]
          \/ copy'[j].polls = polls[j]
LEMMA KeepsCountsKeeps == TypeOK /\ CountInv /\ KeepsCounts => CountInv'
<1> SUFFICES ASSUME TypeOK, CountInv, KeepsCounts, faults' = 0
             PROVE  /\ \A j \in Jobs : Counted(j)' /\ Copied(j)'
                    /\ verdict' # NoVerdict => (verdict'.why = "missing" => unseen'[verdict'.job] = EmptyThreshold)
  BY DEF CountInv, Ripe
<1>1. faults = 0
  BY StatusWorkerAssumption DEF StatusWorkerAssumption, TypeOK, BoundType, KeepsCounts
<1>2. \A j \in Jobs : Counted(j)'
  BY <1>1 DEF KeepsCounts, CountInv, Counted, Ripe
<1>3. ASSUME NEW j \in Jobs PROVE Copied(j)'
  BY <1>1 DEF KeepsCounts, CountInv, Copied, Pending
<1>4. verdict' # NoVerdict => (verdict'.why = "missing" => unseen'[verdict'.job] = EmptyThreshold)
  BY <1>1 DEF KeepsCounts, CountInv, Ripe
<1> QED
  BY <1>2, <1>3, <1>4

(* A look at job j that gets an answer: its counter is right afterwards,  *)
(* and the job is settled for want of answers only if it is ripe.         *)
Looked(j) ==
    /\ verdict = NoVerdict
    /\ \A k \in Jobs \ {j} : polls'[k] = polls[k] /\ unseen'[k] = unseen[k] /\ copy'[k] = copy[k]
    /\ todo' \subseteq todo
    /\ faults' = faults \/ faults' = faults + 1
    /\ faults' = faults /\ faults = 0 /\ Counted(j) /\ Copied(j) => Counted(j)'
    /\ j \notin todo' \/ Pending(j)'
    /\ verdict' # NoVerdict =>
         /\ verdict'.job = j
         /\ faults' = faults /\ faults = 0 /\ Counted(j) /\ Copied(j) =>
              (verdict'.why = "missing" => Ripe(j)')
LEMMA LookedKeeps ==
    ASSUME TypeOK, CountInv, NEW j \in Jobs, Looked(j)
    PROVE  CountInv'
<1> SUFFICES ASSUME faults' = 0
             PROVE  /\ \A k \in Jobs : Counted(k)' /\ Copied(k)'
                    /\ verdict' # NoVerdict => (verdict'.why = "missing" => unseen'[verdict'.job] = EmptyThreshold)
  BY DEF CountInv, Ripe
<1>1. faults = 0 /\ faults' = faults
  BY StatusWorkerAssumption DEF StatusWorkerAssumption, TypeOK, BoundType, Looked
<1>2. Counted(j) /\ Copied(j)
  BY <1>1 DEF CountInv
<1>3. Counted(j)' /\ Copied(j)'
  BY <1>1, <1>2 DEF Looked, Copied
<1>4. ASSUME NEW k \in Jobs \ {j} PROVE Counted(k)' /\ Copied(k)'
  <2>1. Counted(k) /\ Copied(k)
    BY <1>1 DEF CountInv
  <2>2. Counted(k)'
    BY <2>1 DEF Looked, Counted, Ripe
  <2>3. Copied(k)'
    BY <2>1 DEF Looked, Copied, Pending
  <2> QED
    BY <2>2, <2>3
<1>5. verdict' # NoVerdict => (verdict'.why = "missing" => unseen'[verdict'.job] = EmptyThreshold)
  BY <1>1, <1>2 DEF Looked, Ripe
<1> QED
  BY <1>3, <1>4, <1>5

(* After an answer that shows the job its counter is zero.                *)
LEMMA ShownCounts ==
    ASSUME TypeOK, NEW j \in Jobs, Query(j), Shown(j),
           Answered(j) \/ \E v \in TerminalStatuses : Settle(j, v, "answer")
    PROVE  Looked(j)
<1> USE DEF TypeOK, RecordType, CycleType, HistoryType
<1>1. verdict = NoVerdict /\ j \in todo
  BY DEF Query, Turn
<1>2. /\ faults' = faults \/ faults' = faults + 1
      /\ \A k \in Jobs \ {j} : polls'[k] = polls[k] /\ unseen'[k] = unseen[k]
  BY DEF Shown, SetPolls, Fault, NoFault, boundVars
<1>3. faults' = faults /\ faults = 0 /\ Copied(j) => Counted(j)'
  <2> SUFFICES ASSUME faults' = faults, Copied(j) PROVE Counted(j)'
    OBVIOUS
  <2>1. polls'[j] = ClearedCount(j)
    BY DEF Shown, SetPolls, Fault, BoundType
  <2>2. copy[j].polls = polls[j] /\ polls[j] \in Nat
    BY <1>1 DEF Copied, Pending
  <2>3. polls'[j] = 0 /\ unseen'[j] = 0
    BY <2>1, <2>2 DEF ClearedCount, Shown
  <2> QED
    BY <2>3 DEF Counted
<1>4. CASE Answered(j)
  BY <1>1, <1>2, <1>3, <1>4 DEF Answered, Leave, Looked
<1>5. ASSUME NEW v \in TerminalStatuses, Settle(j, v, "answer") PROVE Looked(j)
  <2>1. verdict' \in Verdicts
    BY <1>5 DEF Settle, Verdicts
  <2>2. Pending(j)'
    BY <1>5, <2>1, StatusWorkerAssumption DEF StatusWorkerAssumption, Settle, Pending
  <2> QED
    BY <1>1, <1>2, <1>3, <1>5, <2>2 DEF Settle, Looked
<1> QED
  BY <1>4, <1>5

(* After an answer without the job both counts are one higher.            *)
LEMMA UnshownCounts ==
    ASSUME TypeOK, NEW j \in Jobs, NEW v \in TerminalStatuses, Query(j), Unshown(j, v)
    PROVE  Looked(j)
<1> USE DEF TypeOK, RecordType, CycleType, HistoryType
<1>1. verdict = NoVerdict /\ j \in todo
  BY DEF Query, Turn
<1>2. /\ faults' = faults \/ faults' = faults + 1
      /\ \A k \in Jobs \ {j} : polls'[k] = polls[k] /\ unseen'[k] = unseen[k]
  BY DEF Unshown, SetPolls, Fault, NoFault, boundVars
<1>3. ASSUME faults' = faults, Counted(j), Copied(j)
      PROVE  Counted(j)' /\ (copy[j].polls + 1 >= EmptyThreshold => Ripe(j)')
  <2>1. polls'[j] = copy[j].polls + 1
    BY <1>3 DEF Unshown, SetPolls, Fault, BoundType
  <2>2. copy[j].polls = polls[j] /\ polls[j] \in Nat /\ unseen[j] \in 0 .. EmptyThreshold
    BY <1>1, <1>3 DEF Copied, Pending
  <2>3. unseen'[j] = IF unseen[j] = EmptyThreshold THEN unseen[j] ELSE unseen[j] + 1
    BY DEF Unshown
  <2> QED
    BY <1>3, <2>1, <2>2, <2>3, StatusWorkerAssumption DEF StatusWorkerAssumption, Counted, Ripe
<1>4. CASE copy[j].polls + 1 < EmptyThreshold
  <2>1. Answered(j)
    BY <1>4 DEF Unshown
  <2> QED
    BY <1>1, <1>2, <1>3, <2>1 DEF Answered, Leave, Looked
<1>5. CASE ~(copy[j].polls + 1 < EmptyThreshold)
  <2>1. Settle(j, v, "missing") /\ copy[j].polls + 1 >= EmptyThreshold
    BY <1>5, StatusWorkerAssumption DEF StatusWorkerAssumption, Unshown, Copies
  <2>2. verdict' \in Verdicts
    BY <2>1 DEF Settle, Verdicts
  <2>3. Pending(j)'
    BY <2>1, <2>2, StatusWorkerAssumption DEF StatusWorkerAssumption, Settle, Pending
  <2> QED
    BY <1>1, <1>2, <1>3, <2>1, <2>3 DEF Settle, Looked
<1> QED
  BY <1>4, <1>5

(* Every answer of the provider either looks at the job in one of these   *)
(* two ways or leaves the counters alone.                                 *)
LEMMA AnswersCount ==
    ASSUME TypeOK, NEW j \in Jobs, Ask(j)
    PROVE  Looked(j) \/ KeepsCounts
<1>1. CASE QueryFails(j)
  BY <1>1 DEF QueryFails, Query, Turn, Leave, historyVars, boundVars, recordVars, TypeOK, CycleType,
              KeepsCounts, Pending
<1>2. CASE MachineUp(j) \/ QueueActive(j)
  BY <1>2, ShownCounts DEF MachineUp, QueueActive
<1>3. CASE MachineMissing(j)
  <2>1. CASE Unshown(j, EndedAs(j, TRUE))
    BY <1>3, <2>1, VerdictTypes, UnshownCounts DEF MachineMissing
  <2>2. CASE Settle(j, "STOPPED", "answer") /\ NoFault /\ UNCHANGED <<polls, unseen>>
    BY <1>3, <2>2 DEF MachineMissing, Query, Turn, Settle, NoFault, boundVars, KeepsCounts, Pending
  <2>3. CASE Answered(j) /\ NoFault /\ UNCHANGED <<polls, unseen>>
    BY <1>3, <2>3 DEF MachineMissing, Query, Turn, Answered, Leave, NoFault, boundVars, KeepsCounts, Pending,
                      TypeOK, CycleType
  <2> QED
    BY <1>3, <2>1, <2>2, <2>3 DEF MachineMissing
<1>4. CASE MachineDown(j)
  BY <1>4, VerdictTypes, ShownCounts DEF MachineDown
<1>5. CASE QueueEmpty(j)
  BY <1>5, VerdictTypes, UnshownCounts DEF QueueEmpty
<1>6. CASE QueueEnded(j)
  <2>1. PICK v \in {"STOPPED", EndedAs(j, TRUE), EndedAs(j, FALSE)} : Settle(j, v, "answer")
    BY <1>6 DEF QueueEnded
  <2>2. v \in TerminalStatuses
    BY VerdictTypes DEF TerminalStatuses
  <2> QED
    BY <1>6, <2>1, <2>2, ShownCounts DEF QueueEnded
<1> QED
  BY <1>1, <1>2, <1>3, <1>4, <1>5, <1>6 DEF Ask

(* All other steps leave the counters alone.                              *)
LEMMA OthersKeepCounts ==
    ASSUME TypeOK, [Next]_vars
    PROVE  KeepsCounts \/ \E j \in Jobs : Ask(j)
<1> USE DEF KeepsCounts, recordVars, remoteVars, shape, historyVars, boundVars, Fault, NoFault, Pending
<1>1. CASE UNCHANGED vars
  BY <1>1 DEF vars
<1>2. CASE StartCycle
  BY <1>2 DEF StartCycle
<1>3. CASE WriteVerdict \/ WriteFails
  <2>1. verdict # NoVerdict /\ verdict' = NoVerdict /\ Leave(verdict.job)
    BY <1>3 DEF WriteVerdict, WriteFails, Current
  <2>2. \A j \in todo' : j \in todo /\ ~Pending(j) /\ copy'[j] = copy[j]
    BY <2>1 DEF Leave, TypeOK, CycleType
  <2> QED
    BY <1>3, <2>1, <2>2 DEF WriteVerdict, WriteFails
<1>4. CASE Restart \/ Outage
  BY <1>4 DEF Restart, Outage
<1>5. ASSUME NEW j \in Jobs, LookLive(j) PROVE KeepsCounts
  BY <1>5 DEF LookLive, Turn, Settle
<1>6. ASSUME NEW j \in Jobs, SkipBackedOff(j) PROVE KeepsCounts
  BY <1>6 DEF SkipBackedOff, Turn, Leave, TypeOK, CycleType
<1>7. ASSUME NEW j \in Jobs, \/ JobStarts(j) \/ SdkFinishes(j) \/ TrapReports(j) \/ TrapFails(j)
                             \/ MachineGoes(j) \/ UserAsks(j)
      PROVE  KeepsCounts
  BY <1>7 DEF JobStarts, SdkFinishes, TrapReports, TrapFails, MachineGoes, UserAsks, Around
<1> QED
  BY <1>1, <1>2, <1>3, <1>4, <1>5, <1>6, <1>7 DEF Next, Worker

(* A machine that is gone took its command with it, and a verdict on an   *)
(* answer stays as well founded as it was when it was reached: a command  *)
(* that is over does not come back, and the copy is kept.                 *)
Founded(j) ==
    \/ work[j] = "over"
    \/ copy[j].status = "STOPPING" /\ kind \in {"runpod", "vastai", "nebius", "lambda", "azure"}
    \/ kind = "slurm"
AnswerInv ==
    /\ \A j \in Jobs : machine[j] = "gone" => work[j] = "over"
    /\ verdict # NoVerdict => (verdict.why = "answer" => Founded(verdict.job))

(* The provider's answers do not touch machines, commands or the type of  *)
(* the provider.                                                          *)
LEMMA AnswersFounded ==
    ASSUME TypeOK, AnswerInv, NEW j \in Jobs, Ask(j)
    PROVE  AnswerInv'
<1> USE DEF AnswerInv, remoteVars, shape
<1>1. verdict = NoVerdict /\ UNCHANGED <<work, machine, kind>>
  BY DEF Ask, QueryFails, MachineUp, MachineMissing, MachineDown, QueueEmpty, QueueActive, QueueEnded,
         Query, Turn
<1>2. SUFFICES ASSUME verdict' # NoVerdict, verdict'.why = "answer" PROVE Founded(verdict.job)'
  BY <1>1
<1>3. ~QueryFails(j) /\ ~MachineUp(j) /\ ~QueueActive(j)
  BY <1>1, <1>2 DEF QueryFails, MachineUp, QueueActive, Answered
<1>4. ASSUME NEW v, Unshown(j, v) PROVE FALSE
  BY <1>1, <1>2, <1>4 DEF Unshown, Answered, Settle
<1>5. CASE MachineMissing(j)
  <2>1. TakenAtOnce(j) /\ Settle(j, "STOPPED", "answer")
    BY <1>1, <1>2, <1>4, <1>5 DEF MachineMissing, Answered
  <2> QED
    BY <1>1, <2>1 DEF TakenAtOnce, Settle, Founded
<1>6. CASE MachineDown(j)
  <2>1. PICK well \in BOOLEAN : Settle(j, EndedAs(j, well), "answer")
    BY <1>6 DEF MachineDown
  <2> QED
    BY <1>1, <1>6, <2>1 DEF MachineDown, Settle, Founded
<1>7. CASE QueueEnded(j)
  <2>1. PICK v \in {"STOPPED", EndedAs(j, TRUE), EndedAs(j, FALSE)} : Settle(j, v, "answer")
    BY <1>7 DEF QueueEnded
  <2> QED
    BY <1>1, <1>7, <2>1 DEF QueueEnded, ListsOthers, Settle, Founded
<1> QED
  BY <1>3, <1>4, <1>5, <1>6, <1>7 DEF Ask, QueueEmpty

(* Every other step keeps the verdict and what it rests on, or drops it,  *)
(* or reads one off a report.                                             *)
LEMMA OthersFounded ==
    ASSUME TypeOK, AnswerInv, [Next]_vars
    PROVE  AnswerInv' \/ \E j \in Jobs : Ask(j)
<1> USE DEF AnswerInv, recordVars, remoteVars, shape, Founded, TypeOK, RemoteType
<1>1. CASE UNCHANGED vars
  BY <1>1 DEF vars
<1>2. CASE StartCycle \/ WriteVerdict \/ WriteFails \/ Restart
  BY <1>2 DEF StartCycle, WriteVerdict, WriteFails, Restart
<1>3. CASE Outage
  BY <1>3 DEF Outage
<1>4. ASSUME NEW j \in Jobs, LookLive(j) PROVE AnswerInv'
  BY <1>4 DEF LookLive, Settle, Gone
<1>5. ASSUME NEW j \in Jobs, SkipBackedOff(j) PROVE AnswerInv'
  BY <1>5 DEF SkipBackedOff, Turn
<1>6. ASSUME NEW j \in Jobs, JobStarts(j) \/ TrapReports(j) PROVE AnswerInv'
  <2>1. machine[j] # "gone" /\ work[j] # "over"
    BY <1>6 DEF JobStarts, TrapReports
  <2>2. UNCHANGED <<kind, copy, verdict, machine>> /\ \A i \in Jobs \ {j} : work'[i] = work[i]
    BY <1>6 DEF JobStarts, TrapReports, Around
  <2>3. verdict # NoVerdict => verdict.job \in Jobs
    BY DEF CycleType, Verdicts
  <2> QED
    BY <2>1, <2>2, <2>3
<1>7. ASSUME NEW j \in Jobs, SdkFinishes(j) \/ UserAsks(j) PROVE AnswerInv'
  <2>1. UNCHANGED <<kind, copy, verdict, work, machine>>
    BY <1>7 DEF SdkFinishes, UserAsks, Around
  <2> QED
    BY ONLY AnswerInv, <2>1 DEF AnswerInv, Founded
<1>8. ASSUME NEW j \in Jobs, MachineGoes(j) PROVE AnswerInv'
  BY <1>8 DEF MachineGoes, Gone, Around
<1>9. ASSUME NEW j \in Jobs, TrapFails(j) PROVE AnswerInv'
  BY <1>9 DEF TrapFails, Around
<1> QED
  BY <1>1, <1>2, <1>3, <1>4, <1>5, <1>6, <1>7, <1>8, <1>9 DEF Next, Worker

(* No job is settled for want of answers before its threshold, whatever   *)
(* restarts, outages and backoffs come in between: the debounce of        *)
(* _check_job_via_provider, whose counter is in the record of the job.    *)
(* One whose command goes on is settled on an answer only where the code  *)
(* takes one absence of a job to be stopped, or other jobs, for it.       *)
THEOREM VerdictsNotHasty == Spec => []NoHastyVerdict
<1>1. Init => CountInv
  BY DEF Init, CountInv, Counted, Copied
<1>2. TypeOK /\ CountInv /\ [Next]_vars => CountInv'
  BY OthersKeepCounts, AnswersCount, KeepsCountsKeeps, LookedKeeps
<1>3. Init => AnswerInv
  BY DEF Init, AnswerInv
<1>4. TypeOK /\ AnswerInv /\ [Next]_vars => AnswerInv'
  BY AnswersFounded, OthersFounded
<1>5. TypeOK /\ CountInv /\ AnswerInv => NoHastyVerdict
  BY StatusWorkerAssumption DEF StatusWorkerAssumption, CountInv, Ripe, AnswerInv, Founded, NoHastyVerdict, Current
<1> QED
  BY <1>1, <1>2, <1>3, <1>4, <1>5, TypeCorrect, PTL DEF Spec
===============================================================================
