--------------------------- MODULE LocalQueueProofs ---------------------------
(***************************************************************************)
(* The safety properties of LocalQueue, for any set of jobs and any bounds.*)
(***************************************************************************)
EXTENDS LocalQueue, TLAPS

(* What TypeOK needs to be inductive: the wait gives up at ErrorLimit, so *)
(* an item that may still be checked has fewer errors than that.          *)
BeforeEnd == {"submitted", "queued", "waiting"} \cup Preparing
Patience == \A j \in Jobs : stage[j] \in BeforeEnd => errors[j] < ErrorLimit

(* The jobs as they are submitted have values of the declared types. *)
LEMMA TypeInit == Init => TypeOK
<1> SUFFICES ASSUME Init PROVE TypeOK
  OBVIOUS
<1> USE DEF Init
<1>1. QueueType
  <2>0. queue \in Seq(Jobs)
    OBVIOUS
  <2>1. processing \in BOOLEAN
    OBVIOUS
  <2>2. stage \in [Jobs -> Stage] /\ released \in [Jobs -> Reason]
    BY DEF Stage, Reason
  <2>3. errors \in [Jobs -> 0 .. ErrorLimit]
    BY LocalQueueAssumption DEF LocalQueueAssumption
  <2> QED
    BY <2>0, <2>1, <2>2, <2>3 DEF QueueType
<1>2. RecordType /\ ProcType
  BY DEF RecordType, ProcType, Status
<1>3. QuotaType /\ PollType /\ BoundType
  BY LocalQueueAssumption DEF LocalQueueAssumption, QuotaType, PollType, PollStates, Idle, BoundType
<1> QED
  BY <1>1, <1>2, <1>3 DEF TypeOK

(* What an action leaves alone keeps its type. *)
LEMMA TypeFrame ==
    /\ QueueType /\ UNCHANGED queueVars => QueueType'
    /\ RecordType /\ UNCHANGED recordVars => RecordType'
    /\ ProcType /\ UNCHANGED procVars => ProcType'
    /\ QuotaType /\ UNCHANGED quotaVars => QuotaType'
    /\ PollType /\ UNCHANGED poll => PollType'
    /\ BoundType /\ UNCHANGED boundVars => BoundType'
  BY DEF QueueType, queueVars, RecordType, recordVars, ProcType, procVars,
         QuotaType, quotaVars, PollType, BoundType, boundVars

(* Every action of the drainer and of its items keeps the types. *)
LEMMA TypeQueue ==
    ASSUME TypeOK, Patience, NEW j \in Jobs,
           EnqueueBuffered(j) \/ EnqueueDirect(j) \/ Launching(j) \/ Waiting(j) \/ Draining(j)
    PROVE  TypeOK'
<1> USE DEF TypeOK
<1>1. CASE EnqueueBuffered(j)
  <2>1. QueueType'
    BY <1>1 DEF EnqueueBuffered, QueueType, Stage
  <2> QED
    BY TypeFrame, <1>1, <2>1 DEF EnqueueBuffered
<1>2. CASE EnqueueDirect(j)
  <2>1. QueueType'
    BY <1>2 DEF EnqueueDirect, QueueType, Stage, Turn, Preparing
  <2> QED
    BY TypeFrame, <1>2, <2>1 DEF EnqueueDirect
<1>3. CASE FailJob(j)
  <2>1. QueueType'
    BY <1>3 DEF FailJob, QueueType, EndTurn, Stage, Turn, Reason
  <2>2. RecordType'
    BY <1>3 DEF FailJob, RecordType, Status
  <2>3. QuotaType'
    BY <1>3 DEF FailJob, QuotaType
  <2> QED
    BY TypeFrame, <1>3, <2>1, <2>2, <2>3 DEF FailJob
<1>4. CASE HandlerFails(j)
  <2>1. QueueType'
    BY <1>4 DEF HandlerFails, QueueType, EndTurn, Stage, Turn, Reason
  <2> QED
    BY TypeFrame, <1>4, <2>1 DEF HandlerFails
<1>5. CASE SetInitialStatus(j)
  <2>1. QueueType'
    BY <1>5 DEF SetInitialStatus, QueueType, Stage, Turn, Preparing
  <2>2. RecordType'
    BY <1>5 DEF SetInitialStatus, RecordType, InitialStatus, Status
  <2> QED
    BY TypeFrame, <1>5, <2>1, <2>2 DEF SetInitialStatus
<1>6. CASE StartLaunch(j)
  <2>1. QueueType'
    BY <1>6 DEF StartLaunch, QueueType, Stage, Turn, Preparing
  <2> QED
    BY TypeFrame, <1>6, <2>1 DEF StartLaunch
<1>7. CASE Spawn(j)
  <2>1. QueueType'
    BY <1>7 DEF Spawn, QueueType, Stage, Turn, Preparing
  <2>2. ProcType'
    BY <1>7 DEF Spawn, ProcType
  <2> QED
    BY TypeFrame, <1>7, <2>1, <2>2 DEF Spawn
<1>8. CASE LaunchReturns(j)
  <2>1. QueueType'
    BY <1>8 DEF LaunchReturns, QueueType, EndTurn, Stage, Turn, Reason
  <2>2. ProcType'
    BY <1>8 DEF LaunchReturns, ProcType
  <2> QED
    BY TypeFrame, <1>8, <2>1, <2>2 DEF LaunchReturns
<1>9. CASE WaitSeesTerminal(j)
  <2>1. QueueType'
    BY <1>9 DEF WaitSeesTerminal, QueueType, EndTurn, Stage, Turn, Reason
  <2> QED
    BY TypeFrame, <1>9, <2>1 DEF WaitSeesTerminal
<1>10. CASE WaitSeesExit(j)
  <2>1. QueueType'
    BY <1>10 DEF WaitSeesExit, QueueType, EndTurn, Stage, Turn, Reason
  <2> QED
    BY TypeFrame, <1>10, <2>1 DEF WaitSeesExit
<1>11. CASE WaitSeesAlive(j)
  <2>1. QueueType'
    BY LocalQueueAssumption, <1>11 DEF WaitSeesAlive, QueueType, LocalQueueAssumption
  <2> QED
    BY TypeFrame, <1>11, <2>1 DEF WaitSeesAlive
<1>12. CASE WaitCheckFails(j)
  <2>1. QueueType'
    <3>1. errors' \in [Jobs -> 0 .. ErrorLimit]
      BY LocalQueueAssumption, <1>12 DEF WaitCheckFails, QueueType, LocalQueueAssumption, Patience, BeforeEnd
    <3>2. stage' \in [Jobs -> Stage] /\ released' \in [Jobs -> Reason]
      BY <1>12 DEF WaitCheckFails, QueueType, EndTurn, Stage, Turn, Reason
    <3> QED
      BY <1>12, <3>1, <3>2 DEF WaitCheckFails, QueueType
  <2> QED
    BY TypeFrame, <1>12, <2>1 DEF WaitCheckFails
<1>13. CASE DrainNext(j)
  <2>1. QueueType'
    <3>1. Head(queue) \in Jobs /\ Tail(queue) \in Seq(Jobs)
      BY <1>13 DEF DrainNext, Drained, QueueType
    <3>2. stage' \in [Jobs -> Stage]
      BY <1>13, <3>1 DEF DrainNext, QueueType, NextItem, Stage, Turn, Preparing
    <3> QED
      BY <1>13, <3>1, <3>2 DEF DrainNext, QueueType, NextItem
  <2> QED
    BY TypeFrame, <1>13, <2>1 DEF DrainNext
<1>14. CASE DrainEmpty(j)
  <2>1. QueueType'
    BY <1>14 DEF DrainEmpty, QueueType, Stage
  <2> QED
    BY TypeFrame, <1>14, <2>1 DEF DrainEmpty
<1> QED
  BY <1>1, <1>2, <1>3, <1>4, <1>5, <1>6, <1>7, <1>8, <1>9, <1>10, <1>11, <1>12, <1>13, <1>14
  DEF Launching, ProviderMissing, LaunchFails, Waiting, Draining

(* Every action of a job's process, of its users and of the poller's work *)
(* on the job keeps the types.                                            *)
LEMMA TypeOthers ==
    ASSUME TypeOK, NEW j \in Jobs,
           Process(j) \/ UserStops(j) \/ UserDeletes(j) \/ PollCheck(j) \/ PollWrite(j)
    PROVE  TypeOK'
<1> USE DEF TypeOK
<1>1. CASE TrapStarts(j)
  <2>1. ProcType'
    BY <1>1 DEF TrapStarts, ProcType
  <2>2. RecordType'
    BY <1>1 DEF TrapStarts, RecordType, Status
  <2> QED
    BY TypeFrame, <1>1, <2>1, <2>2 DEF TrapStarts
<1>2. ASSUME NEW outcome \in {"finished", "crashed"}, TrapReports(j, outcome) PROVE TypeOK'
  <2>1. ProcType'
    BY <1>2 DEF TrapReports, ProcType
  <2>2. RecordType'
    BY <1>2 DEF TrapReports, RecordType, Status
  <2> QED
    BY TypeFrame, <1>2, <2>1, <2>2 DEF TrapReports
<1>3. ASSUME NEW s \in {"RUNNING", "COMPLETE", "FAILED"}, SdkWrites(j, s) PROVE TypeOK'
  <2>1. RecordType'
    BY <1>3 DEF SdkWrites, RecordType, Status
  <2> QED
    BY TypeFrame, <1>3, <2>1 DEF SdkWrites
<1>4. CASE ProcessKilled(j)
  <2>1. ProcType'
    BY <1>4 DEF ProcessKilled, ProcType
  <2> QED
    BY TypeFrame, <1>4, <2>1 DEF ProcessKilled
<1>5. CASE UserStops(j)
  <2>1. RecordType'
    BY <1>5 DEF UserStops, RecordType, Status
  <2>2. BoundType'
    BY LocalQueueAssumption, <1>5 DEF UserStops, BoundType, LocalQueueAssumption
  <2> QED
    BY TypeFrame, <1>5, <2>1, <2>2 DEF UserStops
<1>6. CASE UserDeletes(j)
  <2>1. RecordType'
    BY <1>6 DEF UserDeletes, RecordType, Status
  <2>2. BoundType'
    BY LocalQueueAssumption, <1>6 DEF UserDeletes, BoundType, LocalQueueAssumption
  <2> QED
    BY TypeFrame, <1>6, <2>1, <2>2 DEF UserDeletes
<1>7. CASE PollCheck(j)
  <2>1. PollType'
    BY <1>7 DEF PollCheck, PollType, PollStates, Idle, ClusterVerdict, Status
  <2> QED
    BY TypeFrame, <1>7, <2>1 DEF PollCheck
<1>8. CASE PollWrite(j)
  <2>1. PollType'
    BY <1>8 DEF PollWrite, PollType, PollStates, Idle
  <2>2. RecordType'
    BY <1>8 DEF PollWrite, RecordType, PollType, PollStates, Idle
  <2>3. QuotaType'
    BY <1>8 DEF PollWrite, QuotaType, Converted
  <2> QED
    BY TypeFrame, <1>8, <2>1, <2>2, <2>3 DEF PollWrite
<1> QED
  BY <1>1, <1>2, <1>3, <1>4, <1>5, <1>6, <1>7, <1>8 DEF Process

(* Every step keeps the types. *)
LEMMA TypeNext == TypeOK /\ Patience /\ [Next]_vars => TypeOK'
<1> SUFFICES ASSUME TypeOK, Patience, [Next]_vars PROVE TypeOK'
  OBVIOUS
<1> USE DEF TypeOK
<1>1. CASE PollCycle
  <2>1. PollType'
    <3>1. ASSUME NEW j \in Jobs PROVE LiveVerdict(j) # "none" => LiveVerdict(j) \in Status
      BY DEF LiveVerdict, Status
    <3>2. ASSUME NEW j \in Jobs PROVE status[j] \in Status
      BY DEF RecordType
    <3> QED
      BY <1>1, <3>1, <3>2 DEF PollCycle, PollType, PollStates
  <2> QED
    BY TypeFrame, <1>1, <2>1 DEF PollCycle
<1>2. CASE Restart
  <2>1. QueueType'
    <3>1. stage' \in [Jobs -> Stage] /\ released' \in [Jobs -> Reason]
      BY <1>2 DEF Restart, QueueType, Stage, Reason
    <3>2. queue' \in Seq(Jobs)
      BY <1>2 DEF Restart
    <3>3. processing' \in BOOLEAN
      BY <1>2 DEF Restart
    <3> QED
      BY <1>2, <3>1, <3>2, <3>3 DEF Restart, QueueType
  <2>2. PollType'
    BY <1>2 DEF Restart, PollType, PollStates, Idle
  <2>3. BoundType'
    BY LocalQueueAssumption, <1>2 DEF Restart, BoundType, LocalQueueAssumption
  <2> QED
    BY TypeFrame, <1>2, <2>1, <2>2, <2>3 DEF Restart
<1>3. CASE UNCHANGED vars
  BY TypeFrame, <1>3 DEF vars
<1> QED
  BY <1>1, <1>2, <1>3, TypeQueue, TypeOthers DEF Next

(* What a step may do to the turns: the five actions of the queue, a move *)
(* inside somebody's turn, or nothing.                                    *)
MovesInTurn(j) ==
    /\ stage[j] \in Turn
    /\ \E s \in Turn : stage' = [stage EXCEPT ![j] = s]
    /\ UNCHANGED <<queue, processing>>
LeavesTurns == UNCHANGED <<queue, processing, stage>>

(* Every step is an arrival, an end of a turn, a restart, or one of these.*)
LEMMA StepKinds ==
    ASSUME [Next]_vars
    PROVE  \/ \E j \in Jobs : \/ EnqueueBuffered(j) \/ EnqueueDirect(j) \/ DrainNext(j) \/ DrainEmpty(j)
                             \/ MovesInTurn(j)
           \/ Restart
           \/ LeavesTurns
<1>1. ASSUME NEW j \in Jobs, Launching(j) PROVE MovesInTurn(j)
  BY <1>1 DEF Launching, ProviderMissing, LaunchFails, FailJob, HandlerFails, SetInitialStatus,
              StartLaunch, Spawn, LaunchReturns, EndTurn, MovesInTurn, Turn, Preparing
<1>2. ASSUME NEW j \in Jobs, Waiting(j) PROVE MovesInTurn(j) \/ LeavesTurns
  BY <1>2 DEF Waiting, WaitSeesTerminal, WaitSeesExit, WaitSeesAlive, WaitCheckFails, EndTurn,
              MovesInTurn, LeavesTurns, Turn
<1>3. ASSUME NEW j \in Jobs, Process(j) \/ UserStops(j) \/ UserDeletes(j) \/ PollCheck(j) \/ PollWrite(j)
      PROVE  LeavesTurns
  BY <1>3 DEF Process, TrapStarts, SdkWrites, TrapReports, ProcessKilled,
              UserStops, UserDeletes, PollCheck, PollWrite, queueVars, LeavesTurns
<1>4. CASE PollCycle \/ UNCHANGED vars
  BY <1>4 DEF PollCycle, vars, queueVars, LeavesTurns
<1> QED
  BY <1>1, <1>2, <1>3, <1>4 DEF Next, Draining

(* The queue and the turns in one formula. *)
Shape == SingleDrainer /\ NobodyStranded

(* An arrival that has to wait joins the queue behind the others. *)
LEMMA ShapeBuffered == ASSUME TypeOK, Shape, NEW j \in Jobs, EnqueueBuffered(j) PROVE Shape'
<1> USE DEF TypeOK, QueueType
<1>1. SingleDrainer'
  BY DEF Shape, SingleDrainer, EnqueueBuffered, Turn, Preparing
<1>2. \A i \in DOMAIN queue : queue[i] # j
  BY DEF Shape, NobodyStranded, EnqueueBuffered
<1>3. /\ DOMAIN queue' = 1 .. Len(queue) + 1
      /\ \A i \in 1 .. Len(queue) : queue'[i] = queue[i]
      /\ queue'[Len(queue) + 1] = j
  BY DEF EnqueueBuffered
<1>4. DOMAIN queue = 1 .. Len(queue) /\ Len(queue) \in Nat
  OBVIOUS
<1>5. \A i, k \in DOMAIN queue' : queue'[i] = queue'[k] => i = k
  BY <1>2, <1>3, <1>4 DEF Shape, NobodyStranded
<1>6. ASSUME NEW k \in Jobs PROVE stage'[k] = "queued" <=> \E i \in DOMAIN queue' : queue'[i] = k
  BY <1>3, <1>4 DEF Shape, NobodyStranded, EnqueueBuffered
<1>7. \E k \in Jobs : stage'[k] \in Turn
  BY DEF Shape, SingleDrainer, EnqueueBuffered, Busy, Turn, Preparing
<1> QED
  BY <1>1, <1>5, <1>6, <1>7 DEF Shape, NobodyStranded

(* The end of a turn passes it to the first in the queue. *)
LEMMA ShapeDrainNext == ASSUME TypeOK, Shape, NEW j \in Jobs, DrainNext(j) PROVE Shape'
<1> USE DEF TypeOK, QueueType
<1> DEFINE h == Head(queue)
<1>1. /\ Len(queue) \in Nat \ {0}
      /\ DOMAIN queue = 1 .. Len(queue)
      /\ h = queue[1] /\ h \in Jobs
  BY DEF DrainNext, Drained
<1>2. /\ DOMAIN queue' = 1 .. Len(queue) - 1
      /\ \A i \in DOMAIN queue' : queue'[i] = queue[i + 1]
  BY <1>1 DEF DrainNext, NextItem
<1>3. stage[h] = "queued" /\ stage[j] = "draining" /\ h # j
  <2>1. 1 \in DOMAIN queue /\ queue[1] = h /\ h \in Jobs
    BY <1>1
  <2>2. stage[h] = "queued"
    BY <2>1 DEF Shape, NobodyStranded
  <2>3. stage[j] = "draining"
    BY DEF DrainNext
  <2> QED
    BY <2>2, <2>3
<1>4. stage' = [stage EXCEPT ![j] = "done", ![h] = "picked"]
  BY DEF DrainNext, NextItem
<1>5. SingleDrainer'
  <2>1. \A k \in Jobs : stage[k] \in Turn <=> k = j
    BY <1>3 DEF Shape, SingleDrainer, Turn
  <2>2. \A k \in Jobs : stage'[k] \in Turn <=> k = h
    BY <1>1, <1>3, <1>4, <2>1 DEF Turn, Preparing
  <2>3. processing' = processing /\ processing
    BY <2>1 DEF DrainNext, Shape, SingleDrainer
  <2> QED
    BY <1>1, <2>2, <2>3 DEF SingleDrainer
<1>6. \A i, k \in DOMAIN queue' : queue'[i] = queue'[k] => i = k
  <2>1. ASSUME NEW i \in DOMAIN queue', NEW k \in DOMAIN queue', queue'[i] = queue'[k] PROVE i = k
    <3>1. i \in Nat /\ k \in Nat /\ i + 1 \in DOMAIN queue /\ k + 1 \in DOMAIN queue /\ queue[i + 1] = queue[k + 1]
      BY <1>1, <1>2, <2>1
    <3>2. i + 1 = k + 1
      BY <3>1 DEF Shape, NobodyStranded
    <3> QED
      BY <3>1, <3>2
  <2> QED
    BY <2>1
<1>7. ASSUME NEW k \in Jobs PROVE stage'[k] = "queued" <=> \E i \in DOMAIN queue' : queue'[i] = k
  <2>1. stage'[k] = "queued" <=> stage[k] = "queued" /\ k # h
    BY <1>1, <1>3, <1>4
  <2>2. stage[k] = "queued" <=> \E i \in DOMAIN queue : queue[i] = k
    BY DEF Shape, NobodyStranded
  <2>3. k # h <=> queue[1] # k
    BY <1>1
  <2>4. ASSUME NEW i \in DOMAIN queue, queue[i] = k, k # h PROVE \E n \in DOMAIN queue' : queue'[n] = k
    <3>1. i - 1 \in DOMAIN queue' /\ queue'[i - 1] = k
      BY <1>1, <1>2, <2>3, <2>4
    <3> QED
      BY <3>1
  <2>5. ASSUME NEW i \in DOMAIN queue', queue'[i] = k PROVE k # h /\ \E n \in DOMAIN queue : queue[n] = k
    <3>1. i + 1 \in DOMAIN queue /\ queue[i + 1] = k /\ i + 1 # 1
      BY <1>1, <1>2, <2>5
    <3>2. 1 \in DOMAIN queue
      BY <1>1
    <3> QED
      BY <1>1, <3>1, <3>2 DEF Shape, NobodyStranded
  <2> QED
    BY <2>1, <2>2, <2>4, <2>5
<1>8. \E k \in Jobs : stage'[k] \in Turn
  BY <1>1, <1>4 DEF Turn, Preparing
<1> QED
  BY <1>5, <1>6, <1>7, <1>8 DEF Shape, NobodyStranded

(* Every step keeps one drainer at most and nobody stranded. *)
LEMMA ShapeNext == TypeOK /\ Shape /\ [Next]_vars => Shape'
<1> SUFFICES ASSUME TypeOK, Shape, [Next]_vars PROVE Shape'
  OBVIOUS
<1> USE DEF TypeOK, QueueType, Shape
<1>1. ASSUME NEW j \in Jobs, EnqueueDirect(j) PROVE Shape'
  <2>1. SingleDrainer'
    BY <1>1 DEF SingleDrainer, EnqueueDirect, Busy, Turn, Preparing
  <2>2. queue = <<>>
    BY <1>1 DEF SingleDrainer, NobodyStranded, EnqueueDirect, Busy
  <2>3. NobodyStranded'
    BY <1>1, <2>2 DEF NobodyStranded, EnqueueDirect
  <2> QED
    BY <2>1, <2>3
<1>2. ASSUME NEW j \in Jobs, DrainEmpty(j) PROVE Shape'
  BY <1>2 DEF SingleDrainer, NobodyStranded, DrainEmpty, Drained, Turn, Preparing
<1>3. ASSUME NEW j \in Jobs, MovesInTurn(j) PROVE Shape'
  BY <1>3 DEF SingleDrainer, NobodyStranded, MovesInTurn, Turn, Preparing
<1>4. CASE Restart
  BY <1>4 DEF SingleDrainer, NobodyStranded, Restart, Turn, Preparing
<1>5. CASE LeavesTurns
  BY <1>5 DEF SingleDrainer, NobodyStranded, LeavesTurns
<1> QED
  BY <1>1, <1>2, <1>3, <1>4, <1>5, ShapeBuffered, ShapeDrainNext, StepKinds

(* A step leaves every item that may still be checked below the limit. *)
LEMMA PatienceNext == TypeOK /\ Shape /\ Patience /\ [Next]_vars => Patience'
<1> SUFFICES ASSUME TypeOK, Shape, Patience, [Next]_vars,
                    NEW k \in Jobs, stage'[k] \in BeforeEnd
             PROVE  errors'[k] < ErrorLimit
  BY DEF Patience
<1> USE DEF TypeOK, QueueType
<1>1. stage[k] \in BeforeEnd /\ errors'[k] = errors[k] => errors'[k] < ErrorLimit
  BY DEF Patience
<1>2. ASSUME NEW j \in Jobs, EnqueueBuffered(j) \/ EnqueueDirect(j) PROVE errors'[k] < ErrorLimit
  BY <1>1, <1>2 DEF EnqueueBuffered, EnqueueDirect, BeforeEnd
<1>3. ASSUME NEW j \in Jobs, Launching(j) PROVE errors'[k] < ErrorLimit
  BY <1>1, <1>3 DEF Launching, ProviderMissing, LaunchFails, FailJob, HandlerFails, SetInitialStatus,
                    StartLaunch, Spawn, LaunchReturns, EndTurn, BeforeEnd, Preparing
<1>4. ASSUME NEW j \in Jobs, Waiting(j) PROVE errors'[k] < ErrorLimit
  <2>1. CASE WaitSeesTerminal(j) \/ WaitSeesExit(j)
    BY <1>1, <2>1 DEF WaitSeesTerminal, WaitSeesExit, EndTurn, BeforeEnd, Preparing
  <2>2. CASE WaitSeesAlive(j)
    BY LocalQueueAssumption, <1>1, <2>2 DEF WaitSeesAlive, LocalQueueAssumption
  <2>3. CASE WaitCheckFails(j) /\ GivesUp(j)
    BY <1>1, <2>3 DEF WaitCheckFails, EndTurn, BeforeEnd, Preparing
  <2>4. CASE WaitCheckFails(j) /\ ~GivesUp(j)
    BY LocalQueueAssumption, <1>1, <2>4 DEF WaitCheckFails, GivesUp, LocalQueueAssumption
  <2> QED
    BY <1>4, <2>1, <2>2, <2>3, <2>4 DEF Waiting
<1>5. ASSUME NEW j \in Jobs, DrainEmpty(j) PROVE errors'[k] < ErrorLimit
  BY <1>1, <1>5 DEF DrainEmpty, BeforeEnd, Preparing
<1>6. ASSUME NEW j \in Jobs, DrainNext(j) PROVE errors'[k] < ErrorLimit
  <2>1. stage[Head(queue)] = "queued"
    BY <1>6 DEF DrainNext, Drained, Shape, NobodyStranded
  <2> QED
    BY <1>1, <1>6, <2>1 DEF DrainNext, NextItem, BeforeEnd, Preparing
<1>7. CASE Restart
  BY <1>1, <1>7 DEF Restart, BeforeEnd, Turn, Preparing
<1>8. CASE UNCHANGED queueVars
  BY <1>1, <1>8 DEF queueVars
<1>9. ASSUME NEW j \in Jobs, Process(j) \/ UserStops(j) \/ UserDeletes(j) \/ PollCheck(j) \/ PollWrite(j)
      PROVE  UNCHANGED queueVars
  BY <1>9 DEF Process, TrapStarts, SdkWrites, TrapReports, ProcessKilled,
              UserStops, UserDeletes, PollCheck, PollWrite
<1> QED
  BY <1>2, <1>3, <1>4, <1>5, <1>6, <1>7, <1>8, <1>9 DEF Next, Draining, PollCycle, vars

(* The inductive invariant of the queue. *)
QueueInv == TypeOK /\ Shape /\ Patience

(* It holds of the jobs as they are submitted... *)
LEMMA QueueInvInit == Init => QueueInv
<1>1. Init => Patience
  BY LocalQueueAssumption DEF Init, Patience, LocalQueueAssumption
<1>2. Init => Shape
  BY DEF Init, Shape, SingleDrainer, NobodyStranded, Turn, Preparing
<1> QED
  BY <1>1, <1>2, TypeInit DEF QueueInv

(* ... and in every state of every behaviour. *)
LEMMA QueueInvCorrect == Spec => []QueueInv
<1>1. QueueInv /\ [Next]_vars => QueueInv'
  BY TypeNext, ShapeNext, PatienceNext DEF QueueInv
<1> QED
  BY <1>1, QueueInvInit, PTL DEF Spec

(* Every state of every behaviour has values of the declared types; in    *)
(* particular no wait makes more than ErrorLimit failing checks in a row. *)
THEOREM TypeCorrect == Spec => []TypeOK
  BY QueueInvCorrect, PTL DEF QueueInv

(* The test of _processing under the dispatch lock lets one drainer run   *)
(* at most, and the flag is up exactly while it runs, however arrivals,   *)
(* failures and restarts interleave.                                      *)
THEOREM OneDrainer == Spec => []SingleDrainer
  BY QueueInvCorrect, PTL DEF QueueInv, Shape

(* No item waits in the queue while nobody will come back to look at it,  *)
(* and none waits there twice.                                            *)
THEOREM NoneStranded == Spec => []NobodyStranded
  BY QueueInvCorrect, PTL DEF QueueInv, Shape

(* The quota rows: whoever settles a job first, drainer or poller, leaves *)
(* no hold that is counted beside the job's usage.                        *)
THEOREM ChargedOnce == Spec => []NotChargedTwice
<1>1. Init => NotChargedTwice
  BY DEF Init, NotChargedTwice
<1>2. TypeOK /\ NotChargedTwice /\ [Next]_vars => NotChargedTwice'
  <2> SUFFICES ASSUME TypeOK, NotChargedTwice, [Next]_vars PROVE NotChargedTwice'
    OBVIOUS
  <2> USE DEF TypeOK, QuotaType, NotChargedTwice
  <2>1. ASSUME NEW j \in Jobs, FailJob(j) PROVE NotChargedTwice'
    BY <2>1 DEF FailJob
  <2>2. ASSUME NEW j \in Jobs, PollWrite(j) PROVE NotChargedTwice'
    BY <2>2 DEF PollWrite, Converted
  <2>3. CASE UNCHANGED quotaVars
    BY <2>3 DEF quotaVars
  <2>4. ASSUME NEW j \in Jobs,
               \/ EnqueueBuffered(j) \/ EnqueueDirect(j) \/ Waiting(j) \/ Draining(j) \/ Process(j)
               \/ UserStops(j) \/ UserDeletes(j) \/ PollCheck(j)
        PROVE  UNCHANGED quotaVars
    BY <2>4 DEF EnqueueBuffered, EnqueueDirect, Waiting, WaitSeesTerminal, WaitSeesExit, WaitSeesAlive,
                WaitCheckFails, Draining, DrainNext, DrainEmpty, Process, TrapStarts, SdkWrites,
                TrapReports, ProcessKilled, UserStops, UserDeletes, PollCheck
  <2>5. ASSUME NEW j \in Jobs, Launching(j) PROVE FailJob(j) \/ UNCHANGED quotaVars
    BY <2>5 DEF Launching, ProviderMissing, LaunchFails, HandlerFails, SetInitialStatus, StartLaunch,
                Spawn, LaunchReturns
  <2>6. CASE PollCycle \/ Restart \/ UNCHANGED vars
    BY <2>6 DEF PollCycle, Restart, vars, quotaVars
  <2> QED
    BY <2>1, <2>2, <2>3, <2>4, <2>5, <2>6 DEF Next
<1> QED
  BY <1>1, <1>2, TypeCorrect, PTL DEF Spec

(* Why batch processes cannot overlap: a live one is either in the hands  *)
(* of its turn, or its turn ended for a reason that leaves it running.    *)
AliveInHand ==
    \A j \in Jobs \ Interactive : Alive(j) => stage[j] \in {"spawned", "waiting"} \/ released[j] \in Escapes

(* Every step keeps live batch processes in hand or escaped. *)
LEMMA AliveInHandNext == TypeOK /\ Shape /\ AliveInHand /\ [Next]_vars => AliveInHand'
<1> SUFFICES ASSUME TypeOK, Shape, AliveInHand, [Next]_vars,
                    NEW k \in Jobs \ Interactive, Alive(k)'
             PROVE  stage'[k] \in {"spawned", "waiting"} \/ released'[k] \in Escapes
  BY DEF AliveInHand
<1> DEFINE InHand == stage[k] \in {"spawned", "waiting"} \/ released[k] \in Escapes
<1> USE DEF TypeOK, QueueType, ProcType
<1>1. Alive(k) => InHand
  BY DEF AliveInHand
<1>2. ASSUME NEW j \in Jobs, EnqueueBuffered(j) \/ EnqueueDirect(j) \/ DrainEmpty(j) PROVE InHand'
  BY <1>1, <1>2 DEF EnqueueBuffered, EnqueueDirect, DrainEmpty, procVars, Alive
<1>3. ASSUME NEW j \in Jobs, Launching(j) PROVE InHand'
  <2>1. CASE FailJob(j)
    BY <1>1, <2>1 DEF FailJob, EndTurn, Escapes, procVars, Alive
  <2>2. CASE HandlerFails(j)
    BY <1>1, <2>2 DEF HandlerFails, EndTurn, Escapes, procVars, Alive
  <2>3. CASE SetInitialStatus(j) \/ StartLaunch(j)
    BY <1>1, <2>3 DEF SetInitialStatus, StartLaunch, procVars, Alive
  <2>4. CASE Spawn(j)
    BY <1>1, <2>4 DEF Spawn, Alive
  <2>5. CASE LaunchReturns(j)
    BY <1>1, <2>5 DEF LaunchReturns, EndTurn, Alive
  <2> QED
    BY <1>3, <2>1, <2>2, <2>3, <2>4, <2>5 DEF Launching, ProviderMissing, LaunchFails
<1>4. ASSUME NEW j \in Jobs, Waiting(j) PROVE InHand'
  <2>1. CASE WaitSeesTerminal(j)
    BY <1>1, <2>1 DEF WaitSeesTerminal, EndTurn, Escapes, procVars, Alive
  <2>2. CASE WaitSeesExit(j)
    BY <1>1, <2>2 DEF WaitSeesExit, EndTurn, Exited, procVars, Alive
  <2>3. CASE WaitSeesAlive(j)
    BY <1>1, <2>3 DEF WaitSeesAlive, procVars, Alive
  <2>4. CASE WaitCheckFails(j)
    BY <1>1, <2>4 DEF WaitCheckFails, EndTurn, Escapes, procVars, Alive
  <2> QED
    BY <1>4, <2>1, <2>2, <2>3, <2>4 DEF Waiting
<1>5. ASSUME NEW j \in Jobs, DrainNext(j) PROVE InHand'
  <2>1. stage[Head(queue)] = "queued"
    BY <1>5 DEF DrainNext, Drained, Shape, NobodyStranded
  <2> QED
    BY <1>1, <1>5, <2>1 DEF DrainNext, NextItem, procVars, Alive
<1>6. CASE Restart
  BY <1>1, <1>6 DEF Restart, Turn, Preparing, Escapes, procVars, Alive
<1>7. ASSUME NEW j \in Jobs, Process(j) PROVE InHand'
  BY <1>1, <1>7 DEF Process, TrapStarts, SdkWrites, TrapReports, ProcessKilled, queueVars, procVars, Alive
<1>8. ASSUME NEW j \in Jobs, UserStops(j) \/ UserDeletes(j) \/ PollCheck(j) \/ PollWrite(j) PROVE InHand'
  BY <1>1, <1>8 DEF UserStops, UserDeletes, PollCheck, PollWrite, queueVars, procVars, Alive
<1>9. CASE PollCycle \/ UNCHANGED vars
  BY <1>1, <1>9 DEF PollCycle, vars, queueVars, procVars, Alive
<1> QED
  BY <1>2, <1>3, <1>4, <1>5, <1>6, <1>7, <1>8, <1>9 DEF Next, Draining

(* Two batch processes of the local provider are alive at once only if a  *)
(* turn of theirs ended early, whatever the process, the poller, users    *)
(* and restarts do.                                                       *)
THEOREM BatchJobsSerial == Spec => []SerialUnlessEscaped
<1>1. Init => AliveInHand
  BY DEF Init, AliveInHand, Alive
<1>2. QueueInv /\ AliveInHand => SerialUnlessEscaped
  BY DEF QueueInv, Shape, SingleDrainer, AliveInHand, SerialUnlessEscaped, Turn, Preparing
<1> QED
  BY <1>1, <1>2, AliveInHandNext, QueueInvCorrect, PTL DEF Spec, QueueInv

(* The item whose turn it is, in terms of the stages st of all items. *)
LEMMA TheItem ==
    ASSUME NEW st, NEW h \in Jobs, \A k \in Jobs : st[k] \in Turn <=> k = h
    PROVE  (IF \E k \in Jobs : st[k] \in Turn THEN CHOOSE k \in Jobs : st[k] \in Turn ELSE NoJob) = h
<1>1. (CHOOSE k \in Jobs : st[k] \in Turn) = h
  <2>1. \E k \in Jobs : st[k] \in Turn
    OBVIOUS
  <2>2. (CHOOSE k \in Jobs : st[k] \in Turn) \in Jobs /\ st[CHOOSE k \in Jobs : st[k] \in Turn] \in Turn
    BY <2>1
  <2> QED
    BY <2>2
<1> QED
  BY <1>1

(* Every step of the queue is a step of the FIFO server, or of neither. *)
LEMMA FifoStep == TypeOK /\ Shape /\ Shape' /\ [Next]_vars => [Fifo!FifoNext]_Fifo!fifoVars
<1> SUFFICES ASSUME TypeOK, Shape, Shape', [Next]_vars PROVE [Fifo!FifoNext]_Fifo!fifoVars
  OBVIOUS
<1> USE DEF TypeOK, QueueType
<1> DEFINE Current(st) == IF \E k \in Jobs : st[k] \in Turn THEN CHOOSE k \in Jobs : st[k] \in Turn ELSE NoJob
<1>1. CurrentItem = Current(stage) /\ CurrentItem' = Current(stage')
  BY DEF CurrentItem
<1>2. ASSUME NEW j \in Jobs, stage[j] \in Turn PROVE CurrentItem = j
  <2>1. \A k \in Jobs : stage[k] \in Turn <=> k = j
    BY <1>2 DEF Shape, SingleDrainer
  <2> QED
    BY <1>1, <2>1, TheItem
<1>3. ASSUME NEW j \in Jobs, stage'[j] \in Turn PROVE CurrentItem' = j
  <2>1. \A k \in Jobs : stage'[k] \in Turn <=> k = j
    BY <1>3 DEF Shape, SingleDrainer
  <2> QED
    BY <1>1, <2>1, TheItem
<1>4. ~processing => CurrentItem = NoJob
  BY <1>1 DEF Shape, SingleDrainer
<1>5. ~processing' => CurrentItem' = NoJob
  BY <1>1 DEF Shape, SingleDrainer
<1> HIDE DEF Current
<1>6. ASSUME NEW j \in Jobs, EnqueueBuffered(j) PROVE Fifo!FifoNext
  <2>1. PICK k \in Jobs : stage[k] \in Turn /\ k # j
    BY <1>6 DEF EnqueueBuffered, Busy, Shape, SingleDrainer, Turn, Preparing
  <2>2. CurrentItem = k /\ CurrentItem' = k
    BY <1>2, <1>3, <1>6, <2>1 DEF EnqueueBuffered
  <2>3. k # NoJob
    BY LocalQueueAssumption DEF LocalQueueAssumption
  <2>4. Fifo!Arrive(j)
    BY <1>6, <2>2, <2>3 DEF EnqueueBuffered, Fifo!Arrive
  <2> QED
    BY <2>4 DEF Fifo!FifoNext
<1>7. ASSUME NEW j \in Jobs, EnqueueDirect(j) PROVE Fifo!FifoNext
  <2>1. CurrentItem = NoJob
    BY <1>4, <1>7 DEF EnqueueDirect, Busy
  <2>2. stage'[j] = "picked" /\ queue = <<>> /\ queue' = queue
    BY <1>7 DEF EnqueueDirect, Busy, Shape, SingleDrainer, NobodyStranded
  <2>3. CurrentItem' = j
    BY <1>3, <2>2 DEF Turn, Preparing
  <2>4. Fifo!Arrive(j)
    BY <2>1, <2>2, <2>3 DEF Fifo!Arrive
  <2> QED
    BY <2>4 DEF Fifo!FifoNext
<1>8. ASSUME NEW j \in Jobs, DrainNext(j) PROVE Fifo!FifoNext
  <2>1. CurrentItem = j
    BY <1>2, <1>8 DEF DrainNext, Turn
  <2>2. Head(queue) \in Jobs /\ stage'[Head(queue)] = "picked" /\ queue # <<>> /\ queue' = Tail(queue)
    BY <1>8 DEF DrainNext, Drained, NextItem
  <2>3. CurrentItem' = Head(queue)
    BY <1>3, <2>2 DEF Turn, Preparing
  <2>4. j # NoJob
    BY LocalQueueAssumption DEF LocalQueueAssumption
  <2> QED
    BY <2>1, <2>2, <2>3, <2>4 DEF Fifo!FifoNext, Fifo!Advance
<1>9. ASSUME NEW j \in Jobs, DrainEmpty(j) PROVE Fifo!FifoNext
  <2>1. CurrentItem = j /\ queue = <<>> /\ queue' = queue
    BY <1>2, <1>9 DEF DrainEmpty, Drained, Turn
  <2>2. CurrentItem' = NoJob
    BY <1>5, <1>9 DEF DrainEmpty
  <2>3. j # NoJob
    BY LocalQueueAssumption DEF LocalQueueAssumption
  <2> QED
    BY <2>1, <2>2, <2>3 DEF Fifo!FifoNext, Fifo!Advance
<1>10. CASE Restart
  <2>1. CurrentItem' = NoJob /\ queue' = <<>>
    BY <1>5, <1>10 DEF Restart
  <2> QED
    BY <2>1 DEF Fifo!FifoNext, Fifo!Forget
<1>11. ASSUME NEW j \in Jobs, MovesInTurn(j) PROVE UNCHANGED Fifo!fifoVars
  <2>1. CurrentItem = j /\ CurrentItem' = j
    BY <1>2, <1>3, <1>11 DEF MovesInTurn
  <2> QED
    BY <1>11, <2>1 DEF MovesInTurn, Fifo!fifoVars
<1>12. CASE LeavesTurns
  BY <1>1, <1>12 DEF LeavesTurns, Fifo!fifoVars
<1> QED
  BY <1>6, <1>7, <1>8, <1>9, <1>10, <1>11, <1>12, StepKinds

(* The drainer, its lock and its executor implement a FIFO server with a  *)
(* single server that restarts empty.                                     *)
THEOREM QueueIsFifo == Spec => ServesInOrder
<1>1. Init => Fifo!FifoInit
  BY DEF Init, Fifo!FifoInit, CurrentItem, Turn, Preparing
<1> QED
  BY <1>1, FifoStep, QueueInvCorrect, PTL DEF Spec, QueueInv, ServesInOrder, Fifo!FifoSpec
===============================================================================
