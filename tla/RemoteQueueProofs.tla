--------------------------- MODULE RemoteQueueProofs ---------------------------
(***************************************************************************)
(* Theorems about RemoteQueue, for any jobs, any number of launches at     *)
(* once, and any number of faults, restarts and requests.                  *)
(***************************************************************************)
EXTENDS RemoteQueue, WellFoundedInduction, FiniteSetTheorems, TLAPS

-------------------------------------------------------------------------------
(* What the query answers.  Among is a recursive function: that it is      *)
(* defined, and what it contains, are inductions, here on sets of naturals. *)

Below == {p \in Nat \X Nat : p[1] < p[2]}

(* A set of naturals with 0 and every successor has them all. *)
LEMMA SetInduction ==
    ASSUME NEW T, 0 \in T, \A n \in Nat : n \in T => n + 1 \in T
    PROVE  \A n \in Nat : n \in T
<1>1. IsWellFoundedOn(Below, Nat)
  BY NatLessThanWellFounded DEF OpToRel, Below
<1> SUFFICES ASSUME Nat \ T # {} PROVE FALSE
  OBVIOUS
<1>2. PICK x \in Nat \ T : \A y \in Nat \ T : ~ (<<y, x>> \in Below)
  <2>1. Nat \ T \subseteq Nat
    OBVIOUS
  <2> QED
    BY ONLY <1>1, <2>1, Nat \ T # {}, WFMin, Zenon
<1>3. x - 1 \in Nat /\ x - 1 \in T
  <2>1. x \in Nat /\ x # 0
    OBVIOUS
  <2>2. x - 1 \in Nat /\ x - 1 < x
    BY <2>1
  <2> QED
    BY <1>2, <2>1, <2>2 DEF Below
<1>4. (x - 1) + 1 \in T
  BY <1>3
<1> QED
  BY <1>2, <1>4

(* The recursive function in Among exists. *)
LEMMA AmongDef ==
    ASSUME NEW S, NEW s \in Seq(S), NEW K
    PROVE  \E f : /\ f = [i \in 0 .. Len(s) |-> IF i = 0 THEN <<>>
                             ELSE IF s[i] \in K THEN Append(f[i - 1], s[i]) ELSE f[i - 1]]
                  /\ Among(s, K) = f[Len(s)]
<1> DEFINE Step(f, i) == IF i = 0 THEN <<>> ELSE IF s[i] \in K THEN Append(f[i - 1], s[i]) ELSE f[i - 1]
           Defined == {n \in Nat : \E f : f = [i \in 0 .. n |-> Step(f, i)]}
           F == CHOOSE f : f = [i \in 0 .. Len(s) |-> Step(f, i)]
<1>1. 0 \in Defined
  <2> DEFINE g == [i \in 0 .. 0 |-> <<>>]
  <2>1. g = [i \in 0 .. 0 |-> Step(g, i)]
    OBVIOUS
  <2> QED
    BY <2>1
<1>2. ASSUME NEW n \in Nat, n \in Defined PROVE n + 1 \in Defined
  <2>1. PICK f : f = [i \in 0 .. n |-> Step(f, i)]
    BY <1>2
  <2> DEFINE g == [i \in 0 .. n + 1 |-> IF i = n + 1 THEN Step(f, n + 1) ELSE f[i]]
  <2>2. ASSUME NEW i \in 0 .. n + 1 PROVE g[i] = Step(g, i)
    <3>1. CASE i = 0
      BY <2>1, <3>1
    <3>2. CASE i # 0
      <4>1. i - 1 \in 0 .. n /\ g[i - 1] = f[i - 1]
        BY <3>2
      <4>2. Step(g, i) = Step(f, i)
        BY <3>2, <4>1
      <4> HIDE DEF Step
      <4>3. g[i] = Step(f, i)
        <5>1. CASE i = n + 1
          BY <5>1
        <5>2. CASE i \in 0 .. n
          BY <2>1, <5>2
        <5> QED
          BY <5>1, <5>2
      <4> QED
        BY <4>2, <4>3
    <3> QED
      BY <3>1, <3>2
  <2> HIDE DEF Step
  <2>3. g = [i \in 0 .. n + 1 |-> Step(g, i)]
    BY <2>2
  <2> HIDE DEF g
  <2> QED
    BY <2>3
<1>3. Len(s) \in Defined
  <2> HIDE DEF Defined
  <2> QED
    BY <1>1, <1>2, SetInduction
<1>4. PICK f : f = [i \in 0 .. Len(s) |-> Step(f, i)]
  BY <1>3
<1>5. F = [i \in 0 .. Len(s) |-> Step(F, i)]
  BY <1>4, Zenon
<1>6. Among(s, K) = F[Len(s)]
  BY DEF Among
<1> QED
  BY <1>5, <1>6

(* It answers rows of the table that are in K, each once if the table has  *)
(* each once.                                                              *)
LEMMA AmongRows ==
    ASSUME NEW S, NEW s \in Seq(S), NEW K
    PROVE  /\ Among(s, K) \in Seq(S)
           /\ \A i \in DOMAIN Among(s, K) : Among(s, K)[i] \in K
           /\ (\A i, k \in DOMAIN s : s[i] = s[k] => i = k)
                 => \A i, k \in DOMAIN Among(s, K) : Among(s, K)[i] = Among(s, K)[k] => i = k
<1>1. PICK f : /\ f = [i \in 0 .. Len(s) |-> IF i = 0 THEN <<>>
                           ELSE IF s[i] \in K THEN Append(f[i - 1], s[i]) ELSE f[i - 1]]
               /\ Among(s, K) = f[Len(s)]
  BY AmongDef
<1> DEFINE Good(n) ==
              /\ f[n] \in Seq(S)
              /\ \A i \in DOMAIN f[n] : f[n][i] \in K /\ \E m \in 1 .. n : f[n][i] = s[m]
              /\ (\A i, k \in DOMAIN s : s[i] = s[k] => i = k)
                    => \A i, k \in DOMAIN f[n] : f[n][i] = f[n][k] => i = k
           All == {n \in Nat : n <= Len(s) => Good(n)}
<1>2. 0 \in All
  <2>1. f[0] = <<>>
    BY <1>1
  <2>2. f[0] \in Seq(S) /\ DOMAIN f[0] = {}
    BY <2>1
  <2>3. Good(0)
    BY <2>2
  <2> HIDE DEF Good
  <2> QED
    BY <2>3
<1>3. ASSUME NEW n \in Nat, n \in All PROVE n + 1 \in All
  <2> SUFFICES ASSUME n + 1 <= Len(s) PROVE Good(n + 1)
    OBVIOUS
  <2>1. Good(n)
    BY <1>3
  <2>2. f[n + 1] = IF s[n + 1] \in K THEN Append(f[n], s[n + 1]) ELSE f[n]
    <3>1. n + 1 \in 0 .. Len(s) /\ n + 1 # 0 /\ (n + 1) - 1 = n
      OBVIOUS
    <3> QED
      BY <1>1, <3>1
  <2>3. s[n + 1] \in S /\ n + 1 \in DOMAIN s
    OBVIOUS
  <2>4. CASE s[n + 1] \notin K
    BY <2>1, <2>2, <2>4
  <2>5. CASE s[n + 1] \in K
    <3>1. f[n + 1] = Append(f[n], s[n + 1])
      BY <2>2, <2>5
    <3>2. f[n + 1] \in Seq(S) /\ Len(f[n + 1]) = Len(f[n]) + 1
      BY <2>1, <2>3, <3>1
    <3>3. \A i \in DOMAIN f[n + 1] : f[n + 1][i] = IF i = Len(f[n]) + 1 THEN s[n + 1] ELSE f[n][i]
      BY <2>1, <2>3, <3>1
    <3>4. \A i \in DOMAIN f[n + 1] : i = Len(f[n]) + 1 \/ i \in DOMAIN f[n]
      BY <2>1, <3>2
    <3>5. \A i \in DOMAIN f[n + 1] : f[n + 1][i] \in K /\ \E m \in 1 .. n + 1 : f[n + 1][i] = s[m]
      BY <2>1, <2>5, <3>3, <3>4
    <3>6. ASSUME \A i, k \in DOMAIN s : s[i] = s[k] => i = k,
                 NEW i \in DOMAIN f[n + 1], NEW k \in DOMAIN f[n + 1], f[n + 1][i] = f[n + 1][k]
          PROVE  i = k
      <4>1. \A m \in 1 .. n : m \in DOMAIN s /\ s[m] # s[n + 1]
        BY <2>3, <3>6
      <4>2. \A j \in DOMAIN f[n] : f[n][j] # s[n + 1]
        BY <2>1, <4>1
      <4> QED
        BY <2>1, <3>3, <3>4, <3>6, <4>2
    <3> QED
      BY <3>2, <3>5, <3>6
  <2> QED
    BY <2>4, <2>5
<1>4. Len(s) \in All
  <2> HIDE DEF All
  <2> QED
    BY <1>2, <1>3, SetInduction
<1> QED
  BY <1>1, <1>4
-------------------------------------------------------------------------------
(* The inductive invariant.                                                *)

(* Before its request a job has left no trace. *)
Fresh ==
    \A j \in Jobs : request[j] = "new" =>
        /\ task[j] = "none" /\ status[j] = "NONE" /\ cluster[j] = "none"
        /\ hold[j] = "none" /\ ~usage[j] /\ poll[j] = "idle"

(* The table has the enqueued jobs, each once. *)
TableShape ==
    /\ \A j \in Jobs : row[j] = "none" <=> request[j] # "enqueued"
    /\ \A i \in DOMAIN table : row[table[i]] # "none"
    /\ \A i, k \in DOMAIN table : table[i] = table[k] => i = k

(* What the worker has still to mark is PENDING, what it has marked and not *)
(* yet loaded is DISPATCHED, and nothing is in its hands twice.             *)
BatchShape ==
    /\ worker = "poll" <=> batch = <<>>
    /\ \A i \in DOMAIN batch : i > 1 \/ worker = "mark" => row[batch[i]] = "PENDING"
    /\ worker = "load" => row[batch[1]] = "DISPATCHED"
    /\ \A i, k \in DOMAIN batch : batch[i] = batch[k] => i = k

(* A job has its launch task after the worker let go of it, and a cluster   *)
(* after the task has launched one.                                         *)
Hands ==
    \A j \in Jobs :
        /\ row[j] \in {"none", "PENDING"} \/ InHand(j) => task[j] = "none"
        /\ launches[j] > 0 => task[j] = "launched" \/ task[j] \in Ended
        /\ task[j] = "launched" => launches[j] > 0

QueueInv == TypeOK /\ Fresh /\ TableShape /\ BatchShape /\ Hands /\ HoldsSettled

(* The row in the worker's hands. *)
LEMMA CurrentRow ==
    ASSUME TypeOK, BatchShape, worker # "poll"
    PROVE  /\ batch # <<>> /\ Current = batch[1] /\ Current \in Jobs /\ 1 \in DOMAIN batch
           /\ Tail(batch) \in Seq(Jobs)
           /\ \A i \in DOMAIN Tail(batch) : i + 1 \in DOMAIN batch /\ Tail(batch)[i] = batch[i + 1]
<1>1. batch \in Seq(Jobs) /\ batch # <<>>
  BY DEF TypeOK, WorkerType, BatchShape
<1> QED
  BY <1>1 DEF Current

LEMMA TypeInit == Init => QueueInv
  BY RemoteQueueAssumption
  DEF RemoteQueueAssumption, Init, QueueInv, TypeOK, RequestType, TableType, WorkerType, TaskType, StatusType,
      ClusterType, QuotaType, PollType, BoundType, Status, Fresh, TableShape, BatchShape, Hands, HoldsSettled, Ended,
      InHand, Current

(* Variables keep their types. *)
LEMMA TypeStep == TypeOK /\ BatchShape /\ [Next]_vars => TypeOK'
<1> SUFFICES ASSUME TypeOK, BatchShape, [Next]_vars PROVE TypeOK'
  OBVIOUS
<1> USE DEF TypeOK, RequestType, TableType, WorkerType, TaskType, StatusType, ClusterType, QuotaType, PollType, BoundType
<1>0. /\ MaxFaults \in Nat /\ MaxRestarts \in Nat /\ MaxRequests \in Nat
      /\ \A j \in Jobs : InitialStatus(j) \in Status
  BY RemoteQueueAssumption DEF RemoteQueueAssumption, InitialStatus, Status
<1>1. ASSUME NEW j \in Jobs, CreateJob(j) PROVE TypeOK'
  BY <1>0, <1>1 DEF CreateJob, workerVars, clusterVars, boundVars
<1>2. ASSUME NEW j \in Jobs, Reject(j) PROVE TypeOK'
  BY <1>2 DEF Reject, workerVars, clusterVars, quotaVars, boundVars
<1>3. ASSUME NEW j \in Jobs, EnqueueRemote(j) PROVE TypeOK'
  BY <1>3 DEF EnqueueRemote, workerVars, clusterVars, quotaVars, boundVars
<1>4. CASE PollTable
  <2>1. batch' \in Seq(Jobs)
    BY <1>4, AmongRows DEF PollTable
  <2> QED
    BY <1>4, <2>1 DEF PollTable, tableVars, clusterVars, quotaVars, boundVars
<1>5. CASE MarkDispatched
  BY <1>5, CurrentRow DEF MarkDispatched, Marked, clusterVars, quotaVars, boundVars
<1>6. CASE DatabaseFails
  BY <1>0, <1>6 DEF DatabaseFails, CycleFails, tableVars, clusterVars, quotaVars
<1>7. CASE JobNotFound
  BY <1>0, <1>7, CurrentRow DEF JobNotFound, NextEntry, clusterVars, quotaVars
<1>8. CASE JobIncomplete
  <2>1. hold' \in [Jobs -> {"none", "HELD", "RELEASED", "CONVERTED"}]
    BY <1>8, CurrentRow DEF JobIncomplete, Converted
  <2>2. Current \in Jobs /\ Tail(batch) \in Seq(Jobs)
    BY <1>8, CurrentRow DEF JobIncomplete
  <2>3. status' \in [Jobs -> Status] /\ usage' \in [Jobs -> BOOLEAN]
    BY <1>8, <2>2 DEF JobIncomplete, Status
  <2>4. /\ batch' \in Seq(Jobs) /\ worker' \in {"poll", "mark", "load"} /\ faults' \in 0 .. MaxFaults
        /\ row' \in [Jobs -> {"none", "PENDING", "DISPATCHED", "FAILED"}]
    BY <1>0, <1>8, <2>2 DEF JobIncomplete, NextEntry
  <2> QED
    BY <1>8, <2>1, <2>3, <2>4 DEF JobIncomplete, clusterVars
<1>9. CASE Dispatch
  BY <1>9, CurrentRow DEF Dispatch, NextEntry, tableVars, clusterVars, quotaVars, boundVars
<1>10. ASSUME NEW j \in Jobs, AcquireSlot(j) PROVE TypeOK'
  BY <1>10 DEF AcquireSlot, tableVars, workerVars, clusterVars, quotaVars, boundVars, Holding
<1>11. ASSUME NEW j \in Jobs, ProviderMissing(j) PROVE TypeOK'
  BY <1>11 DEF ProviderMissing, tableVars, workerVars, clusterVars, boundVars, Ended, Status
<1>12. ASSUME NEW j \in Jobs, TaskCrashes(j) PROVE TypeOK'
  BY <1>0, <1>12 DEF TaskCrashes, tableVars, workerVars, clusterVars, quotaVars, Ended
<1>13. ASSUME NEW j \in Jobs, StartLaunch(j) PROVE TypeOK'
  BY <1>13 DEF StartLaunch, tableVars, workerVars, clusterVars, quotaVars, boundVars, Holding
<1>14. ASSUME NEW j \in Jobs, ClusterComesUp(j) PROVE TypeOK'
  BY <1>14 DEF ClusterComesUp, tableVars, workerVars, quotaVars, boundVars, Holding
<1>15. ASSUME NEW j \in Jobs, LaunchFails(j) PROVE TypeOK'
  BY <1>15 DEF LaunchFails, Released, tableVars, workerVars, clusterVars, boundVars, Ended, Status
<1>16. ASSUME NEW j \in Jobs, ReportLaunched(j) PROVE TypeOK'
  BY <1>0, <1>16 DEF ReportLaunched, tableVars, workerVars, clusterVars, quotaVars, boundVars, Ended
<1>17. ASSUME NEW j \in Jobs, JobRuns(j) PROVE TypeOK'
  BY <1>17 DEF JobRuns, tableVars, workerVars, clusterVars, quotaVars, boundVars, Status
<1>18. ASSUME NEW j \in Jobs, PollWrites(j) PROVE TypeOK'
  BY <1>18 DEF PollWrites, Converted, tableVars, workerVars, clusterVars, boundVars, Status, TerminalStatuses
<1>19. ASSUME NEW j \in Jobs, UserStops(j) PROVE TypeOK'
  BY <1>0, <1>19 DEF UserStops, tableVars, workerVars, quotaVars, Status
<1>20. ASSUME NEW j \in Jobs, UserDeletes(j) PROVE TypeOK'
  BY <1>0, <1>20 DEF UserDeletes, tableVars, workerVars, clusterVars, quotaVars, Status
<1>21. ASSUME NEW j \in Jobs, NEW v \in {"STOPPED", "COMPLETE", "FAILED"}, PollDecides(j, v) PROVE TypeOK'
  BY <1>21 DEF PollDecides, tableVars, workerVars, clusterVars, quotaVars, boundVars, TerminalStatuses
<1>22. CASE Restart
  BY <1>0, <1>22 DEF Restart, clusterVars, quotaVars, Ended
<1>23. CASE UNCHANGED vars
  BY <1>23 DEF vars, tableVars, workerVars, clusterVars, quotaVars, boundVars
<1> QED
  BY <1>1, <1>2, <1>3, <1>4, <1>5, <1>6, <1>7, <1>8, <1>9, <1>10, <1>11, <1>12, <1>13, <1>14, <1>15, <1>16, <1>17,
     <1>18, <1>19, <1>20, <1>21, <1>22, <1>23 DEF Next, Worker, Task, Around

(* Requests that are rejected, launch tasks and whoever is around leave the *)
(* table and the worker alone.                                              *)
LEMMA QueueUntouched ==
    ASSUME NEW j \in Jobs, CreateJob(j) \/ Reject(j) \/ Task(j) \/ Around(j)
    PROVE  UNCHANGED <<table, row, worker, batch>>
  BY DEF CreateJob, Reject, Task, Around, AcquireSlot, ProviderMissing, TaskCrashes, StartLaunch, ClusterComesUp,
         LaunchFails, ReportLaunched, JobRuns, PollWrites, UserStops, UserDeletes, PollDecides, tableVars, workerVars

(* The cycle's next step after the row in hand. *)
LEMMA NextEntryShape ==
    ASSUME TypeOK, BatchShape, worker = "load", NextEntry, row' \in [Jobs -> {"none", "PENDING", "DISPATCHED", "FAILED"}],
           \A k \in Jobs : k # Current => row'[k] = row[k]
    PROVE  BatchShape'
<1>1. batch \in Seq(Jobs) /\ batch # <<>>
  BY DEF TypeOK, WorkerType, BatchShape
<1>2. /\ Current = batch[1] /\ Current \in Jobs /\ 1 \in DOMAIN batch
      /\ \A i \in DOMAIN Tail(batch) : i + 1 \in DOMAIN batch /\ Tail(batch)[i] = batch[i + 1]
      /\ Tail(batch) \in Seq(Jobs) /\ DOMAIN Tail(batch) \subseteq Nat \ {0}
  BY <1>1 DEF Current
<1>3. batch' = Tail(batch)
  BY DEF NextEntry
<1>4. worker' = "poll" <=> batch' = <<>>
  BY DEF NextEntry
<1>5. \A i \in DOMAIN batch' : row'[batch'[i]] = "PENDING"
  <2> SUFFICES ASSUME NEW i \in DOMAIN batch' PROVE row'[batch'[i]] = "PENDING"
    OBVIOUS
  <2>1. /\ batch'[i] = batch[i + 1] /\ i + 1 \in DOMAIN batch /\ i + 1 > 1 /\ i + 1 # 1
        /\ batch'[i] \in Jobs
    BY <1>1, <1>2, <1>3
  <2>2. batch'[i] # Current /\ row[batch'[i]] = "PENDING"
    BY <1>2, <2>1 DEF BatchShape
  <2> QED
    BY <2>1, <2>2
<1>6. \A i, k \in DOMAIN batch' : batch'[i] = batch'[k] => i = k
  <2> SUFFICES ASSUME NEW i \in DOMAIN batch', NEW k \in DOMAIN batch', batch'[i] = batch'[k] PROVE i = k
    OBVIOUS
  <2>1. i + 1 = k + 1
    BY <1>2, <1>3 DEF BatchShape
  <2> QED
    BY <1>2, <1>3, <2>1
<1>7. worker' # "load"
  BY DEF NextEntry
<1> QED
  BY <1>4, <1>5, <1>6, <1>7 DEF BatchShape

LEMMA BatchStep == TypeOK /\ TableShape /\ BatchShape /\ [Next]_vars => BatchShape'
<1> SUFFICES ASSUME TypeOK, TableShape, BatchShape, [Next]_vars PROVE BatchShape'
  OBVIOUS
<1>0. batch \in Seq(Jobs) /\ table \in Seq(Jobs) /\ row \in [Jobs -> {"none", "PENDING", "DISPATCHED", "FAILED"}]
  BY DEF TypeOK, TableType, WorkerType
<1>1. ASSUME NEW j \in Jobs, CreateJob(j) \/ Reject(j) \/ Task(j) \/ Around(j) PROVE BatchShape'
  BY <1>1, QueueUntouched DEF BatchShape
<1>2. ASSUME NEW j \in Jobs, EnqueueRemote(j) PROVE BatchShape'
  <2>1. row[j] = "none" /\ row' = [row EXCEPT ![j] = "PENDING"] /\ batch' = batch /\ worker' = worker
    BY <1>2 DEF EnqueueRemote, TableShape, workerVars
  <2>2. \A i \in DOMAIN batch : batch[i] \in Jobs
    BY <1>0
  <2>3. \A i \in DOMAIN batch : row'[batch[i]] = row[batch[i]] \/ row'[batch[i]] = "PENDING"
    BY <1>0, <2>1, <2>2
  <2>4. worker = "load" => row[batch[1]] = "DISPATCHED" /\ 1 \in DOMAIN batch
    BY <1>0 DEF BatchShape
  <2>5. worker = "load" => row'[batch[1]] = "DISPATCHED"
    BY <1>0, <2>1, <2>2, <2>4
  <2> QED
    BY <2>1, <2>3, <2>5 DEF BatchShape
<1>3. CASE PollTable
  <2> DEFINE K == {j \in Jobs : Selected(j)}
  <2>1. batch' = Among(table, K) /\ batch' # <<>> /\ worker' = "mark" /\ row' = row
    BY <1>3 DEF PollTable, tableVars
  <2>2. \A i, k \in DOMAIN table : table[i] = table[k] => i = k
    BY DEF TableShape
  <2>3. /\ \A i \in DOMAIN batch' : batch'[i] \in K
        /\ \A i, k \in DOMAIN batch' : batch'[i] = batch'[k] => i = k
    <3> HIDE DEF K
    <3> QED
      BY <1>0, <2>1, <2>2, AmongRows
  <2>4. \A i \in DOMAIN batch' : row'[batch'[i]] = "PENDING"
    BY <2>1, <2>3 DEF Selected
  <2> QED
    BY <2>1, <2>3, <2>4 DEF BatchShape
<1>4. CASE MarkDispatched
  <2>1. /\ worker = "mark" /\ worker' = "load" /\ batch' = batch /\ row' = [row EXCEPT ![batch[1]] = "DISPATCHED"]
        /\ batch[1] \in Jobs /\ 1 \in DOMAIN batch /\ batch # <<>>
    BY <1>4, CurrentRow DEF MarkDispatched, Marked
  <2>2. \A i \in DOMAIN batch : i > 1 => batch[i] # batch[1] /\ batch[i] \in Jobs
    BY <1>0, <2>1 DEF BatchShape
  <2> QED
    BY <1>0, <2>1, <2>2 DEF BatchShape
<1>5. CASE DatabaseFails
  BY <1>5 DEF DatabaseFails, CycleFails, BatchShape
<1>6. CASE JobNotFound
  BY <1>0, <1>6, CurrentRow, NextEntryShape DEF JobNotFound
<1>7. CASE JobIncomplete
  BY <1>0, <1>7, CurrentRow, NextEntryShape DEF JobIncomplete
<1>8. CASE Dispatch
  BY <1>0, <1>8, CurrentRow, NextEntryShape DEF Dispatch, tableVars
<1>9. CASE Restart
  BY <1>9 DEF Restart, BatchShape
<1>10. CASE UNCHANGED vars
  BY <1>10 DEF vars, tableVars, workerVars, BatchShape
<1> QED
  BY <1>1, <1>2, <1>3, <1>4, <1>5, <1>6, <1>7, <1>8, <1>9, <1>10 DEF Next, Worker

LEMMA TableStep == TypeOK /\ TableShape /\ BatchShape /\ [Next]_vars => TableShape'
<1> SUFFICES ASSUME TypeOK, TableShape, BatchShape, [Next]_vars PROVE TableShape'
  OBVIOUS
<1>0. /\ table \in Seq(Jobs) /\ row \in [Jobs -> {"none", "PENDING", "DISPATCHED", "FAILED"}]
      /\ request \in [Jobs -> {"new", "created", "enqueued", "rejected"}]
  BY DEF TypeOK, TableType, RequestType
<1>1. ASSUME NEW j \in Jobs, CreateJob(j) \/ Reject(j) PROVE TableShape'
  <2>1. UNCHANGED <<table, row>>
    BY <1>1, QueueUntouched
  <2> QED
    BY <1>0, <1>1, <2>1 DEF CreateJob, Reject, TableShape
<1>2. ASSUME NEW j \in Jobs, Task(j) \/ Around(j) PROVE TableShape'
  <2>1. UNCHANGED <<table, row, request>>
    BY <1>2
    DEF Task, Around, AcquireSlot, ProviderMissing, TaskCrashes, StartLaunch, ClusterComesUp,
        LaunchFails, ReportLaunched, JobRuns, PollWrites, UserStops, UserDeletes, PollDecides, tableVars
  <2> QED
    BY <2>1 DEF TableShape
<1>3. ASSUME NEW j \in Jobs, EnqueueRemote(j) PROVE TableShape'
  <2>1. /\ request[j] = "created" /\ row[j] = "none" /\ request' = [request EXCEPT ![j] = "enqueued"]
        /\ table' = Append(table, j) /\ row' = [row EXCEPT ![j] = "PENDING"]
    BY <1>3 DEF EnqueueRemote, TableShape
  <2>2. \A i \in DOMAIN table : table[i] # j /\ table[i] \in Jobs
    BY <1>0, <2>1 DEF TableShape
  <2>3. \A i \in DOMAIN table' : \/ i \in DOMAIN table /\ table'[i] = table[i]
                                 \/ i = Len(table) + 1 /\ table'[i] = j
    BY <1>0, <2>1
  <2>4. \A i \in DOMAIN table' : row'[table'[i]] # "none"
    BY <1>0, <2>1, <2>2, <2>3 DEF TableShape
  <2>5. \A i, k \in DOMAIN table' : table'[i] = table'[k] => i = k
    BY <2>2, <2>3 DEF TableShape
  <2> QED
    BY <1>0, <2>1, <2>4, <2>5 DEF TableShape
<1>4. CASE Worker
  <2>1. /\ table' = table /\ request' = request
        /\ \A j \in Jobs : row'[j] = "none" <=> row[j] = "none"
    <3>1. CASE PollTable \/ DatabaseFails \/ Dispatch
      BY <3>1 DEF PollTable, DatabaseFails, Dispatch, tableVars
    <3>2. CASE MarkDispatched
      BY <1>0, <3>2, CurrentRow DEF MarkDispatched, Marked, BatchShape
    <3>3. CASE JobNotFound \/ JobIncomplete
      BY <1>0, <3>3, CurrentRow DEF JobNotFound, JobIncomplete, BatchShape
    <3> QED
      BY <1>4, <3>1, <3>2, <3>3 DEF Worker
  <2>2. \A i \in DOMAIN table : table[i] \in Jobs
    BY <1>0
  <2> QED
    BY <2>1, <2>2 DEF TableShape
<1>5. CASE Restart
  BY <1>0, <1>5 DEF Restart, TableShape
<1>6. CASE UNCHANGED vars
  BY <1>6 DEF vars, tableVars, TableShape
<1> QED
  BY <1>1, <1>2, <1>3, <1>4, <1>5, <1>6 DEF Next

(* The row in hand has no launch task, and was enqueued. *)
LEMMA InHandFresh ==
    ASSUME TypeOK, TableShape, BatchShape, Hands, worker = "load"
    PROVE  /\ Current \in Jobs /\ InHand(Current) /\ task[Current] = "none" /\ launches[Current] = 0
           /\ row[Current] = "DISPATCHED" /\ request[Current] = "enqueued"
<1>1. Current \in Jobs /\ batch # <<>> /\ row[Current] = "DISPATCHED"
  BY CurrentRow DEF BatchShape
<1>2. InHand(Current)
  BY <1>1 DEF InHand
<1>3. task[Current] = "none" /\ launches[Current] \in Nat
  BY <1>1, <1>2 DEF Hands, TypeOK, ClusterType
<1>4. launches[Current] = 0
  BY <1>1, <1>3 DEF Hands, Ended
<1> QED
  BY <1>1, <1>2, <1>3, <1>4 DEF TableShape

LEMMA FreshStep == TypeOK /\ Fresh /\ TableShape /\ BatchShape /\ Hands /\ [Next]_vars => Fresh'
<1> SUFFICES ASSUME TypeOK, Fresh, TableShape, BatchShape, Hands, [Next]_vars PROVE Fresh'
  OBVIOUS
<1> USE DEF Fresh
<1>0. /\ task \in [Jobs -> {"none", "waiting"} \cup Holding \cup Ended] /\ status \in [Jobs -> Status]
      /\ cluster \in [Jobs -> {"none", "up", "gone"}] /\ usage \in [Jobs -> BOOLEAN]
      /\ hold \in [Jobs -> {"none", "HELD", "RELEASED", "CONVERTED"}]
      /\ poll \in [Jobs -> {"idle"} \cup TerminalStatuses]
      /\ request \in [Jobs -> {"new", "created", "enqueued", "rejected"}]
  BY DEF TypeOK, TaskType, StatusType, ClusterType, QuotaType, PollType, RequestType
<1>1. ASSUME NEW j \in Jobs, CreateJob(j) PROVE Fresh'
  BY <1>0, <1>1 DEF CreateJob, workerVars, clusterVars, boundVars
<1>2. ASSUME NEW j \in Jobs, Reject(j) \/ EnqueueRemote(j) PROVE Fresh'
  BY <1>0, <1>2 DEF Reject, EnqueueRemote, workerVars, clusterVars, quotaVars, boundVars
<1>3. CASE PollTable \/ MarkDispatched \/ DatabaseFails \/ JobNotFound
  BY <1>3 DEF PollTable, MarkDispatched, DatabaseFails, JobNotFound, tableVars, clusterVars, quotaVars
<1>4. CASE JobIncomplete
  <2>1. Current \in Jobs /\ request[Current] # "new"
    BY <1>4, InHandFresh DEF JobIncomplete
  <2> QED
    BY <1>0, <1>4, <2>1 DEF JobIncomplete, Converted, clusterVars
<1>5. CASE Dispatch
  <2>1. Current \in Jobs /\ request[Current] # "new"
    BY <1>5, InHandFresh DEF Dispatch
  <2> QED
    BY <1>0, <1>5, <2>1 DEF Dispatch, tableVars, clusterVars, quotaVars
<1>6. ASSUME NEW j \in Jobs, Task(j) PROVE Fresh'
  <2>1. request[j] # "new"
    BY <1>6 DEF Task, AcquireSlot, ProviderMissing, TaskCrashes, StartLaunch, ClusterComesUp, LaunchFails,
                ReportLaunched, Holding
  <2>2. /\ request' = request /\ poll' = poll
        /\ \A k \in Jobs : k # j => /\ task'[k] = task[k] /\ status'[k] = status[k] /\ cluster'[k] = cluster[k]
                                    /\ hold'[k] = hold[k] /\ usage'[k] = usage[k]
    BY <1>0, <1>6
    DEF Task, AcquireSlot, ProviderMissing, TaskCrashes, StartLaunch, ClusterComesUp, LaunchFails, Released,
        ReportLaunched, tableVars, clusterVars, quotaVars
  <2> QED
    BY <2>1, <2>2
<1>7. ASSUME NEW j \in Jobs, Around(j) PROVE Fresh'
  <2>1. request[j] # "new"
    BY <1>7 DEF Around, JobRuns, PollWrites, UserStops, UserDeletes, PollDecides, PolledStatuses
  <2>2. /\ request' = request /\ task' = task
        /\ \A k \in Jobs : k # j => /\ poll'[k] = poll[k] /\ status'[k] = status[k] /\ cluster'[k] = cluster[k]
                                    /\ hold'[k] = hold[k] /\ usage'[k] = usage[k]
    BY <1>0, <1>7
    DEF Around, JobRuns, PollWrites, Converted, UserStops, UserDeletes, PollDecides, tableVars, clusterVars, quotaVars
  <2> QED
    BY <2>1, <2>2
<1>8. CASE Restart
  BY <1>0, <1>8 DEF Restart, clusterVars, quotaVars, Holding
<1>9. CASE UNCHANGED vars
  BY <1>9 DEF vars, tableVars, clusterVars, quotaVars
<1> QED
  BY <1>1, <1>2, <1>3, <1>4, <1>5, <1>6, <1>7, <1>8, <1>9 DEF Next, Worker

(* A launch task that ends without having launched, or moves on. *)
LEMMA HandsStep == TypeOK /\ Fresh /\ TableShape /\ BatchShape /\ Hands /\ [Next]_vars => Hands'
<1> SUFFICES ASSUME TypeOK, Fresh, TableShape, BatchShape, Hands, [Next]_vars, NEW k \in Jobs
             PROVE  /\ row'[k] \in {"none", "PENDING"} \/ InHand(k)' => task'[k] = "none"
                    /\ launches'[k] > 0 => task'[k] = "launched" \/ task'[k] \in Ended
                    /\ task'[k] = "launched" => launches'[k] > 0
  BY DEF Hands
<1>0. /\ task \in [Jobs -> {"none", "waiting"} \cup Holding \cup Ended] /\ launches \in [Jobs -> Nat]
      /\ row \in [Jobs -> {"none", "PENDING", "DISPATCHED", "FAILED"}]
      /\ request \in [Jobs -> {"new", "created", "enqueued", "rejected"}]
      /\ batch \in Seq(Jobs) /\ worker \in {"poll", "mark", "load"}
  BY DEF TypeOK, TaskType, ClusterType, TableType, RequestType, WorkerType
<1>h. /\ row[k] \in {"none", "PENDING"} \/ InHand(k) => task[k] = "none"
      /\ launches[k] > 0 => task[k] = "launched" \/ task[k] \in Ended
      /\ task[k] = "launched" => launches[k] > 0
  BY DEF Hands
<1>1. ASSUME NEW j \in Jobs, CreateJob(j) \/ Reject(j) \/ Around(j)
      PROVE  UNCHANGED <<task, launches, row, worker, batch>>
  <2>1. UNCHANGED <<row, worker, batch>>
    BY <1>1, QueueUntouched
  <2> QED
    BY <1>1, <2>1 DEF CreateJob, Reject, Around, JobRuns, PollWrites, UserStops, UserDeletes, PollDecides, clusterVars
<1>2. ASSUME NEW j \in Jobs, EnqueueRemote(j)
      PROVE  /\ UNCHANGED <<task, launches, worker, batch>>
             /\ row'[k] \in {"none", "PENDING"} => row[k] \in {"none", "PENDING"}
  BY <1>0, <1>2 DEF EnqueueRemote, workerVars, clusterVars, TableShape
<1>3. CASE PollTable \/ DatabaseFails
  <2>1. worker' # "load" /\ UNCHANGED <<task, launches, row>>
    BY <1>3 DEF PollTable, DatabaseFails, CycleFails, tableVars, clusterVars
  <2> QED
    BY <1>h, <2>1 DEF InHand
<1>4. CASE MarkDispatched
  <2>1. /\ UNCHANGED <<task, launches, batch>> /\ Current' = Current /\ Current \in Jobs /\ row[Current] = "PENDING"
        /\ row' = [row EXCEPT ![Current] = "DISPATCHED"]
    BY <1>4, CurrentRow DEF MarkDispatched, Marked, clusterVars, Current, BatchShape
  <2> QED
    BY <1>0, <1>h, <2>1 DEF InHand
<1>5. CASE JobNotFound \/ JobIncomplete
  <2>1. /\ UNCHANGED <<task, launches>> /\ worker' # "load" /\ row' = [row EXCEPT ![Current] = "FAILED"]
        /\ Current \in Jobs
    BY <1>5, InHandFresh DEF JobNotFound, JobIncomplete, NextEntry, clusterVars
  <2> QED
    BY <1>0, <1>h, <2>1 DEF InHand
<1>6. CASE Dispatch
  <2>1. /\ UNCHANGED <<row, launches>> /\ worker' # "load" /\ task' = [task EXCEPT ![Current] = "waiting"]
        /\ Current \in Jobs /\ row[Current] = "DISPATCHED" /\ launches[Current] = 0
    BY <1>6, InHandFresh DEF Dispatch, NextEntry, tableVars, clusterVars
  <2> QED
    BY <1>0, <1>h, <2>1 DEF InHand
<1>7. ASSUME NEW j \in Jobs, Task(j)
      PROVE  /\ task[j] # "none" /\ UNCHANGED <<row, worker, batch>>
             /\ k # j => task'[k] = task[k] /\ launches'[k] = launches[k]
             /\ launches'[j] > 0 => task'[j] = "launched" \/ task'[j] \in Ended
             /\ task'[j] = "launched" => launches'[j] > 0
  <2>0. UNCHANGED <<row, worker, batch>>
    BY <1>7, QueueUntouched
  <2>1. CASE AcquireSlot(j) \/ StartLaunch(j)
    BY <1>0, <2>0, <2>1 DEF AcquireSlot, StartLaunch, clusterVars, Ended, Hands
  <2>2. CASE ClusterComesUp(j)
    BY <1>0, <2>0, <2>2 DEF ClusterComesUp, Ended, Hands
  <2>3. CASE ProviderMissing(j) \/ TaskCrashes(j) \/ LaunchFails(j) \/ ReportLaunched(j)
    BY <1>0, <2>0, <2>3 DEF ProviderMissing, TaskCrashes, LaunchFails, ReportLaunched, clusterVars, Ended, Holding, Hands
  <2> QED
    BY <1>7, <2>1, <2>2, <2>3 DEF Task
<1>8. CASE Restart
  <2>1. /\ worker' # "load" /\ UNCHANGED <<row, launches>>
        /\ task'[k] = IF task[k] \in {"waiting"} \cup Holding THEN "lost" ELSE task[k]
    BY <1>8 DEF Restart, clusterVars
  <2> QED
    BY <1>0, <1>h, <2>1 DEF InHand, Holding, Ended
<1>9. CASE UNCHANGED vars
  BY <1>h, <1>9 DEF vars, tableVars, workerVars, clusterVars, InHand, Current
<1>10. ASSUME UNCHANGED <<task, launches, row, worker, batch>>
       PROVE  /\ row'[k] \in {"none", "PENDING"} \/ InHand(k)' => task'[k] = "none"
              /\ launches'[k] > 0 => task'[k] = "launched" \/ task'[k] \in Ended
              /\ task'[k] = "launched" => launches'[k] > 0
  BY <1>h, <1>10 DEF InHand, Current
<1>11. ASSUME NEW j \in Jobs, EnqueueRemote(j)
       PROVE  /\ row'[k] \in {"none", "PENDING"} \/ InHand(k)' => task'[k] = "none"
              /\ launches'[k] > 0 => task'[k] = "launched" \/ task'[k] \in Ended
              /\ task'[k] = "launched" => launches'[k] > 0
  BY <1>h, <1>2, <1>11 DEF InHand, Current
<1>12. ASSUME NEW j \in Jobs, Task(j)
       PROVE  /\ row'[k] \in {"none", "PENDING"} \/ InHand(k)' => task'[k] = "none"
              /\ launches'[k] > 0 => task'[k] = "launched" \/ task'[k] \in Ended
              /\ task'[k] = "launched" => launches'[k] > 0
  <2>1. InHand(k)' <=> InHand(k)
    BY <1>7, <1>12 DEF InHand, Current
  <2> QED
    BY <1>h, <1>7, <1>12, <2>1
<1> QED
  BY <1>1, <1>3, <1>4, <1>5, <1>6, <1>8, <1>9, <1>10, <1>11, <1>12 DEF Next, Worker

LEMMA HoldsStep ==
    TypeOK /\ Fresh /\ TableShape /\ BatchShape /\ Hands /\ HoldsSettled /\ [Next]_vars => HoldsSettled'
<1> SUFFICES ASSUME TypeOK, Fresh, TableShape, BatchShape, Hands, HoldsSettled, [Next]_vars, NEW k \in Jobs
             PROVE  task'[k] = "failed" \/ usage'[k] => hold'[k] # "HELD"
  BY DEF HoldsSettled
<1>0. /\ task \in [Jobs -> {"none", "waiting"} \cup Holding \cup Ended] /\ usage \in [Jobs -> BOOLEAN]
      /\ hold \in [Jobs -> {"none", "HELD", "RELEASED", "CONVERTED"}]
  BY DEF TypeOK, TaskType, QuotaType
<1>h. task[k] = "failed" \/ usage[k] => hold[k] # "HELD"
  BY DEF HoldsSettled
<1>1. ASSUME NEW j \in Jobs, CreateJob(j) PROVE task'[k] = "failed" \/ usage'[k] => hold'[k] # "HELD"
  <2>1. task[j] = "none" /\ ~usage[j]
    BY <1>1 DEF CreateJob, Fresh
  <2> QED
    BY <1>0, <1>1, <1>h, <2>1 DEF CreateJob
<1>2. ASSUME NEW j \in Jobs, Reject(j) \/ EnqueueRemote(j) PROVE UNCHANGED <<task, usage, hold>>
  BY <1>2 DEF Reject, EnqueueRemote, quotaVars
<1>3. CASE PollTable \/ MarkDispatched \/ DatabaseFails \/ JobNotFound
  BY <1>3, <1>h DEF PollTable, MarkDispatched, DatabaseFails, JobNotFound, quotaVars
<1>4. CASE JobIncomplete
  <2>1. Current \in Jobs
    BY <1>4, InHandFresh DEF JobIncomplete
  <2>2. task' = task /\ usage' = [usage EXCEPT ![Current] = TRUE]
        /\ hold' = [hold EXCEPT ![Current] = IF ~usage[Current] /\ @ = "HELD" THEN "CONVERTED" ELSE @]
    BY <1>4 DEF JobIncomplete, Converted
  <2>3. CASE k = Current
    BY <1>0, <1>h, <2>1, <2>2, <2>3
  <2>4. CASE k # Current
    BY <1>0, <1>h, <2>1, <2>2, <2>4
  <2> QED
    BY <2>3, <2>4
<1>5. CASE Dispatch
  <2>1. Current \in Jobs
    BY <1>5, InHandFresh DEF Dispatch
  <2> QED
    BY <1>0, <1>5, <1>h, <2>1 DEF Dispatch, quotaVars
<1>6. ASSUME NEW j \in Jobs, Task(j) PROVE task'[k] = "failed" \/ usage'[k] => hold'[k] # "HELD"
  <2>1. CASE AcquireSlot(j) \/ TaskCrashes(j) \/ StartLaunch(j) \/ ClusterComesUp(j) \/ ReportLaunched(j)
    BY <1>0, <1>h, <2>1 DEF AcquireSlot, TaskCrashes, StartLaunch, ClusterComesUp, ReportLaunched, quotaVars
  <2>2. CASE ProviderMissing(j)
    BY <1>0, <1>h, <2>2 DEF ProviderMissing
  <2>3. CASE LaunchFails(j)
    <3>1. usage[j] => hold[j] # "HELD"
      BY DEF HoldsSettled
    <3> QED
      BY <1>0, <1>h, <2>3, <3>1 DEF LaunchFails, Released
  <2> QED
    BY <1>6, <2>1, <2>2, <2>3 DEF Task
<1>7. ASSUME NEW j \in Jobs, Around(j) PROVE task'[k] = "failed" \/ usage'[k] => hold'[k] # "HELD"
  <2>1. CASE PollWrites(j)
    <3>1. usage[j] => hold[j] # "HELD"
      BY DEF HoldsSettled
    <3> QED
      BY <1>0, <1>h, <2>1, <3>1 DEF PollWrites, Converted
  <2>2. CASE ~PollWrites(j)
    BY <1>7, <1>h, <2>2 DEF Around, JobRuns, UserStops, UserDeletes, PollDecides, quotaVars
  <2> QED
    BY <2>1, <2>2
<1>8. CASE Restart
  BY <1>0, <1>8, <1>h DEF Restart, quotaVars
<1>9. CASE UNCHANGED vars
  BY <1>9, <1>h DEF vars, quotaVars
<1> QED
  BY <1>1, <1>2, <1>3, <1>4, <1>5, <1>6, <1>7, <1>8, <1>9, <1>h DEF Next, Worker

LEMMA QueueInvariant == Spec => []QueueInv
<1>1. QueueInv /\ [Next]_vars => QueueInv'
  BY TypeStep, FreshStep, TableStep, BatchStep, HandsStep, HoldsStep DEF QueueInv
<1> QED
  BY TypeInit, <1>1, PTL DEF Spec
-------------------------------------------------------------------------------
(* Rows, tasks, clusters and quota rows are of their declared types.       *)
THEOREM TypeCorrect == Spec => []TypeOK
<1>1. QueueInv => TypeOK
  BY DEF QueueInv
<1> QED
  BY QueueInvariant, <1>1, PTL

(* However failing launches, late verdicts and incomplete records meet, a   *)
(* launch that failed or a job whose usage is recorded has no minutes held. *)
THEOREM HoldsAreSettled == Spec => []HoldsSettled
<1>1. QueueInv => HoldsSettled
  BY DEF QueueInv
<1> QED
  BY QueueInvariant, <1>1, PTL

(* No step drops more than the row in the worker's hands, and one that does *)
(* is counted.                                                              *)
LEMMA DroppedStep ==
    ASSUME QueueInv, [Next]_vars
    PROVE  \/ Dropped' \subseteq Dropped /\ faults' + restarts' >= faults + restarts
           \/ /\ Dropped' \subseteq Dropped \cup {Current}
              /\ faults' + restarts' >= faults + restarts + 1
<1> USE DEF QueueInv
<1>0. /\ task \in [Jobs -> {"none", "waiting"} \cup Holding \cup Ended]
      /\ row \in [Jobs -> {"none", "PENDING", "DISPATCHED", "FAILED"}]
      /\ faults \in Nat /\ restarts \in Nat
  BY DEF TypeOK, TaskType, TableType, BoundType
<1>1. ASSUME NEW j \in Jobs, CreateJob(j) \/ Reject(j) \/ Around(j)
      PROVE  Dropped' \subseteq Dropped /\ faults' + restarts' >= faults + restarts
  <2>1. UNCHANGED <<table, row, worker, batch>>
    BY <1>1, QueueUntouched
  <2>2. task' = task /\ faults' = faults /\ restarts' = restarts
    BY <1>1 DEF CreateJob, Reject, Around, JobRuns, PollWrites, UserStops, UserDeletes, PollDecides, boundVars
  <2> QED
    BY <1>0, <2>1, <2>2 DEF Dropped, Current
<1>2. ASSUME NEW j \in Jobs, EnqueueRemote(j)
      PROVE  Dropped' \subseteq Dropped /\ faults' + restarts' >= faults + restarts
  BY <1>0, <1>2 DEF EnqueueRemote, workerVars, boundVars, Dropped, Current
<1>3. CASE PollTable
  BY <1>0, <1>3 DEF PollTable, tableVars, boundVars, Dropped
<1>4. CASE MarkDispatched
  <2>1. /\ Current \in Jobs /\ batch' = batch /\ batch # <<>> /\ worker' = "load" /\ task' = task
        /\ row' = [row EXCEPT ![Current] = "DISPATCHED"] /\ faults' = faults /\ restarts' = restarts
    BY <1>4, CurrentRow DEF MarkDispatched, Marked, boundVars
  <2>2. Current' = Current
    BY <2>1 DEF Current
  <2> QED
    BY <1>0, <1>4, <2>1, <2>2 DEF MarkDispatched, Dropped
<1>5. CASE DatabaseFails \/ JobNotFound \/ JobIncomplete \/ Restart
  <2>1. faults' + restarts' >= faults + restarts + 1
    BY <1>0, <1>5 DEF DatabaseFails, CycleFails, JobNotFound, JobIncomplete, Restart
  <2>2. \A k \in Jobs \ {Current} :
           /\ row'[k] = row[k]
           /\ task'[k] = "none" => task[k] = "none"
    BY <1>0, <1>5 DEF DatabaseFails, CycleFails, JobNotFound, JobIncomplete, Restart, tableVars
  <2> QED
    BY <2>1, <2>2 DEF Dropped
<1>6. CASE Dispatch
  <2>1. Current \in Jobs
    BY <1>6, InHandFresh DEF Dispatch
  <2> QED
    BY <1>0, <1>6, <2>1 DEF Dispatch, tableVars, boundVars, Dropped
<1>7. ASSUME NEW j \in Jobs, Task(j)
      PROVE  Dropped' \subseteq Dropped /\ faults' + restarts' >= faults + restarts
  <2>1. UNCHANGED <<table, row, worker, batch>>
    BY <1>7, QueueUntouched
  <2>2. (\A k \in Jobs : task'[k] = "none" => task[k] = "none") /\ faults' + restarts' >= faults + restarts
    BY <1>0, <1>7
    DEF Task, AcquireSlot, ProviderMissing, TaskCrashes, StartLaunch, ClusterComesUp, LaunchFails, ReportLaunched,
        boundVars
  <2> QED
    BY <2>1, <2>2 DEF Dropped, Current
<1>8. CASE UNCHANGED vars
  BY <1>0, <1>8 DEF vars, tableVars, workerVars, boundVars, Dropped, Current
<1> QED
  BY <1>1, <1>2, <1>3, <1>4, <1>5, <1>6, <1>7, <1>8 DEF Next, Worker

FewDropped == IsFiniteSet(Dropped) /\ Cardinality(Dropped) <= faults + restarts

(* A marked row is in the worker's hands or has become a launch task, but   *)
(* for one row per failing call and per restart, however long the batches.  *)
THEOREM NoneDropped == Spec => []NothingDropped
<1> USE DEF FewDropped
<1>1. Init => FewDropped
  <2> SUFFICES ASSUME Init PROVE FewDropped
    OBVIOUS
  <2>1. Dropped = {} /\ faults = 0 /\ restarts = 0
    BY DEF Init, Dropped
  <2> QED
    BY <2>1, FS_EmptySet
<1>2. QueueInv /\ FewDropped /\ [Next]_vars => FewDropped'
  <2> SUFFICES ASSUME QueueInv, FewDropped, [Next]_vars PROVE FewDropped'
    OBVIOUS
  <2>0. faults \in Nat /\ restarts \in Nat /\ faults' + restarts' \in Int
    <3>1. TypeOK'
      BY TypeStep DEF QueueInv
    <3> QED
      BY <3>1 DEF QueueInv, TypeOK, BoundType
  <2>1. Cardinality(Dropped) \in Nat
    BY FS_CardinalityType
  <2>2. CASE Dropped' \subseteq Dropped /\ faults' + restarts' >= faults + restarts
    <3>1. IsFiniteSet(Dropped') /\ Cardinality(Dropped') <= Cardinality(Dropped)
      BY <2>2, FS_Subset
    <3>2. Cardinality(Dropped') \in Nat
      BY <3>1, FS_CardinalityType
    <3> QED
      BY <2>0, <2>1, <2>2, <3>1, <3>2
  <2>3. CASE Dropped' \subseteq Dropped \cup {Current} /\ faults' + restarts' >= faults + restarts + 1
    <3>1. /\ IsFiniteSet(Dropped \cup {Current})
          /\ Cardinality(Dropped \cup {Current}) \in {Cardinality(Dropped), Cardinality(Dropped) + 1}
      BY FS_AddElement
    <3>2. /\ IsFiniteSet(Dropped')
          /\ Cardinality(Dropped') <= Cardinality(Dropped \cup {Current})
      BY <2>3, <3>1, FS_Subset
    <3>3. Cardinality(Dropped') \in Nat
      BY <3>2, FS_CardinalityType
    <3> QED
      BY <2>0, <2>1, <2>3, <3>1, <3>2, <3>3
  <2> QED
    BY <2>2, <2>3, DroppedStep
<1>3. FewDropped => NothingDropped
  BY DEF NothingDropped
<1> HIDE DEF FewDropped
<1> QED
  BY QueueInvariant, <1>1, <1>2, <1>3, PTL DEF Spec
-------------------------------------------------------------------------------
(* The table implements the durable queue.                                  *)

Places == {"absent", "posted", "taken", "started", "dropped"}
Pending == {"waiting", "preparing", "launching"}
IsAt(k) ==
    /\ row[k] = "none" => PlaceOf(k) = "absent"
    /\ row[k] = "PENDING" => PlaceOf(k) = "posted"
    /\ row[k] \in {"DISPATCHED", "FAILED"} /\ launches[k] > 0 => PlaceOf(k) = "started"
    /\ row[k] \in {"DISPATCHED", "FAILED"} /\ launches[k] = 0 /\ (InHand(k) \/ task[k] \in Pending)
          => PlaceOf(k) = "taken"
    /\ row[k] \in {"DISPATCHED", "FAILED"} /\ launches[k] = 0 /\ ~InHand(k) /\ task[k] \notin Pending
          => PlaceOf(k) = "dropped"

(* The place of a job depends on its row, its launches, the worker's hand   *)
(* and whether its task is still to launch.                                 *)
LEMMA PlaceByParts ==
    QueueInv => \A k \in Jobs : IsAt(k)
<1> SUFFICES ASSUME QueueInv, NEW k \in Jobs PROVE IsAt(k)
  OBVIOUS
<1>1. row[k] \in {"none", "PENDING"} => launches[k] = 0
  BY DEF QueueInv, TypeOK, ClusterType, Hands, Ended
<1>2. launches[k] \in Nat /\ row[k] \in {"none", "PENDING", "DISPATCHED", "FAILED"}
  BY DEF QueueInv, TypeOK, ClusterType, TableType
<1> DEFINE r == row[k]
           l == launches[k]
           held == InHand(k) \/ task[k] \in {"waiting", "preparing", "launching"}
<1>3. PlaceOf(k) = CASE r = "none" -> "absent"
                     [] r = "PENDING" -> "posted"
                     [] l > 0 -> "started"
                     [] r \in {"DISPATCHED", "FAILED"} /\ l = 0 /\ held -> "taken"
                     [] OTHER -> "dropped"
  BY DEF PlaceOf
<1> HIDE DEF r, l, held
<1>4. /\ r = "none" => PlaceOf(k) = "absent"
      /\ r = "PENDING" => PlaceOf(k) = "posted"
      /\ r \in {"DISPATCHED", "FAILED"} /\ l > 0 => PlaceOf(k) = "started"
      /\ r \in {"DISPATCHED", "FAILED"} /\ l = 0 /\ held => PlaceOf(k) = "taken"
      /\ r \in {"DISPATCHED", "FAILED"} /\ l = 0 /\ ~held => PlaceOf(k) = "dropped"
  <2>1. (r \in {"none", "PENDING"} => l = 0) /\ l \in Nat
    BY <1>1, <1>2 DEF r, l
  <2> QED
    BY <1>3, <2>1
<1> QED
  BY <1>4 DEF IsAt, r, l, held, Pending
LEMMA NextPlace == QueueInv' => \A k \in Jobs : IsAt(k)'
<1>1. (\A k \in Jobs : IsAt(k))' => \A k \in Jobs : IsAt(k)'
  OBVIOUS
<1> QED
  BY <1>1, PlaceByParts, PTL

HeldBack(k) == InHand(k) \/ task[k] \in Pending

LEMMA PlaceKept ==
    ASSUME QueueInv, QueueInv', NEW k \in Jobs, row'[k] = row[k], launches'[k] = launches[k],
           launches[k] > 0 \/ row[k] \in {"none", "PENDING"} \/ (HeldBack(k)' <=> HeldBack(k))
    PROVE  PlaceOf(k)' = PlaceOf(k)
<1>1. IsAt(k) /\ IsAt(k)'
  BY PlaceByParts, NextPlace
<1>2. row[k] \in {"none", "PENDING", "DISPATCHED", "FAILED"} /\ launches[k] \in Nat
  BY DEF QueueInv, TypeOK, TableType, ClusterType
<1> QED
  BY <1>1, <1>2 DEF IsAt, HeldBack

LEMMA BoardMoves ==
    ASSUME NEW S \in SUBSET Jobs, NEW from, NEW to, \A k \in S : PlaceOf(k) = from,
           \A k \in Jobs : PlaceOf(k)' = IF k \in S THEN to ELSE PlaceOf(k)
    PROVE  Board!Move(S, from, to)
  BY DEF Board!Move

LEMMA BoardStays ==
    ASSUME \A k \in Jobs : PlaceOf(k)' = PlaceOf(k)
    PROVE  UNCHANGED [j \in Jobs |-> PlaceOf(j)]
  OBVIOUS

(* The job c in hand is dropped. *)
LEMMA CurrentDropped ==
    ASSUME QueueInv, QueueInv', worker = "load", worker' # "load", UNCHANGED <<task, launches>>,
           NEW c \in Jobs, c = Current, row'[c] \in {"DISPATCHED", "FAILED"},
           \A k \in Jobs : k # c => row'[k] = row[k]
    PROVE  Board!Drop({c})
<1>1. InHand(c) /\ task[c] = "none" /\ launches[c] = 0 /\ row[c] = "DISPATCHED"
  BY InHandFresh DEF QueueInv
<1>2. PlaceOf(c) = "taken"
  BY <1>1, PlaceByParts DEF IsAt
<1>3. PlaceOf(c)' = "dropped"
  <2>1. ~InHand(c)'
    BY DEF InHand
  <2> QED
    BY <1>1, <2>1, NextPlace DEF IsAt, Pending
<1>4. ASSUME NEW k \in Jobs, k # c PROVE PlaceOf(k)' = PlaceOf(k)
  <2>1. ~InHand(k) /\ ~InHand(k)'
    BY <1>4 DEF InHand
  <2> QED
    BY <1>4, <2>1, PlaceKept DEF HeldBack
<1> QED
  BY <1>2, <1>3, <1>4, BoardMoves DEF Board!Drop

(* The task of j ends: its job is dropped unless its cluster has come up.   *)
LEMMA TaskEnds ==
    ASSUME QueueInv, QueueInv', NEW j \in Jobs, task[j] \in Holding, task'[j] \in Ended,
           \A k \in Jobs : k # j => task'[k] = task[k], UNCHANGED <<row, launches, worker, batch>>
    PROVE  Board!Drop({j}) \/ UNCHANGED [i \in Jobs |-> PlaceOf(i)]
<1>0. row[j] \in {"DISPATCHED", "FAILED"} /\ ~InHand(j) /\ launches[j] \in Nat
  BY DEF QueueInv, Hands, Holding, TypeOK, TableType, ClusterType
<1>1. ASSUME NEW k \in Jobs, k # j \/ launches[j] > 0 PROVE PlaceOf(k)' = PlaceOf(k)
  <2>1. InHand(k)' <=> InHand(k)
    BY DEF InHand, Current
  <2> QED
    BY <1>1, <2>1, PlaceKept DEF HeldBack
<1>2. CASE launches[j] > 0
  BY <1>1, <1>2, BoardStays
<1>3. CASE launches[j] = 0
  <2>1. task[j] \in Pending
    BY <1>3 DEF QueueInv, Hands, Holding, Pending
  <2>2. PlaceOf(j) = "taken"
    BY <1>0, <1>3, <2>1, PlaceByParts DEF IsAt
  <2>3. ~InHand(j)' /\ task'[j] \notin Pending
    BY <1>0 DEF InHand, Current, Pending, Ended
  <2>4. PlaceOf(j)' = "dropped"
    BY <1>0, <1>3, <2>3, NextPlace DEF IsAt
  <2> QED
    BY <1>1, <2>2, <2>4, BoardMoves DEF Board!Drop
<1> QED
  BY <1>0, <1>2, <1>3

LEMMA BoardStep == QueueInv /\ QueueInv' /\ [Next]_vars => [Board!BoardNext]_([j \in Jobs |-> PlaceOf(j)])
<1> DEFINE board == [i \in Jobs |-> PlaceOf(i)]
<1> SUFFICES ASSUME QueueInv, QueueInv', [Next]_vars PROVE Board!BoardNext \/ UNCHANGED board
  OBVIOUS
<1>0. /\ row \in [Jobs -> {"none", "PENDING", "DISPATCHED", "FAILED"}] /\ launches \in [Jobs -> Nat]
      /\ task \in [Jobs -> {"none", "waiting"} \cup Holding \cup Ended]
  BY DEF QueueInv, TypeOK, TableType, ClusterType, TaskType
<1>1. ASSUME UNCHANGED <<row, worker, batch, launches>>, \A k \in Jobs : task'[k] \in Pending <=> task[k] \in Pending
      PROVE  UNCHANGED board
  <2>1. ASSUME NEW k \in Jobs PROVE PlaceOf(k)' = PlaceOf(k)
    <3>1. HeldBack(k)' <=> HeldBack(k)
      BY <1>1 DEF HeldBack, InHand, Current
    <3> QED
      BY <1>1, <3>1, PlaceKept
  <2> QED
    BY <2>1, BoardStays
<1>2. ASSUME NEW j \in Jobs, CreateJob(j) \/ Reject(j) \/ Around(j) PROVE UNCHANGED board
  <2>1. UNCHANGED <<row, worker, batch>>
    BY <1>2, QueueUntouched
  <2>2. UNCHANGED <<task, launches>>
    BY <1>2 DEF CreateJob, Reject, Around, JobRuns, PollWrites, UserStops, UserDeletes, PollDecides, clusterVars
  <2> QED
    BY <1>1, <2>1, <2>2
<1>3. ASSUME NEW j \in Jobs, EnqueueRemote(j) PROVE Board!Post(j)
  <2>1. row[j] = "none" /\ row' = [row EXCEPT ![j] = "PENDING"] /\ UNCHANGED <<task, launches, worker, batch>>
    BY <1>3 DEF EnqueueRemote, workerVars, clusterVars, QueueInv, TableShape
  <2>2. PlaceOf(j) = "absent" /\ PlaceOf(j)' = "posted"
    BY <1>0, <2>1, PlaceByParts, NextPlace DEF IsAt
  <2>3. ASSUME NEW k \in Jobs, k # j PROVE PlaceOf(k)' = PlaceOf(k)
    <3>1. HeldBack(k)' <=> HeldBack(k)
      BY <2>1 DEF HeldBack, InHand, Current
    <3> QED
      BY <1>0, <2>1, <2>3, <3>1, PlaceKept
  <2> QED
    BY <2>2, <2>3, BoardMoves DEF Board!Post
<1>4. CASE PollTable
  <2>1. ASSUME NEW k \in Jobs PROVE PlaceOf(k)' = PlaceOf(k)
    <3>1. HeldBack(k)' <=> HeldBack(k)
      BY <1>4 DEF PollTable, HeldBack, InHand
    <3> QED
      BY <1>4, <3>1, PlaceKept DEF PollTable, tableVars, clusterVars
  <2> QED
    BY <2>1, BoardStays
<1>5. CASE MarkDispatched
  <2>1. PICK c \in Jobs : c = Current
    BY <1>5, CurrentRow DEF MarkDispatched, QueueInv
  <2>2. /\ row[c] = "PENDING" /\ row' = [row EXCEPT ![c] = "DISPATCHED"] /\ UNCHANGED <<task, launches, batch>>
        /\ worker = "mark" /\ worker' = "load" /\ batch # <<>>
    BY <1>5, <2>1, CurrentRow DEF MarkDispatched, Marked, clusterVars, QueueInv, BatchShape
  <2>3. InHand(c)' /\ launches[c] = 0
    BY <1>0, <2>1, <2>2 DEF InHand, Current, QueueInv, Hands, Ended
  <2>4. PlaceOf(c) = "posted" /\ PlaceOf(c)' = "taken"
    BY <1>0, <2>2, <2>3, PlaceByParts, NextPlace DEF IsAt
  <2>5. ASSUME NEW k \in Jobs, k # c PROVE PlaceOf(k)' = PlaceOf(k)
    <3>1. HeldBack(k)' <=> HeldBack(k)
      BY <2>1, <2>2, <2>5 DEF HeldBack, InHand, Current
    <3> QED
      BY <1>0, <2>2, <2>5, <3>1, PlaceKept
  <2>6. Board!Take(c)
    BY <2>4, <2>5, BoardMoves DEF Board!Take
  <2> QED
    BY <2>6 DEF Board!BoardNext
<1>6. CASE DatabaseFails
  <2>1. /\ worker \in {"mark", "load"} /\ worker' = "poll" /\ UNCHANGED <<row, task, launches>>
    BY <1>6 DEF DatabaseFails, CycleFails, tableVars, clusterVars
  <2>2. CASE worker = "mark"
    <3>1. ASSUME NEW k \in Jobs PROVE PlaceOf(k)' = PlaceOf(k)
      <4>1. HeldBack(k)' <=> HeldBack(k)
        BY <2>1, <2>2 DEF HeldBack, InHand
      <4> QED
        BY <2>1, <4>1, PlaceKept
    <3> QED
      BY <3>1, BoardStays
  <2>3. CASE worker = "load"
    <3>1. PICK c \in Jobs : c = Current
      BY <2>3, CurrentRow DEF QueueInv
    <3>2. row[c] = "DISPATCHED"
      BY <2>3, <3>1, InHandFresh DEF QueueInv
    <3>3. Board!Drop({c})
      BY <2>1, <2>3, <3>1, <3>2, CurrentDropped
    <3> QED
      BY <3>3 DEF Board!BoardNext
  <2> QED
    BY <2>1, <2>2, <2>3
<1>7. CASE JobNotFound \/ JobIncomplete
  <2>1. PICK c \in Jobs : c = Current
    BY <1>7, CurrentRow DEF JobNotFound, JobIncomplete, QueueInv
  <2>2. /\ worker = "load" /\ worker' # "load" /\ row' = [row EXCEPT ![c] = "FAILED"] /\ UNCHANGED <<task, launches>>
    BY <1>7, <2>1 DEF JobNotFound, JobIncomplete, NextEntry, clusterVars
  <2>3. row'[c] = "FAILED" /\ \A k \in Jobs : k # c => row'[k] = row[k]
    BY <1>0, <2>2
  <2>4. Board!Drop({c})
    BY <2>1, <2>2, <2>3, CurrentDropped
  <2> QED
    BY <2>4 DEF Board!BoardNext
<1>8. CASE Dispatch
  <2>1. PICK c \in Jobs : c = Current
    BY <1>8, CurrentRow DEF Dispatch, QueueInv
  <2>2. /\ worker = "load" /\ worker' # "load" /\ task' = [task EXCEPT ![c] = "waiting"] /\ UNCHANGED <<row, launches>>
        /\ InHand(c)
    BY <1>8, <2>1, InHandFresh DEF Dispatch, NextEntry, tableVars, clusterVars, QueueInv
  <2>3. ASSUME NEW k \in Jobs PROVE PlaceOf(k)' = PlaceOf(k)
    <3>1. HeldBack(k)' <=> HeldBack(k)
      BY <1>0, <2>1, <2>2 DEF HeldBack, InHand, Pending
    <3> QED
      BY <2>2, <3>1, PlaceKept
  <2> QED
    BY <2>3, BoardStays
<1>9. ASSUME NEW j \in Jobs, AcquireSlot(j) \/ StartLaunch(j) PROVE UNCHANGED board
  <2>1. UNCHANGED <<row, worker, batch, launches>> /\ \A k \in Jobs : task'[k] \in Pending <=> task[k] \in Pending
    BY <1>0, <1>9 DEF AcquireSlot, StartLaunch, tableVars, workerVars, clusterVars, Pending
  <2> QED
    BY <1>1, <2>1
<1>10. ASSUME NEW j \in Jobs, ClusterComesUp(j) PROVE Board!Start(j)
  <2>1. /\ task[j] = "launching" /\ task' = [task EXCEPT ![j] = "launched"] /\ UNCHANGED <<row, worker, batch>>
        /\ launches' = [launches EXCEPT ![j] = @ + 1]
    BY <1>10 DEF ClusterComesUp, tableVars, workerVars
  <2>2. launches[j] = 0 /\ row[j] \in {"DISPATCHED", "FAILED"}
    BY <1>0, <2>1 DEF QueueInv, Hands, Ended
  <2>3. PlaceOf(j) = "taken" /\ PlaceOf(j)' = "started"
    BY <1>0, <2>1, <2>2, PlaceByParts, NextPlace DEF IsAt, Pending
  <2>4. ASSUME NEW k \in Jobs, k # j PROVE PlaceOf(k)' = PlaceOf(k)
    <3>1. HeldBack(k)' <=> HeldBack(k)
      BY <1>0, <2>1, <2>4 DEF HeldBack, InHand, Current
    <3> QED
      BY <1>0, <2>1, <2>4, <3>1, PlaceKept
  <2> QED
    BY <2>3, <2>4, BoardMoves DEF Board!Start
<1>11. ASSUME NEW j \in Jobs, ProviderMissing(j) \/ TaskCrashes(j) \/ LaunchFails(j) \/ ReportLaunched(j)
       PROVE  Board!Drop({j}) \/ UNCHANGED board
  <2>1. /\ task[j] \in Holding /\ task'[j] \in Ended /\ (\A k \in Jobs : k # j => task'[k] = task[k])
        /\ UNCHANGED <<row, launches, worker, batch>>
    BY <1>0, <1>11
    DEF ProviderMissing, TaskCrashes, LaunchFails, ReportLaunched, Holding, Ended, tableVars, workerVars, clusterVars
  <2> QED
    BY <2>1, TaskEnds
<1>12. CASE Restart
  <2> DEFINE S == {k \in Jobs : PlaceOf(k) = "taken"}
  <2>1. /\ worker' = "poll" /\ UNCHANGED <<row, launches>>
        /\ task' = [k \in Jobs |-> IF task[k] \in {"waiting"} \cup Holding THEN "lost" ELSE task[k]]
    BY <1>12 DEF Restart, clusterVars
  <2>2. ASSUME NEW k \in Jobs PROVE ~HeldBack(k)'
    BY <2>1 DEF HeldBack, InHand, Pending, Holding
  <2>3. ASSUME NEW k \in Jobs, PlaceOf(k) = "taken" PROVE PlaceOf(k)' = "dropped"
    <3>1. IsAt(k) /\ IsAt(k)'
      BY PlaceByParts, NextPlace
    <3>2. row[k] \in {"DISPATCHED", "FAILED"} /\ launches[k] = 0
      BY <1>0, <2>3, <3>1 DEF IsAt
    <3> QED
      BY <2>1, <2>2, <3>1, <3>2 DEF IsAt, HeldBack
  <2>4. ASSUME NEW k \in Jobs, PlaceOf(k) # "taken" PROVE PlaceOf(k)' = PlaceOf(k)
    <3>1. IsAt(k) /\ IsAt(k)'
      BY PlaceByParts, NextPlace
    <3>2. launches[k] > 0 \/ row[k] \in {"none", "PENDING"} \/ ~HeldBack(k)
      BY <1>0, <2>4, <3>1 DEF IsAt, HeldBack
    <3> QED
      BY <2>1, <2>2, <3>2, PlaceKept
  <2>5. Board!Drop(S)
    BY <2>3, <2>4, BoardMoves DEF Board!Drop
  <2> QED
    BY <2>5 DEF Board!BoardNext
<1>13. CASE UNCHANGED vars
  BY <1>1, <1>13 DEF vars, tableVars, workerVars, clusterVars
<1> QED
  BY <1>2, <1>3, <1>4, <1>5, <1>6, <1>7, <1>8, <1>9, <1>10, <1>11, <1>12, <1>13 DEF Next, Worker, Task, Board!BoardNext

(* Worker and tasks implement the durable queue: what is posted stays until *)
(* it is taken, and what is taken is started once at most, whatever fails   *)
(* and however often the API restarts.                                      *)
THEOREM QueueIsDurable == Spec => KeepsPromise
<1>1. Init => Board!BoardInit
  <2> SUFFICES ASSUME Init PROVE Board!BoardInit
    OBVIOUS
  <2>1. \A k \in Jobs : PlaceOf(k) = "absent"
    BY TypeInit, PlaceByParts DEF IsAt, Init
  <2> QED
    BY <2>1 DEF Board!BoardInit
<1> QED
  BY <1>1, BoardStep, QueueInvariant, PTL DEF Spec, KeepsPromise, Board!BoardSpec
===============================================================================
