------------------------------ MODULE MachineProofs ------------------------------
(***************************************************************************)
(* Theorems about CloudMachines, for any number of jobs, tries, stops and  *)
(* faults, and about AzureMachine, for any number of stops, tries, images  *)
(* and requests that go wrong.                                             *)
(***************************************************************************)
EXTENDS CloudMachines, AzureMachine, TLAPS

(* How far a launch is, what it has still to see to, and how often it has   *)
(* asked.                                                                  *)
Early == {"idle", "look", "make", "open", "create"}
Phases == Early \cup {"resend", "recover", "launched", "failed", "dead"}
Causes == Errors \cup {"none", "race", "fault", "unseen"}
Left(k) ==
    CASE k = "aws" -> {<<"group", "key", "profile">>, <<"key", "profile">>, <<"profile">>}
      [] k = "gcp" -> {<<"rule">>}
      [] k = "lambda" -> {<<"key">>}
      [] k = "nebius" -> {<<"network", "subnet">>, <<"subnet">>}
      [] OTHER -> {}
CreateLimit == IF kind \in {"aws", "gcp"} THEN MaxAttempts ELSE 1
RecoverLimit == IF kind = "runpod" THEN MaxLookups ELSE 1
Going(j) ==
    /\ phase[j] \in {"look", "make", "open"} => todo[j] \in Left(kind)
    /\ phase[j] \in Early \ {"create"} => tries[j] = 0
    /\ phase[j] \in {"create", "resend"} => tries[j] < CreateLimit
    /\ phase[j] = "recover" => tries[j] < RecoverLimit
Births(j) ==
    /\ phase[j] \in Early => born[j] = 0 /\ machine[j] = "none"
    /\ phase[j] = "resend" => born[j] <= 1
    /\ born[j] <= 1 \/ (born[j] = 2 /\ kind = "skypilot")

(* No launch goes back to before its first request.                        *)
OnwardOf(i) ==
    /\ phase'[i] \in Early => phase[i] \in Early
    /\ phase'[i] = "resend" => phase[i] \in Early \cup {"resend"}
Onward == \A i \in Jobs : OnwardOf(i)
USE DEF Onward, OnwardOf

LaunchTypes ==
    /\ todo \in [Jobs -> Seq(Things)] /\ phase \in [Jobs -> Phases]
    /\ tries \in [Jobs -> 0 .. (IF kind = "runpod" THEN MaxLookups ELSE MaxAttempts)]
    /\ cause \in [Jobs -> Causes]
SharedTypes == kind \in Kinds /\ shared \in [Things -> {"absent", "closed", "ready"}]
BirthTypes == machine \in [Jobs -> {"none", "pending", "running", "gone"}] /\ born \in [Jobs -> Nat]
StopTypes == stop \in [Jobs -> {"none", "found", "absent", "done", "failed"}] /\ early \subseteq Jobs /\ blind \subseteq Jobs

(* Three parts of the invariant, by the variables they are about. *)
LaunchPart == LaunchTypes /\ \A j \in Jobs : Going(j)
BirthPart == BirthTypes /\ \A j \in Jobs : Births(j)
Inv == SharedTypes /\ LaunchPart /\ BirthPart /\ StopTypes /\ HistoryType

LEMMA InvTypes == Inv => TypeOK
  BY DEF Inv, TypeOK, LaunchTypes, SharedTypes, BirthTypes, StopTypes, LaunchPart, BirthPart, LaunchType, MachineType,
         Phases, Early, Causes, Errors

(* Sequences of up to three things. *)
LEMMA OneThing ==
    ASSUME NEW a \in Things
    PROVE  Tail(<<a>>) = <<>> /\ Head(<<a>>) = a /\ Len(<<a>>) = 1 /\ <<a>> # <<>> /\ <<a>> \in Seq(Things) /\ <<>> \in Seq(Things)
  OBVIOUS
LEMMA TwoThings ==
    ASSUME NEW a \in Things, NEW b \in Things
    PROVE  Tail(<<a, b>>) = <<b>> /\ Head(<<a, b>>) = a /\ Len(<<a, b>>) = 2 /\ <<a, b>> # <<>> /\ <<a, b>> \in Seq(Things)
  OBVIOUS
LEMMA ThreeThings ==
    ASSUME NEW a \in Things, NEW b \in Things, NEW c \in Things
    PROVE  /\ Tail(<<a, b, c>>) = <<b, c>> /\ Head(<<a, b, c>>) = a /\ Len(<<a, b, c>>) = 3 /\ <<a, b, c>> # <<>>
           /\ <<a, b, c>> \in Seq(Things)
  OBVIOUS

LEMMA LeftFacts ==
    ASSUME NEW k \in Kinds, NEW s \in Left(k)
    PROVE  /\ s \in Seq(Things) /\ s # <<>> /\ Head(s) \in Things /\ Len(s) \in Nat
           /\ Tail(s) \in Seq(Things)
           /\ Len(s) # 1 => Tail(s) \in Left(k)
           /\ k = "aws" => (Len(s) = 1 <=> Head(s) = "profile")
<1>0. {"group", "key", "profile", "rule", "network", "subnet"} = Things
  BY DEF Things
<1>1. CASE k = "aws"
  <2>1. Left(k) = {<<"group", "key", "profile">>, <<"key", "profile">>, <<"profile">>}
    BY <1>1 DEF Left
  <2>2. CASE s = <<"group", "key", "profile">>
    BY <1>0, <2>1, <2>2, ThreeThings
  <2>3. CASE s = <<"key", "profile">>
    BY <1>0, <2>1, <2>3, TwoThings
  <2>4. CASE s = <<"profile">>
    BY <1>0, <2>1, <2>4, OneThing
  <2> QED
    BY <2>1, <2>2, <2>3, <2>4
<1>2. CASE k = "gcp"
  <2>1. s = <<"rule">>
    BY <1>2 DEF Left
  <2> QED
    BY <1>0, <1>2, <2>1, OneThing
<1>3. CASE k = "lambda"
  <2>1. s = <<"key">>
    BY <1>3 DEF Left
  <2> QED
    BY <1>0, <1>3, <2>1, OneThing
<1>4. CASE k = "nebius"
  <2>1. Left(k) = {<<"network", "subnet">>, <<"subnet">>}
    BY <1>4 DEF Left
  <2>2. CASE s = <<"network", "subnet">>
    BY <1>0, <1>4, <2>1, <2>2, TwoThings
  <2>3. CASE s = <<"subnet">>
    BY <1>0, <1>4, <2>1, <2>3, OneThing
  <2> QED
    BY <2>1, <2>2, <2>3
<1>5. CASE k \in {"runpod", "vastai"} \cup Schedulers
  BY <1>5 DEF Left, Schedulers
<1> QED
  BY <1>1, <1>2, <1>3, <1>4, <1>5 DEF Kinds

LEMMA NeededFacts ==
    ASSUME NEW k \in Kinds
    PROVE  Needed(k) \in Seq(Things) /\ (Needed(k) # <<>> => Needed(k) \in Left(k))
<1>1. CASE k = "aws"
  BY <1>1 DEF Left, Things, Needed
<1>2. CASE k = "gcp"
  BY <1>2 DEF Left, Things, Needed
<1>3. CASE k = "lambda"
  BY <1>3 DEF Left, Things, Needed
<1>4. CASE k = "nebius"
  BY <1>4 DEF Left, Things, Needed
<1>5. CASE k \in {"runpod", "vastai"} \cup Schedulers
  BY <1>5 DEF Left, Needed, Schedulers
<1> QED
  BY <1>1, <1>2, <1>3, <1>4, <1>5 DEF Kinds
-------------------------------------------------------------------------------
(* How the launch of one job moves.                                        *)

LEMMA ProceedsKeeps ==
    ASSUME SharedTypes, LaunchPart, kind' = kind, NEW j \in Jobs, phase[j] \in {"look", "make", "open"}, Proceeds(j)
    PROVE  LaunchPart' /\ Onward
<1>1. todo[j] \in Left(kind) /\ tries[j] = 0
  BY DEF LaunchPart, Going, Early
<1>2. Tail(todo[j]) \in Seq(Things) /\ (Len(todo[j]) # 1 => Tail(todo[j]) \in Left(kind))
  BY <1>1, LeftFacts DEF SharedTypes
<1>3. /\ todo' = [todo EXCEPT ![j] = Tail(todo[j])] /\ tries' = tries /\ cause' = cause
      /\ phase' = [phase EXCEPT ![j] = IF Len(todo[j]) = 1 THEN "create" ELSE "look"]
  BY DEF Proceeds, Becomes
<1>4. LaunchTypes'
  BY <1>2, <1>3 DEF LaunchPart, LaunchTypes, Phases, Early
<1>5. 0 < CreateLimit /\ CreateLimit' = CreateLimit /\ RecoverLimit' = RecoverLimit
  BY CloudAssumption DEF CloudAssumption, CreateLimit, RecoverLimit
<1>6. ASSUME NEW i \in Jobs PROVE Going(i)'
  <2>1. CASE i = j
    <3>1. CASE Len(todo[j]) = 1
      <4>1. phase'[i] = "create" /\ tries'[i] = 0
        BY <1>1, <1>3, <2>1, <3>1 DEF LaunchPart, LaunchTypes
      <4> QED
        BY <4>1, <1>5 DEF Going, Early
    <3>2. CASE Len(todo[j]) # 1
      <4>1. phase'[i] = "look" /\ tries'[i] = 0 /\ todo'[i] \in Left(kind)
        BY <1>1, <1>2, <1>3, <2>1, <3>2 DEF LaunchPart, LaunchTypes
      <4> QED
        BY <4>1 DEF Going, Early
    <3> QED
      BY <3>1, <3>2
  <2>2. CASE i # j
    <3>1. phase'[i] = phase[i] /\ tries'[i] = tries[i] /\ todo'[i] = todo[i]
      BY <1>3, <2>2 DEF LaunchPart, LaunchTypes
    <3> QED
      BY <1>5, <1>6, <3>1 DEF LaunchPart, Going
  <2> QED
    BY <2>1, <2>2
<1>7. ASSUME NEW i \in Jobs PROVE OnwardOf(i)
  BY <1>3 DEF LaunchPart, LaunchTypes, Early
<1> QED
  BY <1>4, <1>6, <1>7 DEF LaunchPart

(* On to the next request about the same thing. *)
LEMMA BecomesKeeps ==
    ASSUME LaunchPart, kind' = kind, NEW j \in Jobs, phase[j] \in {"look", "make", "open"},
           NEW p \in {"make", "open"}, Becomes(j, p), UNCHANGED <<todo, tries, cause>>
    PROVE  LaunchPart' /\ Onward
<1>1. LaunchTypes'
  BY DEF LaunchPart, LaunchTypes, Phases, Early, Becomes
<1>2. ASSUME NEW i \in Jobs PROVE Going(i)' /\ OnwardOf(i)
  <2>1. phase'[i] = IF i = j THEN p ELSE phase[i]
    BY DEF LaunchPart, LaunchTypes, Becomes
  <2> QED
    BY <1>2, <2>1 DEF LaunchPart, Going, Early, CreateLimit, RecoverLimit
<1> QED
  BY <1>1, <1>2 DEF LaunchPart

(* A launch is over, or looks for its machine. *)
LEMMA LeavesKeeps ==
    ASSUME LaunchPart, kind' = kind, NEW j \in Jobs, NEW p \in {"recover", "resend", "launched", "failed"}, phase[j] \in Early \/ p # "resend",
           phase' = [phase EXCEPT ![j] = p], todo' = todo,
           tries' \in [Jobs -> 0 .. (IF kind = "runpod" THEN MaxLookups ELSE MaxAttempts)],
           \A i \in Jobs : i # j => tries'[i] = tries[i],
           cause' \in [Jobs -> Causes], p = "recover" => tries'[j] < RecoverLimit, p = "resend" => tries'[j] < CreateLimit
    PROVE  LaunchPart' /\ Onward /\ phase'[j] = p
<1>1. LaunchTypes' /\ phase'[j] = p
  BY DEF LaunchPart, LaunchTypes, Phases
<1>2. ASSUME NEW i \in Jobs PROVE Going(i)' /\ OnwardOf(i)
  <2>1. phase'[i] = IF i = j THEN p ELSE phase[i]
    BY DEF LaunchPart, LaunchTypes
  <2> QED
    BY <1>2, <2>1 DEF LaunchPart, Going, Early, CreateLimit, RecoverLimit
<1> QED
  BY <1>1, <1>2 DEF LaunchPart

(* A machine is made for the job whose launch asks for it and leaves. *)
LEMMA BornKeeps ==
    ASSUME BirthPart, kind' = kind, NEW j \in Jobs, phase'[j] \notin Early, Born(j), Onward,
           phase[j] \in Early \/ (phase[j] = "resend" /\ kind = "skypilot" /\ phase'[j] # "resend")
    PROVE  BirthPart'
<1>1. born'[j] = born[j] + 1 /\ born[j] \in Nat /\ born[j] <= 1 /\ (phase[j] \in Early => born[j] = 0)
  BY DEF BirthPart, BirthTypes, Births, Born
<1>2. BirthTypes'
  BY DEF BirthPart, BirthTypes, Born
<1>3. ASSUME NEW i \in Jobs, i # j PROVE Births(i)'
  BY <1>3 DEF BirthPart, BirthTypes, Births, Born
<1>4. Births(j)'
  BY <1>1 DEF Births
<1> QED
  BY <1>2, <1>3, <1>4 DEF BirthPart
LEMMA UnbornKeeps ==
    ASSUME BirthPart, kind' = kind, UNCHANGED machineVars, Onward
    PROVE  BirthPart'
  BY DEF BirthPart, BirthTypes, Births, machineVars

LEMMA FaultCounts == HistoryType /\ Fault => faults' \in 0 .. MaxFaults
  BY CloudAssumption DEF CloudAssumption, HistoryType, Fault
-------------------------------------------------------------------------------
(* The steps, one by one.                                                  *)

LEMMA FailsTypes ==
    ASSUME LaunchPart, NEW j \in Jobs, NEW why \in Causes, Fails(j, why)
    PROVE  phase' = [phase EXCEPT ![j] = "failed"] /\ cause' \in [Jobs -> Causes]
  BY DEF LaunchPart, LaunchTypes, Fails, Becomes

LEMMA StartsKeeps == ASSUME Inv, NEW j \in Jobs, Starts(j) PROVE Inv'
<1> DEFINE p == IF Needed(kind) = <<>> THEN "create" ELSE "look"
<1>1. /\ phase[j] = "idle" /\ todo' = [todo EXCEPT ![j] = Needed(kind)] /\ phase' = [phase EXCEPT ![j] = p]
      /\ UNCHANGED <<kind, shared, tries, cause, machineVars, stopVars, hit, faults>>
  BY DEF Starts, Becomes
<1>2. Needed(kind) \in Seq(Things) /\ (Needed(kind) # <<>> => Needed(kind) \in Left(kind))
  BY NeededFacts DEF Inv, SharedTypes
<1>3. LaunchTypes'
  BY <1>1, <1>2 DEF Inv, LaunchPart, LaunchTypes, Phases, Early
<1>4. 0 < CreateLimit
  BY CloudAssumption DEF CloudAssumption, CreateLimit
<1>5. ASSUME NEW i \in Jobs PROVE Going(i)' /\ OnwardOf(i)
  <2>1. phase'[i] = (IF i = j THEN p ELSE phase[i]) /\ todo'[i] = IF i = j THEN Needed(kind) ELSE todo[i]
    BY <1>1 DEF Inv, LaunchPart, LaunchTypes
  <2>2. CASE i = j
    <3>1. tries'[i] = 0 /\ phase[i] = "idle" /\ phase'[i] = p
      BY <1>1, <2>1, <2>2 DEF Inv, LaunchPart, Going, Early
    <3> QED
      BY <1>1, <1>2, <1>4, <2>1, <2>2, <3>1 DEF Going, Early, CreateLimit, RecoverLimit
  <2>3. CASE i # j
    BY <1>1, <2>1, <2>3 DEF Inv, LaunchPart, Going, Early, CreateLimit, RecoverLimit
  <2> QED
    BY <2>2, <2>3
<1>6. BirthPart'
  BY <1>1, <1>5, UnbornKeeps DEF Inv
<1> QED
  BY <1>1, <1>3, <1>5, <1>6 DEF Inv, LaunchPart, SharedTypes, StopTypes, HistoryType, stopVars

LEMMA LooksKeeps == ASSUME Inv, NEW j \in Jobs, Looks(j) PROVE Inv'
<1>1. phase[j] = "look" /\ UNCHANGED <<kind, shared, machineVars, stopVars, hit, faults>>
  BY DEF Looks
<1>2. Proceeds(j) \/ \E p \in {"make", "open"} : Becomes(j, p) /\ UNCHANGED <<todo, tries, cause>>
  BY DEF Looks
<1>3. LaunchPart' /\ Onward
  BY <1>1, <1>2, ProceedsKeeps, BecomesKeeps DEF Inv
<1>4. BirthPart'
  BY <1>1, <1>3, UnbornKeeps DEF Inv
<1> QED
  BY <1>1, <1>3, <1>4 DEF Inv, SharedTypes, StopTypes, HistoryType, stopVars

LEMMA MakesKeeps == ASSUME Inv, NEW j \in Jobs, NEW t \in Things, NEW tolerant, Makes(j, t, tolerant) PROVE Inv'
<1>1. phase[j] = "make" /\ UNCHANGED <<kind, machineVars, stopVars, hit, faults>>
  BY DEF Makes
<1>2. \/ Proceeds(j) \/ (Becomes(j, "open") /\ UNCHANGED <<todo, tries, cause>>)
      \/ (Fails(j, "race") /\ UNCHANGED <<todo, tries>>)
  BY DEF Makes
<1>3. LaunchPart' /\ Onward
  <2>1. CASE Proceeds(j)
    BY <1>1, <2>1, ProceedsKeeps DEF Inv
  <2>2. CASE Becomes(j, "open") /\ UNCHANGED <<todo, tries, cause>>
    BY <1>1, <2>2, BecomesKeeps DEF Inv
  <2>3. CASE Fails(j, "race") /\ UNCHANGED <<todo, tries>>
    BY <1>1, <2>3, FailsTypes, LeavesKeeps DEF Inv, LaunchPart, LaunchTypes, Causes
  <2> QED
    BY <1>2, <2>1, <2>2, <2>3
<1>4. BirthPart'
  BY <1>1, <1>3, UnbornKeeps DEF Inv
<1>5. SharedTypes'
  BY <1>1 DEF Makes, Inv, SharedTypes
<1> QED
  BY <1>1, <1>3, <1>4, <1>5 DEF Inv, StopTypes, HistoryType, stopVars

LEMMA AwsOpensGroupKeeps == ASSUME Inv, NEW j \in Jobs, AwsOpensGroup(j) PROVE Inv'
<1>1. phase[j] = "open" /\ Proceeds(j) /\ UNCHANGED <<kind, machineVars, stopVars, hit, faults>>
  BY DEF AwsOpensGroup, Is
<1>2. LaunchPart' /\ Onward
  BY <1>1, ProceedsKeeps DEF Inv
<1>3. BirthPart'
  BY <1>1, <1>2, UnbornKeeps DEF Inv
<1>4. SharedTypes'
  BY <1>1 DEF AwsOpensGroup, Inv, SharedTypes
<1> QED
  BY <1>1, <1>2, <1>3, <1>4 DEF Inv, StopTypes, HistoryType, stopVars

LEMMA AwsAddsRoleKeeps == ASSUME Inv, NEW j \in Jobs, AwsAddsRole(j) PROVE Inv'
<1>1. /\ phase[j] = "open" /\ UNCHANGED <<kind, machineVars, stopVars, hit, faults>>
      /\ Proceeds(j) \/ (Fails(j, "race") /\ UNCHANGED <<todo, tries>>)
  BY DEF AwsAddsRole, Is
<1>2. LaunchPart' /\ Onward
  <2>1. CASE Proceeds(j)
    BY <1>1, <2>1, ProceedsKeeps DEF Inv
  <2>2. CASE Fails(j, "race") /\ UNCHANGED <<todo, tries>>
    BY <1>1, <2>2, FailsTypes, LeavesKeeps DEF Inv, LaunchPart, LaunchTypes, Causes
  <2> QED
    BY <1>1, <2>1, <2>2
<1>3. BirthPart'
  BY <1>1, <1>2, UnbornKeeps DEF Inv
<1>4. SharedTypes'
  BY <1>1 DEF AwsAddsRole, Inv, SharedTypes
<1> QED
  BY <1>1, <1>2, <1>3, <1>4 DEF Inv, StopTypes, HistoryType, stopVars

LEMMA RequestFailsKeeps == ASSUME Inv, NEW j \in Jobs, RequestFails(j) PROVE Inv'
<1>1. Fails(j, "fault") /\ Fault /\ hit' = (hit \/ Opening(j)) /\ UNCHANGED <<kind, shared, todo, tries, machineVars, stopVars>>
  BY DEF RequestFails
<1>2. LaunchPart' /\ Onward
  BY <1>1, FailsTypes, LeavesKeeps DEF Inv, LaunchPart, LaunchTypes, Causes
<1>3. BirthPart'
  BY <1>1, <1>2, UnbornKeeps DEF Inv
<1>4. HistoryType'
  BY <1>1, FaultCounts DEF Inv, HistoryType, stopVars
<1> QED
  BY <1>1, <1>2, <1>3, <1>4 DEF Inv, SharedTypes, StopTypes, stopVars

(* One try more, as long as there was one left. *)
LEMMA TriesTypes ==
    ASSUME SharedTypes, LaunchPart, NEW j \in Jobs, tries[j] < CreateLimit \/ tries[j] < RecoverLimit,
           tries' = [tries EXCEPT ![j] = @ + 1]
    PROVE  /\ tries' \in [Jobs -> 0 .. (IF kind = "runpod" THEN MaxLookups ELSE MaxAttempts)]
           /\ tries'[j] = tries[j] + 1 /\ tries[j] \in Nat /\ \A i \in Jobs : i # j => tries'[i] = tries[i]
<1> DEFINE bound == IF kind = "runpod" THEN MaxLookups ELSE MaxAttempts
<1>1. bound \in Nat /\ CreateLimit \in Nat /\ RecoverLimit \in Nat /\ CreateLimit <= bound /\ RecoverLimit <= bound
  BY CloudAssumption DEF CloudAssumption, CreateLimit, RecoverLimit
<1>2. tries \in [Jobs -> 0 .. bound]
  BY DEF LaunchPart, LaunchTypes
<1>3. tries[j] + 1 \in 0 .. bound
  BY <1>1, <1>2
<1> HIDE DEF bound
<1>4. tries' \in [Jobs -> 0 .. bound] /\ tries'[j] = tries[j] + 1 /\ tries[j] \in Nat /\ \A i \in Jobs : i # j => tries'[i] = tries[i]
  BY <1>1, <1>2, <1>3
<1> QED
  BY <1>4 DEF bound

LEMMA AcceptedKeeps ==
    ASSUME Inv, NEW j \in Jobs, phase[j] = "create" \/ (phase[j] = "resend" /\ kind = "skypilot"), Accepted(j),
           UNCHANGED <<kind, shared, stopVars, hit>>
    PROVE  Inv'
<1>1. Born(j) /\ phase' = [phase EXCEPT ![j] = "launched"] /\ UNCHANGED <<todo, tries, cause, faults>>
  BY DEF Accepted, Becomes
<1>2. LaunchPart' /\ Onward /\ phase'[j] = "launched"
  BY <1>1, LeavesKeeps DEF Inv, LaunchPart, LaunchTypes
<1>3. BirthPart'
  BY <1>1, <1>2, BornKeeps DEF Inv, Early
<1> QED
  BY <1>1, <1>2, <1>3 DEF Inv, SharedTypes, StopTypes, HistoryType, stopVars

LEMMA RefusedKeeps ==
    ASSUME Inv, NEW j \in Jobs, phase[j] = "create", NEW why \in Errors, Refused(j, why, CreateLimit),
           UNCHANGED <<kind, shared, stopVars, hit>>
    PROVE  Inv'
<1>1. tries' = [tries EXCEPT ![j] = @ + 1] /\ todo' = todo
  BY DEF Refused
<1>2. tries[j] < CreateLimit
  BY DEF Inv, LaunchPart, Going
<1>3. /\ tries' \in [Jobs -> 0 .. (IF kind = "runpod" THEN MaxLookups ELSE MaxAttempts)]
      /\ tries'[j] = tries[j] + 1 /\ tries[j] \in Nat /\ \A i \in Jobs : i # j => tries'[i] = tries[i]
  BY <1>1, <1>2, TriesTypes DEF Inv
<1>4. faults' \in 0 .. MaxFaults
  BY FaultCounts DEF Refused, Inv, HistoryType
<1>5. CASE Fails(j, why)
  <2>1. LaunchPart' /\ Onward /\ phase'[j] = "failed"
    BY <1>1, <1>3, <1>5, FailsTypes, LeavesKeeps DEF Inv, Causes
  <2>2. BirthPart'
    <3>1. CASE why \in Lost
      BY <2>1, <3>1, BornKeeps DEF Inv, Early, Refused
    <3>2. CASE why \notin Lost
      BY <2>1, <3>2, UnbornKeeps DEF Inv, Refused
    <3> QED
      BY <3>1, <3>2
  <2> QED
    BY <1>4, <2>1, <2>2 DEF Inv, SharedTypes, StopTypes, HistoryType, stopVars
<1>6. CASE why = "transient" /\ tries[j] + 1 < CreateLimit /\ UNCHANGED <<phase, cause>>
  <2>1. UNCHANGED machineVars
    BY <1>6 DEF Refused, Lost
  <2>2. BirthPart'
    BY <1>6, <2>1, UnbornKeeps DEF Inv
  <2>3. LaunchTypes'
    BY <1>1, <1>3, <1>6 DEF Inv, LaunchPart, LaunchTypes
  <2>4. ASSUME NEW i \in Jobs PROVE Going(i)'
    BY <1>1, <1>3, <1>6 DEF Inv, LaunchPart, Going, CreateLimit, RecoverLimit, Early
  <2> QED
    BY <1>4, <2>2, <2>3, <2>4 DEF Inv, LaunchPart, SharedTypes, StopTypes, HistoryType, stopVars
<1> QED
  BY <1>5, <1>6 DEF Refused, Retryable, Again

LEMMA CreatesKeeps ==
    ASSUME Inv, NEW j \in Jobs, NEW k \in Kinds, Creates(j, k, CreateLimit) PROVE Inv'
  BY AcceptedKeeps, RefusedKeeps DEF Creates, Is

LEMMA RunpodLaunchesKeeps == ASSUME Inv, NEW j \in Jobs, RunpodLaunches(j) PROVE Inv'
<1>1. phase[j] = "create" /\ kind = "runpod" /\ UNCHANGED <<kind, shared, stopVars, hit>> /\ CreateLimit = 1
  BY DEF RunpodLaunches, Is, CreateLimit
<1>2. CASE Fault /\ Becomes(j, "recover") /\ (Born(j) \/ UNCHANGED machineVars) /\ UNCHANGED <<todo, tries, cause>>
  <2>1. tries[j] < RecoverLimit
    BY <1>1, CloudAssumption DEF CloudAssumption, Inv, LaunchPart, LaunchTypes, Going, RecoverLimit
  <2>2. LaunchPart' /\ Onward /\ phase'[j] = "recover"
    BY <1>1, <1>2, <2>1, LeavesKeeps DEF Inv, LaunchPart, LaunchTypes, Becomes
  <2>3. BirthPart'
    BY <1>1, <1>2, <2>2, BornKeeps, UnbornKeeps DEF Inv, Early
  <2> QED
    BY <1>1, <1>2, <2>2, <2>3, FaultCounts DEF Inv, SharedTypes, StopTypes, HistoryType, stopVars
<1> QED
  BY <1>1, <1>2, AcceptedKeeps, RefusedKeeps DEF RunpodLaunches

LEMMA UnheededKeeps ==
    ASSUME Inv, NEW j \in Jobs, phase[j] = "create", Unheeded(j), UNCHANGED <<kind, shared, stopVars, hit>>
    PROVE  Inv'
<1>1. LaunchPart' /\ Onward
  BY LeavesKeeps DEF Unheeded, Inv, LaunchPart, LaunchTypes, Becomes
<1>2. BirthPart'
  BY <1>1, UnbornKeeps DEF Unheeded, Inv
<1> QED
  BY <1>1, <1>2 DEF Unheeded, Inv, SharedTypes, StopTypes, HistoryType, stopVars

LEMMA SlurmLaunchesKeeps == ASSUME Inv, NEW j \in Jobs, SlurmLaunches(j) PROVE Inv'
<1>1. phase[j] = "create" /\ UNCHANGED <<kind, shared, stopVars, hit>> /\ CreateLimit = 1
  BY DEF SlurmLaunches, Is, CreateLimit
<1> QED
  BY <1>1, AcceptedKeeps, UnheededKeeps, RefusedKeeps DEF SlurmLaunches

LEMMA SkypilotLaunchesKeeps == ASSUME Inv, NEW j \in Jobs, SkypilotLaunches(j) PROVE Inv'
<1>1. phase[j] = "create" /\ kind = "skypilot" /\ UNCHANGED <<kind, shared, stopVars, hit>> /\ CreateLimit = 1
  BY DEF SkypilotLaunches, Is, CreateLimit
<1>2. CASE /\ (Fault /\ Born(j)) \/ UNCHANGED <<machineVars, faults>>
           /\ Becomes(j, "resend") /\ UNCHANGED <<todo, tries, cause>>
  <2>1. tries[j] < CreateLimit /\ CreateLimit' = CreateLimit
    BY <1>1 DEF Inv, LaunchPart, Going, CreateLimit
  <2>2. LaunchPart' /\ Onward /\ phase'[j] = "resend"
    BY <1>1, <1>2, <2>1, LeavesKeeps DEF Inv, LaunchPart, LaunchTypes, Becomes, Early
  <2>3. BirthPart'
    BY <1>1, <1>2, <2>2, BornKeeps, UnbornKeeps DEF Inv, Early
  <2> QED
    BY <1>1, <1>2, <2>2, <2>3, FaultCounts DEF Inv, SharedTypes, StopTypes, HistoryType, stopVars
<1> QED
  BY <1>1, <1>2, AcceptedKeeps, UnheededKeeps, RefusedKeeps DEF SkypilotLaunches, Errors

LEMMA SkypilotResendsKeeps == ASSUME Inv, NEW j \in Jobs, SkypilotResends(j) PROVE Inv'
<1>1. phase[j] = "resend" /\ kind = "skypilot" /\ UNCHANGED <<kind, shared, stopVars, hit>>
  BY DEF SkypilotResends, Is
<1>2. CASE /\ (Fault /\ Born(j)) \/ UNCHANGED <<machineVars, faults>>
           /\ Fails(j, "answer") /\ UNCHANGED <<todo, tries>>
  <2>1. LaunchPart' /\ Onward /\ phase'[j] = "failed"
    BY <1>1, <1>2, FailsTypes, LeavesKeeps DEF Inv, LaunchPart, LaunchTypes, Causes, Errors
  <2>2. BirthPart'
    BY <1>1, <1>2, <2>1, BornKeeps, UnbornKeeps DEF Inv, Early
  <2> QED
    BY <1>1, <1>2, <2>1, <2>2, FaultCounts DEF Inv, SharedTypes, StopTypes, HistoryType, stopVars
<1> QED
  BY <1>1, <1>2, AcceptedKeeps DEF SkypilotResends

LEMMA NebiusLaunchesKeeps == ASSUME Inv, NEW j \in Jobs, NebiusLaunches(j) PROVE Inv'
<1>1. phase[j] = "create" /\ kind = "nebius" /\ UNCHANGED <<kind, shared, stopVars, hit>> /\ CreateLimit = 1
  BY DEF NebiusLaunches, Is, CreateLimit
<1>2. CASE Fault /\ Becomes(j, "recover") /\ Born(j) /\ UNCHANGED <<todo, tries, cause>>
  <2>1. tries[j] < RecoverLimit
    BY <1>1 DEF Inv, LaunchPart, LaunchTypes, Going, RecoverLimit
  <2>2. LaunchPart' /\ Onward /\ phase'[j] = "recover"
    BY <1>1, <1>2, <2>1, LeavesKeeps DEF Inv, LaunchPart, LaunchTypes, Becomes
  <2>3. BirthPart'
    BY <1>1, <1>2, <2>2, BornKeeps DEF Inv, Early
  <2> QED
    BY <1>1, <1>2, <2>2, <2>3, FaultCounts DEF Inv, SharedTypes, StopTypes, HistoryType, stopVars
<1> QED
  BY <1>1, <1>2, AcceptedKeeps, RefusedKeeps DEF NebiusLaunches

LEMMA RecoversKeeps == ASSUME Inv, NEW j \in Jobs, Recovers(j, RecoverLimit) PROVE Inv'
<1>1. /\ phase[j] = "recover" /\ tries' = [tries EXCEPT ![j] = @ + 1]
      /\ UNCHANGED <<kind, shared, todo, machineVars, stopVars, hit>>
  BY DEF Recovers
<1>2. tries[j] < RecoverLimit
  BY <1>1 DEF Inv, LaunchPart, Going
<1>3. /\ tries' \in [Jobs -> 0 .. (IF kind = "runpod" THEN MaxLookups ELSE MaxAttempts)]
      /\ tries'[j] = tries[j] + 1 /\ tries[j] \in Nat /\ \A i \in Jobs : i # j => tries'[i] = tries[i]
  BY <1>1, <1>2, TriesTypes DEF Inv
<1>4. faults' \in 0 .. MaxFaults
  BY FaultCounts DEF Recovers, Inv, HistoryType
<1>5. LaunchPart' /\ Onward
  <2>1. CASE Becomes(j, "launched") /\ cause' = cause
    BY <1>1, <1>3, <2>1, LeavesKeeps DEF Inv, LaunchPart, LaunchTypes, Becomes
  <2>2. ASSUME NEW why \in {"unseen", "answer"}, Fails(j, why)
        PROVE  LaunchPart' /\ Onward
    BY <1>1, <1>3, <2>2, FailsTypes, LeavesKeeps DEF Inv, Causes, Errors
  <2>3. CASE tries[j] + 1 < RecoverLimit /\ UNCHANGED <<phase, cause>>
    <3>1. LaunchTypes'
      BY <1>1, <1>3, <2>3 DEF Inv, LaunchPart, LaunchTypes
    <3>2. ASSUME NEW i \in Jobs PROVE Going(i)'
      BY <1>1, <1>3, <2>3 DEF Inv, LaunchPart, Going, CreateLimit, RecoverLimit, Early
    <3> QED
      BY <2>3, <3>1, <3>2 DEF LaunchPart
  <2> QED
    BY <2>1, <2>2, <2>3 DEF Recovers, Again
<1>6. BirthPart'
  BY <1>1, <1>5, UnbornKeeps DEF Inv
<1> QED
  BY <1>1, <1>4, <1>5, <1>6 DEF Inv, SharedTypes, StopTypes, HistoryType, stopVars

LEMMA LaunchKeeps == ASSUME Inv, NEW j \in Jobs, Launch(j) PROVE Inv'
<1>1. CASE Ensures(j)
  <2>1. {"group", "key", "profile", "rule", "network", "subnet"} \subseteq Things
    BY DEF Things
  <2> QED
    BY <1>1, <2>1, LooksKeeps, MakesKeeps, AwsOpensGroupKeeps, AwsAddsRoleKeeps
       DEF Ensures, AwsGroup, AwsKeyPair, AwsProfile, GcpRule, LambdaKey, NebiusNetwork, NebiusSubnet
<1>2. CASE AwsLaunches(j) \/ GcpLaunches(j)
  <2>1. CreateLimit = MaxAttempts /\ {"aws", "gcp"} \subseteq Kinds
    BY <1>2 DEF AwsLaunches, GcpLaunches, Creates, Is, CreateLimit, Kinds
  <2> QED
    BY <1>2, <2>1, CreatesKeeps DEF AwsLaunches, GcpLaunches
<1>3. CASE VastaiLaunches(j) \/ LambdaLaunches(j) \/ DstackLaunches(j)
  <2>1. CreateLimit = 1 /\ {"vastai", "lambda", "dstack"} \subseteq Kinds
    BY <1>3 DEF VastaiLaunches, LambdaLaunches, DstackLaunches, Creates, Is, CreateLimit, Kinds, Schedulers
  <2> QED
    BY <1>3, <2>1, CreatesKeeps DEF VastaiLaunches, LambdaLaunches, DstackLaunches
<1>4. CASE RunpodRecovers(j) \/ NebiusRecovers(j)
  BY <1>4, RecoversKeeps DEF RunpodRecovers, NebiusRecovers, RecoverLimit
<1> QED
  BY <1>1, <1>2, <1>3, <1>4, RequestFailsKeeps, RunpodLaunchesKeeps, NebiusLaunchesKeeps, SlurmLaunchesKeeps,
     SkypilotLaunchesKeeps, SkypilotResendsKeeps DEF Launch, Asks

LEMMA StopLooksKeeps ==
    ASSUME Inv, NEW j \in Jobs, NEW k, NEW finds, NEW swallows, StopLooks(j, k, finds, swallows) PROVE Inv'
<1>1. UNCHANGED <<kind, shared, launchVars, machineVars, hit>>
  BY DEF StopLooks
<1>2. stops' \in 0 .. MaxStops /\ faults' \in 0 .. MaxFaults
  BY FaultCounts, CloudAssumption DEF CloudAssumption, StopLooks, Inv, HistoryType
<1>3. StopTypes'
  BY DEF StopLooks, Nothing, Inv, StopTypes
<1> QED
  BY <1>1, <1>2, <1>3 DEF Inv, SharedTypes, LaunchPart, LaunchTypes, Going, CreateLimit, RecoverLimit, BirthPart, BirthTypes,
     Births, HistoryType, launchVars, machineVars

LEMMA SlurmStopsKeeps == ASSUME Inv, NEW j \in Jobs, SlurmStops(j) PROVE Inv'
<1>1. UNCHANGED <<kind, shared, launchVars, machineVars, hit, faults>>
  BY DEF SlurmStops
<1>2. stops' \in 0 .. MaxStops
  BY CloudAssumption DEF CloudAssumption, SlurmStops, Inv, HistoryType
<1>3. StopTypes'
  BY DEF SlurmStops, Inv, StopTypes
<1> QED
  BY <1>1, <1>2, <1>3 DEF Inv, SharedTypes, LaunchPart, LaunchTypes, Going, CreateLimit, RecoverLimit, BirthPart, BirthTypes,
     Births, HistoryType, launchVars, machineVars

(* A stop ends only what it has found.                                     *)
Found == \A j \in Jobs : stop[j] = "found" => machine[j] # "none"

LEMMA TerminatesKeeps == ASSUME Inv, Found, NEW j \in Jobs, Terminates(j) PROVE Inv'
<1>1. UNCHANGED <<kind, shared, launchVars, born, early, blind, stops, hit>> /\ faults' \in 0 .. MaxFaults
  BY FaultCounts DEF Terminates, Inv, HistoryType
<1>2. StopTypes' /\ machine' \in [Jobs -> {"none", "pending", "running", "gone"}]
  BY DEF Terminates, Inv, StopTypes, BirthPart, BirthTypes
<1>3. machine[j] # "none" /\ \A i \in Jobs : i # j => machine'[i] = machine[i]
  BY DEF Terminates, Found, Inv, BirthPart, BirthTypes
<1>4. ASSUME NEW i \in Jobs PROVE Births(i)'
  BY <1>1, <1>3 DEF Inv, BirthPart, Births, launchVars
<1> QED
  BY <1>1, <1>2, <1>4 DEF Inv, SharedTypes, LaunchPart, LaunchTypes, Going, CreateLimit, RecoverLimit, BirthPart, BirthTypes,
     HistoryType, launchVars

LEMMA MachineKeeps ==
    ASSUME Inv, NEW j \in Jobs, NEW q \in {"running", "gone"}, machine[j] # "none", machine' = [machine EXCEPT ![j] = q],
           UNCHANGED <<kind, shared, launchVars, born, stopVars, hit, faults>>
    PROVE  Inv'
<1>1. BirthPart'
  BY DEF Inv, BirthPart, BirthTypes, Births, launchVars
<1> QED
  BY <1>1 DEF Inv, SharedTypes, LaunchPart, LaunchTypes, Going, CreateLimit, RecoverLimit, StopTypes, HistoryType, launchVars, stopVars

LEMMA CrashKeeps == ASSUME Inv, Crash PROVE Inv'
<1>1. /\ UNCHANGED <<kind, shared, todo, tries, cause, machineVars, early, blind, stops>>
      /\ phase' = [i \in Jobs |-> IF Running(i) THEN "dead" ELSE phase[i]]
  BY DEF Crash
<1>2. StopTypes' /\ HistoryType'
  BY <1>1, FaultCounts DEF Crash, Inv, StopTypes, HistoryType
<1>3. LaunchPart' /\ Onward
  BY <1>1 DEF Inv, LaunchPart, LaunchTypes, Going, Early, Phases, CreateLimit, RecoverLimit
<1>4. BirthPart'
  BY <1>1, <1>3, UnbornKeeps DEF Inv
<1> QED
  BY <1>1, <1>2, <1>3, <1>4 DEF Inv, SharedTypes

(* Machines do not vanish without a trace, and stops are touched by stops  *)
(* and crashes alone.                                                      *)
LEMMA LaunchMachines ==
    ASSUME Inv, NEW j \in Jobs, Starts(j) \/ Launch(j)
    PROVE  stopVars' = stopVars /\ kind' = kind /\ (machineVars' = machineVars \/ Born(j))
<1> USE DEF machineVars
<1>1. CASE Starts(j)
  BY <1>1 DEF Starts
<1>2. CASE Ensures(j)
  BY <1>2 DEF Ensures, Looks, AwsGroup, AwsOpensGroup, AwsKeyPair, AwsProfile, AwsAddsRole, GcpRule, LambdaKey,
              NebiusNetwork, NebiusSubnet, Makes
<1>3. CASE RequestFails(j)
  BY <1>3 DEF RequestFails
<1>4. CASE Asks(j)
  BY <1>4 DEF Asks, AwsLaunches, GcpLaunches, VastaiLaunches, LambdaLaunches, RunpodLaunches, NebiusLaunches,
              RunpodRecovers, NebiusRecovers, DstackLaunches, SlurmLaunches, SkypilotLaunches, SkypilotResends,
              Creates, Is, Accepted, Unheeded, Refused, Recovers
<1> QED
  BY <1>1, <1>2, <1>3, <1>4 DEF Launch

(* What the stops of the providers have in common. *)
LEMMA StopsLook ==
    ASSUME NEW j \in Jobs, Stop(j)
    PROVE  \/ Terminates(j) \/ SlurmStops(j)
           \/ \E swallows \in BOOLEAN :
                 /\ StopLooks(j, kind, Up(j), swallows)
                 /\ swallows => kind \in {"runpod", "vastai", "lambda"}
<1>1. AwsFinds(j) = Up(j)
  BY DEF AwsFinds, Up
<1> QED
  BY <1>1 DEF Stop, AwsStops, GcpStops, RunpodStops, VastaiStops, LambdaStops, NebiusStops, SkypilotStops, DstackStops,
              StopLooks

LEMMA FoundKeeps == Inv /\ Found /\ [Next]_vars => Found'
<1> SUFFICES ASSUME Inv, Found, [Next]_vars PROVE Found'
  OBVIOUS
<1> USE DEF Found, Inv, BirthPart, BirthTypes, StopTypes
<1>1. ASSUME NEW j \in Jobs, Starts(j) \/ Launch(j) PROVE Found'
  BY <1>1, LaunchMachines DEF stopVars, machineVars, Born
<1>2. ASSUME NEW j \in Jobs, Terminates(j) PROVE Found'
  BY <1>2 DEF Terminates
<1>3. ASSUME NEW j \in Jobs, NEW swallows \in BOOLEAN, StopLooks(j, kind, Up(j), swallows) PROVE Found'
  <2>1. machine' = machine /\ (stop'[j] = "found" => Up(j)) /\ \A i \in Jobs : i # j => stop'[i] = stop[i]
    BY <1>3 DEF StopLooks, Nothing, machineVars
  <2> QED
    BY <2>1 DEF Up
<1>4. ASSUME NEW j \in Jobs, Boots(j) \/ TearsItselfDown(j) PROVE Found'
  BY <1>4 DEF Boots, TearsItselfDown, stopVars
<1>5. CASE Crash
  BY <1>5 DEF Crash, machineVars
<1>6. CASE UNCHANGED vars
  BY <1>6 DEF vars, machineVars, stopVars
<1>7. ASSUME NEW j \in Jobs, SlurmStops(j) PROVE Found'
  BY <1>7 DEF SlurmStops, machineVars
<1> QED
  BY <1>1, <1>2, <1>3, <1>4, <1>5, <1>6, <1>7, StopsLook DEF Next

LEMMA InvKeeps == Inv /\ Found /\ [Next]_vars => Inv'
<1> SUFFICES ASSUME Inv, Found, [Next]_vars PROVE Inv'
  OBVIOUS
<1>1. ASSUME NEW j \in Jobs, Boots(j) \/ TearsItselfDown(j) PROVE Inv'
  BY <1>1, MachineKeeps DEF Boots, TearsItselfDown
<1>2. CASE UNCHANGED vars
  BY <1>2 DEF vars, launchVars, machineVars, stopVars, Inv, SharedTypes, LaunchPart, LaunchTypes, Going, CreateLimit,
              RecoverLimit, BirthPart, BirthTypes, Births, StopTypes, HistoryType
<1> QED
  BY <1>1, <1>2, StartsKeeps, LaunchKeeps, StopsLook, StopLooksKeeps, SlurmStopsKeeps, TerminatesKeeps,
     CrashKeeps DEF Next

LEMMA InitInv == Init => Inv /\ Found
<1> SUFFICES ASSUME Init PROVE Inv /\ Found
  OBVIOUS
<1>1. <<>> \in Seq(Things)
  OBVIOUS
<1> USE CloudAssumption DEF CloudAssumption, Init
<1>2. SharedTypes /\ StopTypes
  BY DEF SharedTypes, StopTypes
<1>5. HistoryType
  <2>1. MaxFaults \in Nat /\ MaxStops \in Nat /\ faults = 0 /\ stops = 0 /\ hit = FALSE
    OBVIOUS
  <2>2. faults \in 0 .. MaxFaults /\ stops \in 0 .. MaxStops
    BY <2>1
  <2> QED
    BY <2>1, <2>2 DEF HistoryType
<1>6. Found
  BY DEF Found
<1>3. LaunchPart
  BY <1>1 DEF LaunchPart, LaunchTypes, Going, Phases, Early, Causes
<1>4. BirthPart
  BY DEF BirthPart, BirthTypes, Births
<1> QED
  BY <1>2, <1>3, <1>4, <1>5, <1>6 DEF Inv

LEMMA InvHolds == Spec => [](Inv /\ Found)
  BY InitInv, FoundKeeps, InvKeeps, PTL DEF Spec
-------------------------------------------------------------------------------
(* Launches, machines and stops are of their declared types; in particular  *)
(* no launch asks for its machine more often than it may.                  *)
THEOREM TypeCorrect == Spec => []TypeOK
  BY InvHolds, InvTypes, PTL

(* However a launch is tried again, whichever answers are lost and whoever *)
(* stops it, on each of the nine providers: one machine at most for a job, *)
(* and two at most of SkyPilot (launch_cluster of aws.py, gcp.py and so on).*)
THEOREM OneMachine == Spec => []OneMachineEach
<1>1. Inv => OneMachineEach
  BY DEF Inv, BirthPart, Births, OneMachineEach
<1> QED
  BY <1>1, InvHolds, PTL
-------------------------------------------------------------------------------
(* A launch moves its own job alone, and only while it runs. *)
LEMMA LaunchOthers ==
    ASSUME Inv, NEW j \in Jobs, Starts(j) \/ Launch(j), NEW i \in Jobs, i # j
    PROVE  todo'[i] = todo[i] /\ phase'[i] = phase[i] /\ cause'[i] = cause[i] /\ machine'[i] = machine[i]
<1> USE DEF Inv, LaunchPart, LaunchTypes, BirthPart, BirthTypes, Becomes, Fails, Proceeds, machineVars
<1>1. CASE Starts(j)
  BY <1>1 DEF Starts
<1>2. CASE Looks(j)
  BY <1>2 DEF Looks
<1>3. ASSUME NEW t, NEW tolerant, Makes(j, t, tolerant)
      PROVE  todo'[i] = todo[i] /\ phase'[i] = phase[i] /\ cause'[i] = cause[i] /\ machine'[i] = machine[i]
  BY <1>3 DEF Makes
<1>4. CASE AwsOpensGroup(j) \/ AwsAddsRole(j)
  BY <1>4 DEF AwsOpensGroup, AwsAddsRole
<1>5. CASE Ensures(j)
  BY <1>2, <1>3, <1>4, <1>5 DEF Ensures, AwsGroup, AwsKeyPair, AwsProfile, GcpRule, LambdaKey, NebiusNetwork, NebiusSubnet
<1>6. CASE RequestFails(j)
  BY <1>6 DEF RequestFails
<1>7. ASSUME NEW k, NEW limit, Creates(j, k, limit)
      PROVE  todo'[i] = todo[i] /\ phase'[i] = phase[i] /\ cause'[i] = cause[i] /\ machine'[i] = machine[i]
  BY <1>7 DEF Creates, Accepted, Born, Refused
<1>8. CASE RunpodLaunches(j) \/ NebiusLaunches(j) \/ SlurmLaunches(j) \/ SkypilotLaunches(j) \/ SkypilotResends(j)
  BY <1>8 DEF RunpodLaunches, NebiusLaunches, SlurmLaunches, SkypilotLaunches, SkypilotResends, Accepted, Unheeded, Born, Refused
<1>9. CASE RunpodRecovers(j) \/ NebiusRecovers(j)
  BY <1>9 DEF RunpodRecovers, NebiusRecovers, Recovers
<1> QED
  BY <1>1, <1>5, <1>6, <1>7, <1>8, <1>9 DEF Launch, Asks, AwsLaunches, GcpLaunches, VastaiLaunches, LambdaLaunches,
     DstackLaunches

LEMMA LaunchRuns ==
    ASSUME NEW j \in Jobs, Starts(j) \/ Launch(j)
    PROVE  phase[j] \in Early \cup {"resend", "recover"}
<1> USE DEF Early
<1>1. CASE Starts(j)
  BY <1>1 DEF Starts
<1>2. CASE Ensures(j)
  BY <1>2 DEF Ensures, Looks, AwsGroup, AwsOpensGroup, AwsKeyPair, AwsProfile, AwsAddsRole, GcpRule, LambdaKey,
              NebiusNetwork, NebiusSubnet, Makes, Is
<1>3. CASE RequestFails(j)
  BY <1>3 DEF RequestFails
<1>4. CASE Asks(j)
  BY <1>4 DEF Asks, AwsLaunches, GcpLaunches, VastaiLaunches, LambdaLaunches, RunpodLaunches, NebiusLaunches,
              RunpodRecovers, NebiusRecovers, DstackLaunches, SlurmLaunches, SkypilotLaunches, SkypilotResends,
              Creates, Is, Recovers
<1> QED
  BY <1>1, <1>2, <1>3, <1>4 DEF Launch

(* What a stop has left alone stays as it is: a machine is no more up than *)
(* it was, unless a launch makes it.                                       *)
LEMMA StopMachines ==
    ASSUME Inv, NEW j \in Jobs, Stop(j) \/ Boots(j) \/ TearsItselfDown(j)
    PROVE  /\ UNCHANGED <<kind, shared, launchVars, hit>> /\ \A i \in Jobs : Up(i)' => Up(i)
<1> USE DEF Inv, BirthPart, BirthTypes, machineVars, Up
<1>1. CASE Terminates(j)
  BY <1>1 DEF Terminates
<1>2. ASSUME NEW swallows, StopLooks(j, kind, Up(j), swallows)
      PROVE  UNCHANGED <<kind, shared, launchVars, hit>> /\ \A i \in Jobs : Up(i)' => Up(i)
  BY <1>2 DEF StopLooks
<1>3. CASE Boots(j) \/ TearsItselfDown(j)
  BY <1>3 DEF Boots, TearsItselfDown
<1>4. CASE SlurmStops(j)
  BY <1>4 DEF SlurmStops
<1> QED
  BY <1>1, <1>2, <1>3, <1>4, StopsLook

(* A launch that fails with a machine up knows why. *)
Excused(j) == cause[j] \in {"timeout", "unseen"} \/ (cause[j] = "answer" /\ kind # "runpod")
LEMMA LaunchFails ==
    ASSUME Inv, NEW j \in Jobs, Launch(j), phase'[j] = "failed", Up(j)'
    PROVE  Excused(j)'
<1> USE DEF machineVars
<1>0. phase \in [Jobs -> Phases] /\ cause \in [Jobs -> Causes] /\ kind' = kind
  BY LaunchMachines DEF Inv, LaunchPart, LaunchTypes
<1>1. CASE Ensures(j) \/ RequestFails(j)
  <2>1. machine' = machine /\ phase[j] \in Early
    BY <1>1 DEF Ensures, RequestFails, Looks, AwsGroup, AwsOpensGroup, AwsKeyPair, AwsProfile, AwsAddsRole, GcpRule, LambdaKey,
              NebiusNetwork, NebiusSubnet, Makes, Is, Early
  <2> QED
    BY <2>1 DEF Inv, BirthPart, Births, Up
<1>2. ASSUME phase[j] = "create", NEW why \in Errors, NEW limit, Refused(j, why, limit) PROVE why \in Lost /\ cause'[j] = why
  <2>1. why \in Lost
    BY <1>2 DEF Refused, Inv, BirthPart, Births, Up, Early
  <2>2. Fails(j, why)
    BY <1>0, <1>2, <2>1 DEF Refused, Retryable, Lost
  <2> QED
    BY <1>0, <2>1, <2>2 DEF Fails
<1>3. ~Accepted(j) /\ ~Unheeded(j)
  BY <1>0 DEF Accepted, Unheeded, Becomes
<1>4. ASSUME NEW k \in Kinds \ {"runpod"}, NEW limit, Creates(j, k, limit) PROVE Excused(j)'
  BY <1>0, <1>2, <1>3, <1>4 DEF Creates, Is, Excused, Lost
<1>5. CASE RunpodLaunches(j)
  BY <1>0, <1>2, <1>3, <1>5 DEF RunpodLaunches, Is, Excused, Lost, LooksFor, Becomes
<1>6. CASE NebiusLaunches(j)
  BY <1>0, <1>2, <1>3, <1>6 DEF NebiusLaunches, Is, Excused, Lost, Becomes
<1>7. CASE RunpodRecovers(j) \/ NebiusRecovers(j)
  BY <1>0, <1>7 DEF RunpodRecovers, NebiusRecovers, Recovers, Becomes, Fails, Up, Excused
<1>8. CASE SlurmLaunches(j)
  BY <1>0, <1>2, <1>3, <1>8 DEF SlurmLaunches, Is, Excused, Lost
<1>9. CASE SkypilotLaunches(j)
  <2>1. ~Becomes(j, "resend")
    BY <1>0 DEF Becomes
  <2>2. PICK why \in {"refused", "timeout"} : Refused(j, why, 1)
    BY <1>3, <1>9, <2>1 DEF SkypilotLaunches
  <2>3. phase[j] = "create" /\ why \in Errors
    BY <1>9 DEF SkypilotLaunches, Is, Errors
  <2>4. why \in Lost /\ cause'[j] = why
    BY <1>2, <2>2, <2>3
  <2> QED
    BY <2>4 DEF Lost, Excused
<1>10. CASE SkypilotResends(j)
  BY <1>0, <1>3, <1>10 DEF SkypilotResends, Is, Excused, Fails
<1> QED
  BY <1>1, <1>4, <1>5, <1>6, <1>7, <1>8, <1>9, <1>10
     DEF Launch, Asks, AwsLaunches, GcpLaunches, VastaiLaunches, LambdaLaunches, DstackLaunches, Kinds, Schedulers

(* A machine that nobody knows of is there only after a lost answer or a   *)
(* list that lagged behind, whatever the number of launches and faults     *)
(* (launch_cluster and _recover_pod_after_error of runpod.py).             *)
THEOREM AllOrphansExplained == Spec => []OrphansExplained
<1>1. Init => OrphansExplained
  BY DEF Init, OrphansExplained
<1>2. Inv /\ OrphansExplained /\ [Next]_vars => OrphansExplained'
  <2> SUFFICES ASSUME Inv, OrphansExplained, [Next]_vars, NEW i \in Jobs, phase'[i] = "failed", Up(i)' PROVE Excused(i)'
    BY DEF OrphansExplained, Excused
  <2>0. phase[i] = "failed" /\ Up(i) => Excused(i)
    BY DEF OrphansExplained, Excused
  <2>1. ASSUME NEW j \in Jobs, Starts(j) PROVE Excused(i)'
    BY <2>0, <2>1, LaunchOthers, LaunchMachines DEF Starts, Becomes, Excused, Up, Inv, LaunchPart, LaunchTypes
  <2>2. ASSUME NEW j \in Jobs, Launch(j) PROVE Excused(i)'
    BY <2>0, <2>2, LaunchOthers, LaunchMachines, LaunchFails DEF Excused, Up
  <2>3. ASSUME NEW j \in Jobs, Stop(j) \/ Boots(j) \/ TearsItselfDown(j) PROVE Excused(i)'
    BY <2>0, <2>3, StopMachines DEF launchVars, Excused
  <2>4. CASE Crash
    BY <2>0, <2>4 DEF Crash, Excused, Up, machineVars, Inv, LaunchPart, LaunchTypes
  <2>5. CASE UNCHANGED vars
    BY <2>0, <2>5 DEF vars, launchVars, machineVars, Excused, Up
  <2> QED
    BY <2>1, <2>2, <2>3, <2>4, <2>5 DEF Next
<1> QED
  BY <1>1, <1>2, InvHolds, PTL DEF Spec
-------------------------------------------------------------------------------
(* A stop that was not early came after the launch, and what it answers is *)
(* so; an empty answer it may have got from an error is counted in blind.  *)
Blind == {"runpod", "vastai", "lambda", "slurm"}
Answered(j) == stop[j] \in {"found", "absent", "done"} /\ j \notin early
LateStops ==
    /\ \A j \in Jobs : Answered(j) => phase[j] \in {"launched", "failed", "dead"}
    /\ \A j \in Jobs : Answered(j) /\ stop[j] \in {"absent", "done"} /\ Up(j) => j \in blind
    /\ \A j \in Jobs : j \in blind => kind \in Blind

LEMMA StopLooksLate ==
    ASSUME Inv, LateStops, NEW j \in Jobs, NEW swallows \in BOOLEAN, StopLooks(j, kind, Up(j), swallows),
           swallows => kind \in {"runpod", "vastai", "lambda"}
    PROVE  LateStops'
<1>1. /\ phase' = phase /\ machine' = machine /\ kind' = kind /\ phase[j] # "idle" /\ phase[j] \in Phases
      /\ early' = IF Running(j) THEN early \cup {j} ELSE early \ {j}
  BY DEF StopLooks, launchVars, machineVars, Inv, LaunchPart, LaunchTypes
<1>2. stop' = [stop EXCEPT ![j] = stop'[j]] /\ stop \in [Jobs -> {"none", "found", "absent", "done", "failed"}]
  BY DEF StopLooks, Nothing, Inv, StopTypes
<1>3. \/ stop'[j] = "found" /\ blind' = blind \ {j}
      \/ stop'[j] = "absent" /\ ~Up(j) /\ blind' = blind \ {j}
      \/ stop'[j] = "failed" /\ blind' = blind \ {j}
      \/ stop'[j] = "absent" /\ blind' = blind \cup {j} /\ kind \in {"runpod", "vastai", "lambda"}
  BY <1>2 DEF StopLooks, Nothing
<1>4. ASSUME NEW i \in Jobs, i # j
      PROVE  /\ Answered(i)' = Answered(i) /\ stop'[i] = stop[i] /\ Up(i)' = Up(i) /\ (i \in blind' <=> i \in blind)
  BY <1>1, <1>2, <1>3, <1>4 DEF Answered, Up
<1>5. Answered(j)' => phase'[j] \in {"launched", "failed", "dead"}
  BY <1>1 DEF Answered, Running, Phases, Early
<1>6. Up(j)' = Up(j)
  BY <1>1 DEF Up
<1>7. Answered(j)' /\ stop'[j] \in {"absent", "done"} /\ Up(j)' => j \in blind'
  BY <1>3, <1>6
<1>8. j \in blind' => kind' \in Blind
  BY <1>1, <1>3 DEF Blind
<1> QED
  BY <1>1, <1>4, <1>5, <1>7, <1>8 DEF LateStops

(* A stop that answers that the machine is gone, or is not there, is right  *)
(* for ever, unless the launch was still under way or a provider swallowed *)
(* an error or does not look (stop_cluster of the nine providers).         *)
THEOREM StopsFinal == Spec => []StopsForGood
<1>1. Init => LateStops
  BY DEF Init, LateStops, Answered
<1>2. Inv /\ LateStops /\ [Next]_vars => LateStops'
  <2> SUFFICES ASSUME Inv, LateStops, [Next]_vars PROVE LateStops'
    OBVIOUS
  <2>1. ASSUME NEW j \in Jobs, Starts(j) \/ Launch(j) PROVE LateStops'
    <3>1. ~Answered(j) /\ stopVars' = stopVars /\ kind' = kind
      BY <2>1, LaunchRuns, LaunchMachines DEF LateStops, Early
    <3>2. \A i \in Jobs : i # j => phase'[i] = phase[i] /\ machine'[i] = machine[i]
      BY <2>1, LaunchOthers
    <3> QED
      BY <3>1, <3>2 DEF LateStops, Answered, Up, stopVars
  <2>2. ASSUME NEW j \in Jobs, Terminates(j) PROVE LateStops'
    BY <2>2 DEF Terminates, LateStops, Answered, Up, launchVars, Inv, StopTypes, BirthPart, BirthTypes
  <2>3. ASSUME NEW j \in Jobs, Boots(j) \/ TearsItselfDown(j) PROVE LateStops'
    <3>1. \A i \in Jobs : Up(i)' => Up(i)
      BY <2>3, StopMachines
    <3> QED
      BY <2>3, <3>1 DEF Boots, TearsItselfDown, LateStops, Answered, launchVars, stopVars
  <2>4. CASE Crash
    BY <2>4 DEF Crash, LateStops, Answered, Up, Running, machineVars, Inv, LaunchPart, LaunchTypes, StopTypes
  <2>5. CASE UNCHANGED vars
    BY <2>5 DEF vars, launchVars, machineVars, stopVars, LateStops, Answered, Up
  <2>6. ASSUME NEW j \in Jobs, SlurmStops(j) PROVE LateStops'
    BY <2>6 DEF SlurmStops, LateStops, Answered, Up, Blind, Running, launchVars, machineVars, Inv, StopTypes, LaunchPart, LaunchTypes,
                Phases, Early
  <2> QED
    BY <2>1, <2>2, <2>3, <2>4, <2>5, <2>6, StopsLook, StopLooksLate DEF Next
<1>3. LateStops => StopsForGood
  BY DEF LateStops, Answered, StopsForGood, Blind
<1> QED
  BY <1>1, <1>2, <1>3, InvHolds, PTL DEF Spec
-------------------------------------------------------------------------------
(* The group and the profile through one step of one launch. *)
GroupOpen == shared["group"] = "closed" => hit \/ \E j \in Jobs : Opening(j)
RoleThere(j) == kind = "aws" /\ phase[j] \in {"create", "launched"} => shared["profile"] = "ready"

LEMMA AwsTodo ==
    ASSUME Inv, NEW j \in Jobs, kind = "aws", phase[j] \in {"look", "make", "open"}, Proceeds(j), phase'[j] # "look"
    PROVE  Head(todo[j]) = "profile"
<1>1. todo[j] \in Left("aws") /\ phase[j] \in Phases
  BY DEF Inv, LaunchPart, LaunchTypes, Going
<1>2. Len(todo[j]) = 1
  BY DEF Proceeds, Becomes, Inv, LaunchPart, LaunchTypes
<1> QED
  BY <1>1, <1>2, LeftFacts DEF Kinds

(* Of shared things only the one at hand changes, and what is ready stays. *)
LEMMA SharedStep ==
    ASSUME Inv, NEW j \in Jobs, Starts(j) \/ Launch(j)
    PROVE  /\ shared["profile"] = "ready" => shared'["profile"] = "ready"
           /\ hit => hit'
<1> USE DEF Inv, SharedTypes, Things
<1>1. ASSUME NEW t \in Things, NEW tolerant, Makes(j, t, tolerant)
      PROVE  (shared["profile"] = "ready" => shared'["profile"] = "ready") /\ hit' = hit
  BY <1>1 DEF Makes
<1>2. CASE Starts(j) \/ Looks(j)
  BY <1>2 DEF Starts, Looks
<1>3. CASE AwsOpensGroup(j)
  BY <1>3 DEF AwsOpensGroup
<1>4. CASE AwsAddsRole(j)
  BY <1>4 DEF AwsAddsRole
<1>5. CASE RequestFails(j)
  <2>1. shared' = shared /\ hit' = (hit \/ Opening(j))
    BY <1>5 DEF RequestFails
  <2> QED
    BY <2>1
<1>6. CASE Asks(j)
  BY <1>6 DEF Asks, AwsLaunches, GcpLaunches, VastaiLaunches, LambdaLaunches, RunpodLaunches, NebiusLaunches,
              RunpodRecovers, NebiusRecovers, DstackLaunches, SlurmLaunches, SkypilotLaunches, SkypilotResends, Creates, Recovers
<1> QED
  BY <1>1, <1>2, <1>3, <1>4, <1>5, <1>6 DEF Launch, Ensures, AwsGroup, AwsKeyPair, AwsProfile, GcpRule, LambdaKey, NebiusNetwork, NebiusSubnet

LEMMA GroupStep ==
    ASSUME Inv, GroupOpen, NEW j \in Jobs, Starts(j) \/ Launch(j) PROVE GroupOpen'
<1> USE DEF Inv, SharedTypes, Things
<1>0. phase \in [Jobs -> Phases] /\ todo \in [Jobs -> Seq(Things)]
  BY DEF LaunchPart, LaunchTypes
<1>1. \A i \in Jobs : i # j => (Opening(i)' <=> Opening(i))
  BY LaunchOthers DEF Opening
<1>2. SUFFICES ASSUME shared'["group"] = "closed", ~hit'
               PROVE  Opening(j)' \/ (~Opening(j) /\ shared["group"] = "closed")
  BY <1>1, SharedStep DEF GroupOpen
<1>3. ASSUME NEW t \in Things, NEW tolerant, Makes(j, t, tolerant) PROVE Opening(j)' \/ (~Opening(j) /\ shared["group"] = "closed")
  <2>1. phase[j] = "make" /\ Head(todo[j]) = t
    BY <1>3 DEF Makes
  <2>2. CASE shared' = [shared EXCEPT ![t] = "closed"] /\ Becomes(j, "open") /\ UNCHANGED <<todo, tries, cause>>
    BY <1>0, <1>2, <2>1, <2>2 DEF Becomes, Opening
  <2>3. CASE shared' = [shared EXCEPT ![t] = "ready"] \/ shared' = shared
    BY <1>2, <2>1, <2>3 DEF Opening
  <2> QED
    BY <1>3, <2>2, <2>3 DEF Makes
<1>4. CASE Starts(j) \/ Looks(j)
  BY <1>2, <1>4 DEF Starts, Looks, Opening
<1>5. CASE AwsOpensGroup(j)
  BY <1>2, <1>5 DEF AwsOpensGroup
<1>6. CASE AwsAddsRole(j)
  BY <1>2, <1>6 DEF AwsAddsRole, Opening
<1>7. CASE RequestFails(j)
  BY <1>2, <1>7 DEF RequestFails
<1>8. CASE Asks(j)
  BY <1>2, <1>8 DEF Asks, AwsLaunches, GcpLaunches, VastaiLaunches, LambdaLaunches, RunpodLaunches, NebiusLaunches,
              RunpodRecovers, NebiusRecovers, DstackLaunches, SlurmLaunches, SkypilotLaunches, SkypilotResends,
              Creates, Recovers, Is, Opening
<1> QED
  BY <1>3, <1>4, <1>5, <1>6, <1>7, <1>8
     DEF Launch, Ensures, AwsGroup, AwsKeyPair, AwsProfile, GcpRule, LambdaKey, NebiusNetwork, NebiusSubnet

LEMMA RoleStep ==
    ASSUME Inv, NEW j \in Jobs, RoleThere(j), Starts(j) \/ Launch(j) PROVE RoleThere(j)'
<1>0. phase \in [Jobs -> Phases] /\ kind' = kind /\ shared \in [Things -> {"absent", "closed", "ready"}]
  BY LaunchMachines DEF Inv, SharedTypes, LaunchPart, LaunchTypes
<1>1. SUFFICES ASSUME kind = "aws", phase'[j] \in {"create", "launched"}, shared["profile"] # "ready"
               PROVE  shared'["profile"] = "ready"
  BY <1>0, SharedStep DEF RoleThere
<1>2. phase[j] # "create"
  BY <1>1 DEF RoleThere
<1>3. ~Starts(j)
  BY <1>0, <1>1 DEF Starts, Needed, Becomes
<1>4. ~Asks(j)
  BY <1>1, <1>2 DEF Asks, AwsLaunches, GcpLaunches, VastaiLaunches, LambdaLaunches, RunpodLaunches, NebiusLaunches,
              RunpodRecovers, NebiusRecovers, DstackLaunches, SlurmLaunches, SkypilotLaunches, SkypilotResends, Creates, Is
<1>5. ~RequestFails(j)
  BY <1>0, <1>1 DEF RequestFails, Fails, Becomes
<1>6. ASSUME phase[j] \in {"look", "make", "open"}, Proceeds(j) PROVE Head(todo[j]) = "profile"
  BY <1>1, <1>6, AwsTodo
<1>7. ASSUME NEW p \in {"make", "open", "failed"}, Becomes(j, p) PROVE FALSE
  BY <1>0, <1>1, <1>7 DEF Becomes
<1>8. ~Looks(j)
  BY <1>0, <1>1, <1>6, <1>7 DEF Looks, Repaired, Things
<1>9. ASSUME NEW t \in Things, Makes(j, t, FALSE) PROVE FALSE
  BY <1>6, <1>7, <1>9 DEF Makes, Halves, Fails
<1>10. ~AwsOpensGroup(j)
  BY <1>6 DEF AwsOpensGroup, Is
<1>11. CASE AwsAddsRole(j)
  BY <1>0, <1>11 DEF AwsAddsRole, Things
<1> QED
  BY <1>1, <1>3, <1>4, <1>5, <1>8, <1>9, <1>10, <1>11
     DEF Launch, Ensures, AwsGroup, AwsKeyPair, AwsProfile, GcpRule, LambdaKey, NebiusNetwork, NebiusSubnet, Things

(* Whatever broke off which launch, for any number of launches: a group     *)
(* without its rule has a launch that was broken off, or is at it; no      *)
(* machine is asked for with a profile without its role (aws.py).          *)
THEOREM AllSharedWhole == Spec => []SharedWhole
<1>1. Init => SharedWhole
  BY DEF Init, SharedWhole, Things
<1>2. Inv /\ SharedWhole /\ [Next]_vars => SharedWhole'
  <2> SUFFICES ASSUME Inv, GroupOpen, \A i \in Jobs : RoleThere(i), [Next]_vars
               PROVE  GroupOpen' /\ \A i \in Jobs : RoleThere(i)'
    BY DEF SharedWhole, GroupOpen, RoleThere
  <2>1. ASSUME NEW j \in Jobs, Starts(j) \/ Launch(j) PROVE GroupOpen' /\ \A i \in Jobs : RoleThere(i)'
    <3>1. ASSUME NEW i \in Jobs, i # j PROVE RoleThere(i)'
      BY <2>1, <3>1, LaunchOthers, LaunchMachines, SharedStep DEF RoleThere
    <3> QED
      BY <2>1, <3>1, GroupStep, RoleStep
  <2>2. ASSUME NEW j \in Jobs, Stop(j) \/ Boots(j) \/ TearsItselfDown(j) PROVE GroupOpen' /\ \A i \in Jobs : RoleThere(i)'
    BY <2>2, StopMachines DEF GroupOpen, RoleThere, Opening, launchVars
  <2>3. CASE Crash
    BY <2>3 DEF Crash, GroupOpen, RoleThere, Opening, Running
  <2>4. CASE UNCHANGED vars
    BY <2>4 DEF vars, GroupOpen, RoleThere, Opening, launchVars
  <2> QED
    BY <2>1, <2>2, <2>3, <2>4 DEF Next
<1> QED
  BY <1>1, <1>2, InvHolds, PTL DEF Spec
-------------------------------------------------------------------------------
(* AzureMachine.                                                           *)

(* The launch asks for one image more only if there is one. *)
ImageLeft == pc[Launcher] \in Making \cup {"idle"} => image < Images

(* What a fault adds to the history. *)
LEMMA FaultType == AzureTypeOK /\ Trouble => trouble' \in 0 .. MaxTrouble
  BY AzureAssumption DEF AzureAssumption, AzureTypeOK, Trouble
LEMMA ForNoReasonType ==
    AzureTypeOK /\ ForNoReason => trouble' \in 0 .. MaxTrouble /\ broken' \subseteq {"cascade", "delete", "restart"}
<1> SUFFICES ASSUME AzureTypeOK, ForNoReason PROVE trouble' \in 0 .. MaxTrouble /\ broken' \subseteq {"cascade", "delete", "restart"}
  OBVIOUS
<1>1. Trouble /\ broken' = broken \cup {"delete"}
  BY DEF ForNoReason
<1>2. trouble' \in 0 .. MaxTrouble
  BY <1>1, FaultType
<1>3. broken' \subseteq {"cascade", "delete", "restart"}
  BY <1>1 DEF AzureTypeOK
<1> QED
  BY <1>2, <1>3

(* A thread after a deletion that was answered, and after one refused. *)
LEMMA DeletedType ==
    ASSUME AzureTypeOK, NEW t \in Threads, NEW p \in Deleting \cup Ended, Deleted(t, p)
    PROVE  /\ pc' \in [Threads -> {"idle"} \cup Making \cup Deleting \cup Ended]
           /\ tried' \in [Threads -> 0 .. MaxTries - 1]
           /\ gaveUp' = gaveUp /\ broken' = broken /\ trouble' = trouble
  BY AzureAssumption DEF AzureAssumption, AzureTypeOK, Deleted, Goes
LEMMA NotDeletedType ==
    ASSUME AzureTypeOK, NEW t \in Threads, NEW p \in Deleting \cup Ended, NEW r \in {"vm", "nic", "pip"},
           NEW inUse, NotDeleted(t, r, inUse, p)
    PROVE  /\ pc' \in [Threads -> {"idle"} \cup Making \cup Deleting \cup Ended]
           /\ tried' \in [Threads -> 0 .. MaxTries - 1]
           /\ gaveUp' \subseteq Threads \X {"vm", "nic", "pip"}
           /\ broken' \subseteq {"cascade", "delete", "restart"} /\ trouble' \in 0 .. MaxTrouble
<1>1. broken' \subseteq {"cascade", "delete", "restart"} /\ trouble' \in 0 .. MaxTrouble
  BY ForNoReasonType DEF NotDeleted, AzureTypeOK
<1>2. tried' \in [Threads -> 0 .. MaxTries - 1]
  BY AzureAssumption DEF AzureAssumption, NotDeleted, AzureTypeOK, TriesLeft
<1>3. pc' \in [Threads -> {"idle"} \cup Making \cup Deleting \cup Ended]
  BY DEF NotDeleted, AzureTypeOK, Goes
<1>4. gaveUp' \subseteq Threads \X {"vm", "nic", "pip"}
  BY DEF NotDeleted, AzureTypeOK
<1> QED
  BY <1>1, <1>2, <1>3, <1>4

(* Resources, threads and counters are of their declared types; in          *)
(* particular no deletion is tried more often than there are delays for,    *)
(* and no more images than there are.                                      *)
THEOREM AzureTypeCorrect == AzureSpec => [](AzureTypeOK /\ ImageLeft)
<1>1. AzureInit => AzureTypeOK /\ ImageLeft
  <2>1. 0 \in 0 .. MaxTries - 1 /\ 0 \in 0 .. Images /\ 0 \in 0 .. MaxTrouble /\ 0 < Images
    BY AzureAssumption DEF AzureAssumption
  <2> QED
    BY <2>1 DEF AzureInit, AzureTypeOK, ImageLeft
<1>2. AzureTypeOK /\ ImageLeft /\ [AzureNext]_azureVars => AzureTypeOK' /\ ImageLeft'
  <2> SUFFICES ASSUME AzureTypeOK, ImageLeft, [AzureNext]_azureVars PROVE AzureTypeOK' /\ ImageLeft'
    OBVIOUS
  <2>0. Images \in Nat /\ Launcher \in Threads /\ image \in 0 .. Images
    BY AzureAssumption DEF AzureAssumption, Threads, AzureTypeOK
  <2> USE DEF AzureTypeOK, ImageLeft, Making, Deleting, Ended, At, Goes, cloudVars, ghostVars
  <2>1. CASE LaunchBegins
    BY <2>0, <2>1 DEF LaunchBegins
  <2>2. CASE EnsuresNetwork
    BY <2>0, <2>2, FaultType DEF EnsuresNetwork
  <2>3. CASE MakesPip
    BY <2>0, <2>3, FaultType DEF MakesPip
  <2>4. CASE MakesNic
    BY <2>0, <2>4, FaultType DEF MakesNic
  <2>5. CASE AsksForVm
    <3>1. image < Images /\ pc[Launcher] = "vm"
      BY <2>5 DEF AsksForVm
    <3>2. image' \in 0 .. Images /\ pc' \in [Threads -> {"idle"} \cup Making \cup Deleting \cup Ended]
      BY <2>0, <2>5, <3>1 DEF AsksForVm, NextImage, Cleans
    <3>3. trouble' \in 0 .. MaxTrouble
      BY <2>5, FaultType DEF AsksForVm
    <3>4. ImageLeft'
      BY <2>0, <2>5, <3>1 DEF AsksForVm, NextImage, Cleans
    <3>5. vm' \in {"none", "creating", "up", "failed", "deleting"}
      BY <2>5 DEF AsksForVm
    <3> QED
      BY <2>5, <3>2, <3>3, <3>4, <3>5 DEF AsksForVm
  <2>6. CASE AwaitsVm
    <3>1. image < Images /\ pc[Launcher] = "await"
      BY <2>6 DEF AwaitsVm
    <3>2. image' \in 0 .. Images /\ pc' \in [Threads -> {"idle"} \cup Making \cup Deleting \cup Ended]
      BY <2>0, <2>6, <3>1 DEF AwaitsVm, NextImage, Cleans
    <3>4. ImageLeft'
      BY <2>0, <2>6, <3>1 DEF AwaitsVm, NextImage, Cleans
    <3> QED
      BY <2>6, <3>2, <3>4 DEF AwaitsVm
  <2>7. CASE VmMade
    BY <2>7, FaultType DEF VmMade
  <2>8. CASE VmGone
    BY <2>8 DEF VmGone
  <2>9. CASE NicGone
    <3>1. trouble' \in 0 .. MaxTrouble /\ broken' \subseteq {"cascade", "delete", "restart"}
      BY <2>9, FaultType DEF NicGone
    <3> QED
      BY <2>9, <3>1 DEF NicGone
  <2>10. CASE PipGone
    BY <2>10 DEF PipGone
  <2>11. CASE SelfDeletes
    BY <2>11 DEF SelfDeletes
  <2>12. CASE Restart
    <3>1. trouble' \in 0 .. MaxTrouble /\ broken' \subseteq {"cascade", "delete", "restart"}
      BY <2>12, FaultType DEF Restart
    <3> QED
      BY <2>0, <2>12, <3>1 DEF Restart, Works
  <2>13. ASSUME NEW s \in Stops, StopStarts(s) PROVE AzureTypeOK' /\ ImageLeft'
    BY <2>0, <2>13, AzureAssumption DEF AzureAssumption, StopStarts, Threads
  <2>14. ASSUME NEW t \in Threads, DeletesVm(t) PROVE AzureTypeOK' /\ ImageLeft'
    <3>1. trouble' \in 0 .. MaxTrouble /\ broken' \subseteq {"cascade", "delete", "restart"}
      BY <2>14, ForNoReasonType DEF DeletesVm
    <3>2. gaveUp' \subseteq Threads \X {"vm", "nic", "pip"}
      BY <2>14 DEF DeletesVm
    <3>3. pc' \in [Threads -> {"idle"} \cup Making \cup Deleting \cup Ended] /\ pc'[t] \in Deleting \cup Ended
      BY <2>14 DEF DeletesVm
    <3>4. ImageLeft'
      BY <2>0, <2>14, <3>3 DEF DeletesVm
    <3> QED
      BY <2>14, <3>1, <3>2, <3>3, <3>4 DEF DeletesVm
  <2>15. ASSUME NEW t \in Threads, AwaitsGone(t) PROVE AzureTypeOK' /\ ImageLeft'
    BY <2>0, <2>15 DEF AwaitsGone
  <2>16. ASSUME NEW t \in Threads, DeletesNic(t) PROVE AzureTypeOK' /\ ImageLeft'
    <3>1. CASE Deleted(t, "delPip")
      BY <2>0, <2>16, <3>1, DeletedType DEF DeletesNic, Deleted
    <3>2. CASE NotDeleted(t, "nic", NicInUse, "delPip")
      BY <2>0, <2>16, <3>2, NotDeletedType DEF DeletesNic, NotDeleted
    <3> QED
      BY <2>16, <3>1, <3>2 DEF DeletesNic, AfterNic
  <2>17. ASSUME NEW t \in Threads, DeletesPip(t) PROVE AzureTypeOK' /\ ImageLeft'
    <3>0. AfterPip(t) \in {"failed", "stopped"}
      BY DEF AfterPip
    <3>1. CASE Deleted(t, AfterPip(t))
      BY <2>0, <2>17, <3>0, <3>1, DeletedType DEF DeletesPip, Deleted
    <3>2. CASE NotDeleted(t, "pip", PipInUse, AfterPip(t))
      BY <2>0, <2>17, <3>0, <3>2, NotDeletedType DEF DeletesPip, NotDeleted
    <3> QED
      BY <2>17, <3>1, <3>2 DEF DeletesPip
  <2>18. CASE UNCHANGED azureVars
    BY <2>18 DEF azureVars
  <2> QED
    BY <2>1, <2>2, <2>3, <2>4, <2>5, <2>6, <2>7, <2>8, <2>9, <2>10, <2>11, <2>12, <2>13, <2>14, <2>15, <2>16, <2>17, <2>18
       DEF AzureNext, LaunchStep, Azure, TakesDown
<1> QED
  BY <1>1, <1>2, PTL DEF AzureSpec
-------------------------------------------------------------------------------
(* What thread t, begun after the launch, has already seen to.  What it     *)
(* found gone stays gone, as only the launch makes anything.                *)
Concerned(t) == t \notin beside /\ pc[t] \in Deleting \cup {"failed", "stopped"}
VmSeenTo(t) == vm = "none" \/ <<t, "vm">> \in gaveUp
NicSeenTo(t) == nic = "none" \/ <<t, "nic">> \in gaveUp
PipSeenTo(t) == pip = "none" \/ <<t, "pip">> \in gaveUp
Progress(t) ==
    Concerned(t) =>
        /\ pc[Launcher] \notin Making \cup {"idle"}
        /\ pc[t] = "awaitGone" => vm \in {"none", "deleting"}
        /\ pc[t] \in {"delNic", "delPip", "failed", "stopped"} => VmSeenTo(t)
        /\ pc[t] \in {"delPip", "failed", "stopped"} => NicSeenTo(t)
        /\ pc[t] \in {"failed", "stopped"} => PipSeenTo(t)
Clean == pc[Launcher] \in {"idle", "net"} => vm = "none" /\ nic = "none" /\ pip = "none"
TakenDownInv == Clean /\ Launcher \notin beside /\ \A t \in Threads : Progress(t)

(* A step that does not move thread t, makes nothing and forgets nothing   *)
(* undoes nothing of what it has done.                                     *)
LEMMA Undisturbed ==
    ASSUME AzureTypeOK, TakenDownInv, NEW t \in Threads,
           t \notin beside', pc'[t] \in Deleting \cup {"failed", "stopped"},
           pc'[t] = pc[t], t \in beside => t \in beside',
           vm = "none" => vm' = "none", vm = "deleting" => vm' \in {"none", "deleting"},
           nic = "none" => nic' = "none", pip = "none" => pip' = "none",
           gaveUp \subseteq gaveUp', pc'[Launcher] \notin Making \cup {"idle"}
    PROVE  Progress(t)'
  BY DEF TakenDownInv, Progress, Concerned, VmSeenTo, NicSeenTo, PipSeenTo

(* Until the launch has made its things, every thread that takes down has   *)
(* started before its end.                                                  *)
LEMMA NoneConcerned ==
    ASSUME AzureTypeOK, TakenDownInv, pc[Launcher] \in Making \cup {"idle"}, NEW t \in Threads
    PROVE  ~Concerned(t)
  BY DEF TakenDownInv, Progress

(* Making: the launch alone moves, and of the threads that take down only  *)
(* itself may now be one.                                                  *)
LEMMA MakingKeeps ==
    ASSUME AzureTypeOK, TakenDownInv, pc[Launcher] \in Making \cup {"idle"},
           NEW p \in Making \cup {"delVm", "failed", "launched"}, Goes(Launcher, p), beside' = beside,
           p = "net" => vm' = "none" /\ nic' = "none" /\ pip' = "none",
           p = "failed" => vm' = "none" /\ nic' = "none" /\ pip' = "none"
    PROVE  TakenDownInv'
<1>0. Launcher \in Threads /\ pc'[Launcher] = p
  BY DEF Threads, AzureTypeOK, Goes
<1>1. Clean' /\ Launcher \notin beside'
  BY <1>0 DEF Clean, TakenDownInv, Making
<1>2. ASSUME NEW t \in Threads, t # Launcher PROVE Progress(t)'
  BY <1>2, NoneConcerned DEF Progress, Concerned, Goes, AzureTypeOK
<1>3. Progress(Launcher)'
  BY <1>0 DEF Progress, Concerned, Making, Deleting, VmSeenTo, NicSeenTo, PipSeenTo
<1> QED
  BY <1>1, <1>2, <1>3 DEF TakenDownInv

(* Azure's own steps make nothing of what is gone and move no thread. *)
LEMMA AzureKeeps ==
    ASSUME AzureTypeOK, TakenDownInv, pc' = pc, beside' = beside, gaveUp' = gaveUp,
           vm = "none" => vm' = "none", vm = "deleting" => vm' \in {"none", "deleting"},
           nic = "none" => nic' = "none", pip = "none" => pip' = "none"
    PROVE  TakenDownInv'
<1>1. Clean' /\ Launcher \notin beside'
  BY DEF Clean, TakenDownInv
<1>2. ASSUME NEW t \in Threads PROVE Progress(t)'
  BY <1>2 DEF TakenDownInv, Progress, Concerned, VmSeenTo, NicSeenTo, PipSeenTo
<1> QED
  BY <1>1, <1>2 DEF TakenDownInv

(* One thread takes a step of taking down. *)
LEMMA TakesDownKeeps ==
    ASSUME AzureTypeOK, TakenDownInv, NEW t \in Threads, pc[t] \in Deleting, NEW p \in Deleting \cup Ended,
           pc' = pc \/ Goes(t, p), beside' = beside, gaveUp \subseteq gaveUp',
           vm = "none" => vm' = "none", vm = "deleting" => vm' \in {"none", "deleting"},
           nic = "none" => nic' = "none", pip = "none" => pip' = "none",
           Progress(t)'
    PROVE  TakenDownInv'
<1>0. Launcher \in Threads /\ (\A u \in Threads : u # t => pc'[u] = pc[u]) /\ pc'[t] \in Deleting \cup Ended
  BY DEF Threads, AzureTypeOK, Goes
<1>1. Clean' /\ Launcher \notin beside'
  BY <1>0 DEF Clean, TakenDownInv, Deleting, Ended
<1>2. ASSUME NEW u \in Threads, u # t, Concerned(u)' PROVE Progress(u)'
  <2>1. pc[Launcher] \notin Making \cup {"idle"}
    BY <1>0, <1>2 DEF TakenDownInv, Progress, Concerned
  <2>2. pc'[Launcher] \notin Making \cup {"idle"}
    BY <1>0, <2>1 DEF Making, Deleting, Ended
  <2> QED
    BY <1>0, <1>2, <2>2, Undisturbed DEF Concerned
<1>3. \A u \in Threads : Progress(u)'
  BY <1>2 DEF Progress
<1> QED
  BY <1>1, <1>3 DEF TakenDownInv

(* What the thread itself has seen to when it moves on. *)
LEMMA OwnProgress ==
    ASSUME AzureTypeOK, TakenDownInv, NEW t \in Threads, t \notin beside, pc[t] \in Deleting
    PROVE  /\ pc[Launcher] \notin Making \cup {"idle"}
           /\ pc[t] = "awaitGone" => vm \in {"none", "deleting"}
           /\ pc[t] \in {"delNic", "delPip"} => VmSeenTo(t)
           /\ pc[t] = "delPip" => NicSeenTo(t)
  BY DEF TakenDownInv, Progress, Concerned
LEMMA LaunchPast ==
    ASSUME AzureTypeOK, NEW t \in Threads, NEW p \in Deleting \cup Ended, pc' = pc \/ Goes(t, p),
           pc[Launcher] \notin Making \cup {"idle"}
    PROVE  pc'[Launcher] \notin Making \cup {"idle"}
  BY DEF AzureTypeOK, Goes, Making, Deleting, Ended, Threads

LEMMA DeletesVmKeeps ==
    ASSUME AzureTypeOK, TakenDownInv, NEW t \in Threads, DeletesVm(t) PROVE TakenDownInv'
<1>1. pc[t] = "delVm" /\ beside' = beside /\ nic' = nic /\ pip' = pip /\ gaveUp \subseteq gaveUp'
  BY DEF DeletesVm, At, ForNoReason
<1>2. PICK p \in {"delNic", "awaitGone", "error"} : Goes(t, p)
  BY DEF DeletesVm
<1>3. ASSUME t \notin beside PROVE Progress(t)'
  <2>1. pc'[t] = p /\ pc'[Launcher] \notin Making \cup {"idle"}
    BY <1>1, <1>2, <1>3, OwnProgress, LaunchPast DEF Goes, AzureTypeOK, Deleting, Ended
  <2>2. p = "awaitGone" => vm' = "deleting"
    BY <1>1, <1>2, <2>1 DEF DeletesVm, Goes, AzureTypeOK
  <2>3. p = "delNic" => VmSeenTo(t)'
    BY <1>1, <1>2, <2>1 DEF DeletesVm, Goes, AzureTypeOK, VmSeenTo
  <2> QED
    BY <2>1, <2>2, <2>3 DEF Progress
<1>4. Progress(t)'
  BY <1>1, <1>3 DEF Progress, Concerned
<1>5. (vm = "none" => vm' = "none") /\ (vm = "deleting" => vm' \in {"none", "deleting"})
  BY DEF DeletesVm
<1> QED
  BY <1>1, <1>2, <1>4, <1>5, TakesDownKeeps DEF Deleting, Ended

LEMMA AwaitsGoneKeeps ==
    ASSUME AzureTypeOK, TakenDownInv, NEW t \in Threads, AwaitsGone(t) PROVE TakenDownInv'
<1>1. pc[t] = "awaitGone" /\ Goes(t, "delNic") /\ UNCHANGED <<vm, nic, pip, beside, gaveUp>> /\ vm # "deleting"
  BY DEF AwaitsGone, At, cloudVars, ghostVars
<1>2. ASSUME t \notin beside PROVE Progress(t)'
  BY <1>1, <1>2, OwnProgress, LaunchPast DEF Progress, VmSeenTo, Goes, AzureTypeOK, Deleting
<1>3. Progress(t)'
  BY <1>1, <1>2 DEF Progress, Concerned
<1> QED
  BY <1>1, <1>3, TakesDownKeeps DEF Deleting, Ended

LEMMA DeletesNicKeeps ==
    ASSUME AzureTypeOK, TakenDownInv, NEW t \in Threads, DeletesNic(t) PROVE TakenDownInv'
<1>1. /\ pc[t] = "delNic" /\ vm' = vm /\ pip' = pip /\ beside' = beside /\ gaveUp \subseteq gaveUp'
      /\ nic = "none" => nic' = "none"
      /\ pc' = pc \/ (Goes(t, "delPip") /\ (nic' = "none" \/ <<t, "nic">> \in gaveUp'))
  BY DEF DeletesNic, At, Deleted, NotDeleted, AfterNic
<1>2. ASSUME t \notin beside PROVE Progress(t)'
  <2>1. pc'[Launcher] \notin Making \cup {"idle"} /\ VmSeenTo(t)
    BY <1>1, <1>2, OwnProgress, LaunchPast DEF Deleting
  <2>2. pc'[t] \in {"delNic", "delPip"} /\ (pc'[t] = "delPip" => NicSeenTo(t)')
    BY <1>1 DEF Goes, AzureTypeOK, NicSeenTo
  <2> QED
    BY <1>1, <2>1, <2>2 DEF Progress, VmSeenTo
<1>3. Progress(t)'
  BY <1>1, <1>2 DEF Progress, Concerned
<1> QED
  BY <1>1, <1>3, TakesDownKeeps DEF Deleting, Ended

LEMMA DeletesPipKeeps ==
    ASSUME AzureTypeOK, TakenDownInv, NEW t \in Threads, DeletesPip(t) PROVE TakenDownInv'
<1>1. /\ pc[t] = "delPip" /\ vm' = vm /\ nic' = nic /\ beside' = beside /\ gaveUp \subseteq gaveUp'
      /\ pip = "none" => pip' = "none"
      /\ pc' = pc \/ (Goes(t, AfterPip(t)) /\ (pip' = "none" \/ <<t, "pip">> \in gaveUp'))
  BY DEF DeletesPip, At, Deleted, NotDeleted
<1>0. AfterPip(t) \in {"failed", "stopped"}
  BY DEF AfterPip
<1>2. ASSUME t \notin beside PROVE Progress(t)'
  <2>1. pc'[Launcher] \notin Making \cup {"idle"} /\ VmSeenTo(t) /\ NicSeenTo(t)
    BY <1>0, <1>1, <1>2, OwnProgress, LaunchPast DEF Deleting, Ended
  <2>2. pc'[t] = "delPip" \/ (pc'[t] \in {"failed", "stopped"} /\ PipSeenTo(t)')
    BY <1>0, <1>1 DEF Goes, AzureTypeOK, PipSeenTo
  <2> QED
    BY <1>1, <2>1, <2>2 DEF Progress, VmSeenTo, NicSeenTo
<1>3. Progress(t)'
  BY <1>1, <1>2 DEF Progress, Concerned
<1> QED
  BY <1>0, <1>1, <1>3, TakesDownKeeps DEF Deleting, Ended

LEMMA StopStartsKeeps ==
    ASSUME AzureTypeOK, TakenDownInv, NEW s \in Stops, StopStarts(s) PROVE TakenDownInv'
<1>0. s \in Threads /\ Launcher \in Threads /\ s # Launcher
  BY AzureAssumption DEF AzureAssumption, Threads
<1>1. /\ pc' = [pc EXCEPT ![s] = "delVm"] /\ UNCHANGED <<vm, nic, pip, gaveUp>>
      /\ beside' = IF pc[Launcher] \in Ended THEN beside ELSE beside \cup {s}
  BY DEF StopStarts, Goes, cloudVars
<1>2. pc'[Launcher] = pc[Launcher] /\ pc'[s] = "delVm" /\ Launcher \notin beside'
  BY <1>0, <1>1 DEF AzureTypeOK, TakenDownInv
<1>3. Clean'
  BY <1>1, <1>2 DEF Clean, TakenDownInv
<1>4. Progress(s)'
  BY <1>1, <1>2 DEF Progress, Concerned, Ended, Making
<1>5. ASSUME NEW t \in Threads, t # s, Concerned(t)' PROVE Progress(t)'
  <2>1. pc'[t] = pc[t] /\ t \notin beside
    BY <1>1, <1>5 DEF AzureTypeOK, Concerned
  <2>2. pc[Launcher] \notin Making \cup {"idle"}
    BY <1>5, <2>1 DEF TakenDownInv, Progress, Concerned
  <2> QED
    BY <1>1, <1>2, <1>5, <2>1, <2>2, Undisturbed DEF Concerned
<1> QED
  BY <1>2, <1>3, <1>4, <1>5 DEF TakenDownInv, Progress

LEMMA RestartKeeps ==
    ASSUME AzureTypeOK, TakenDownInv, Restart PROVE TakenDownInv'
<1>1. /\ \A t \in Threads : pc'[t] = IF Works(t) THEN "dead" ELSE pc[t]
      /\ UNCHANGED <<vm, nic, pip, gaveUp, beside>> /\ Launcher \in Threads
  BY DEF Restart, cloudVars, Threads
<1>2. Clean' /\ Launcher \notin beside'
  BY <1>1 DEF Clean, TakenDownInv, Works, Making
<1>3. ASSUME NEW t \in Threads, Concerned(t)' PROVE Progress(t)'
  <2>1. pc'[t] = pc[t] /\ Concerned(t)
    BY <1>1, <1>3 DEF Concerned, Deleting
  <2>2. pc'[Launcher] \notin Making \cup {"idle"}
    BY <1>1, <2>1 DEF TakenDownInv, Progress, Making, Works
  <2> QED
    BY <1>1, <1>3, <2>1, <2>2, Undisturbed DEF Concerned
<1> QED
  BY <1>2, <1>3 DEF TakenDownInv, Progress

LEMMA MakingSteps ==
    ASSUME AzureTypeOK, TakenDownInv, LaunchBegins \/ LaunchStep PROVE TakenDownInv'
<1> USE DEF At, Goes, cloudVars, ghostVars
<1>1. CASE LaunchBegins
  BY <1>1, MakingKeeps DEF LaunchBegins, TakenDownInv, Clean, Making
<1>2. CASE EnsuresNetwork
  BY <1>2, MakingKeeps DEF EnsuresNetwork, TakenDownInv, Clean, Making
<1>3. CASE MakesPip
  BY <1>3, MakingKeeps DEF MakesPip, Making
<1>4. CASE MakesNic
  BY <1>4, MakingKeeps DEF MakesNic, Making
<1>5. CASE AsksForVm
  BY <1>5, MakingKeeps DEF AsksForVm, NextImage, Cleans, Making
<1>6. CASE AwaitsVm
  BY <1>6, MakingKeeps DEF AwaitsVm, NextImage, Cleans, Making
<1> QED
  BY <1>1, <1>2, <1>3, <1>4, <1>5, <1>6 DEF LaunchStep

(* Launches that failed and stops that answered leave only what they could *)
(* not delete, for any number of stops, tries and faults (launch_cluster,  *)
(* stop_cluster and _delete_cluster_nic_and_public_ip of azure.py).        *)
THEOREM AllTakenDown == AzureSpec => []TakenDown
<1>1. AzureInit => TakenDownInv
  BY DEF AzureInit, TakenDownInv, Clean, Progress, Concerned, Deleting
<1>2. AzureTypeOK /\ TakenDownInv /\ [AzureNext]_azureVars => TakenDownInv'
  <2> SUFFICES ASSUME AzureTypeOK, TakenDownInv, [AzureNext]_azureVars PROVE TakenDownInv'
    OBVIOUS
  <2>1. CASE VmMade
    BY <2>1, AzureKeeps DEF VmMade, ghostVars
  <2>2. CASE VmGone
    BY <2>2, AzureKeeps DEF VmGone, ghostVars
  <2>3. CASE NicGone
    BY <2>3, AzureKeeps DEF NicGone
  <2>4. CASE PipGone
    BY <2>4, AzureKeeps DEF PipGone, ghostVars
  <2>5. CASE SelfDeletes
    BY <2>5, AzureKeeps DEF SelfDeletes, ghostVars
  <2>6. CASE UNCHANGED azureVars
    BY <2>6, AzureKeeps DEF azureVars, cloudVars, ghostVars
  <2> QED
    BY <2>1, <2>2, <2>3, <2>4, <2>5, <2>6, MakingSteps, RestartKeeps, StopStartsKeeps,
       DeletesVmKeeps, AwaitsGoneKeeps, DeletesNicKeeps, DeletesPipKeeps DEF AzureNext, Azure, TakesDown
<1>3. TakenDownInv => TakenDown
  BY DEF TakenDownInv, TakenDown, Progress, Concerned, VmSeenTo, NicSeenTo, PipSeenTo
<1> QED
  BY <1>1, <1>2, <1>3, AzureTypeCorrect, PTL DEF AzureSpec
===============================================================================
