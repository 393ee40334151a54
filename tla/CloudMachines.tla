------------------------------ MODULE CloudMachines ------------------------------
(***************************************************************************)
(* The providers that know a job's machine by its name (compute_providers):*)
(* the clouds AWS, GCP, RunPod, Vast.ai, Lambda and Nebius, and the        *)
(* schedulers SkyPilot, SLURM and dstack, where the machine is the job as  *)
(* submitted.  Launches of one team first look for what its machines share *)
(* (a firewall rule, a key pair, a network), make what is missing and then *)
(* ask for the machine.  Stops run in threads of their own, also while the *)
(* launch does.                                                            *)
(*                                                                         *)
(* Grain.  One action per request to the cloud, which applies requests one *)
(* at a time and has names unique.  A provider object lives for one call,  *)
(* so that the ids it caches matter to that call only.                     *)
(***************************************************************************)
EXTENDS Naturals, Sequences

CONSTANTS Jobs,        \* jobs of the team, each with a machine name of its own
          MaxAttempts, \* tries of one machine: IAM propagation, image families
          MaxLookups,  \* lookups after RunPod's 5xx
          MaxFaults,   \* bound: requests that fail or whose answer is lost, restarts
          MaxStops     \* bound: stops of a machine

ASSUME CloudAssumption ==
    MaxAttempts \in Nat \ {0} /\ MaxLookups \in Nat \ {0} /\ MaxFaults \in Nat /\ MaxStops \in Nat

VARIABLES
    kind,     \* the provider
    shared,   \* what the team shares: "absent", "closed" (no rule yet), "ready"
    todo,     \* shared things the launch of a job has still to see to
    phase,    \* what that launch does next
    tries,    \* requests for the machine, or lookups, so far
    cause,    \* why it failed
    machine,  \* the job's machine
    stop,     \* how far a stop of it is
    born,     \* history: machines made for the job
    early,    \* history: the stop has looked while the launch was under way
    blind,    \* history: the stop answered without having seen what there is
    hit,      \* history: a launch was broken off that had made the group
    faults, stops

launchVars == <<todo, phase, tries, cause>>
machineVars == <<machine, born>>
stopVars == <<stop, early, blind, stops>>
vars == <<kind, shared, launchVars, machineVars, stopVars, hit, faults>>

Schedulers == {"skypilot", "slurm", "dstack"}
Kinds == {"aws", "gcp", "runpod", "vastai", "lambda", "nebius"} \cup Schedulers
Things == {"group", "key", "profile", "rule", "network", "subnet"}
Needed(k) ==
    CASE k = "aws" -> <<"group", "key", "profile">>
      [] k = "gcp" -> <<"rule">>
      [] k = "lambda" -> <<"key">>
      [] k = "nebius" -> <<"network", "subnet">>
      [] OTHER -> <<>>
Errors == {"transient", "refused", "answer", "timeout"}  \* what a request for a machine meets
Lost == {"answer", "timeout"}                           \* with the machine made nevertheless

LaunchType ==
    /\ kind \in Kinds /\ shared \in [Things -> {"absent", "closed", "ready"}]
    /\ todo \in [Jobs -> Seq(Things)]
    /\ phase \in [Jobs -> {"idle", "look", "make", "open", "create", "resend", "recover", "launched", "failed", "dead"}]
    /\ tries \in [Jobs -> 0 .. (IF kind = "runpod" THEN MaxLookups ELSE MaxAttempts)]
    /\ cause \in [Jobs -> Errors \cup {"none", "race", "fault", "unseen"}]
MachineType ==
    /\ machine \in [Jobs -> {"none", "pending", "running", "gone"}]
    /\ born \in [Jobs -> Nat]
    /\ stop \in [Jobs -> {"none", "found", "absent", "done", "failed"}]
    /\ early \subseteq Jobs /\ blind \subseteq Jobs
HistoryType == hit \in BOOLEAN /\ faults \in 0 .. MaxFaults /\ stops \in 0 .. MaxStops
TypeOK == LaunchType /\ MachineType /\ HistoryType

Init ==
    /\ kind \in Kinds /\ shared = [t \in Things |-> "absent"]
    /\ todo = [j \in Jobs |-> <<>>] /\ phase = [j \in Jobs |-> "idle"]
    /\ tries = [j \in Jobs |-> 0] /\ cause = [j \in Jobs |-> "none"]
    /\ machine = [j \in Jobs |-> "none"] /\ born = [j \in Jobs |-> 0]
    /\ stop = [j \in Jobs |-> "none"] /\ early = {} /\ blind = {}
    /\ hit = FALSE /\ faults = 0 /\ stops = 0

Is(j, k, p) == kind = k /\ phase[j] = p
Becomes(j, p) == phase' = [phase EXCEPT ![j] = p]
Fails(j, why) == Becomes(j, "failed") /\ cause' = [cause EXCEPT ![j] = why]
Fault == faults < MaxFaults /\ faults' = faults + 1
Up(j) == machine[j] \in {"pending", "running"}
Opening(j) == phase[j] = "open" /\ Head(todo[j]) = "group"
Running(j) == phase[j] \in {"look", "make", "open", "create", "resend", "recover"}
-------------------------------------------------------------------------------
(* What the team shares.                                                   *)

Starts(j) ==
    /\ phase[j] = "idle"
    /\ todo' = [todo EXCEPT ![j] = Needed(kind)]
    /\ Becomes(j, IF Needed(kind) = <<>> THEN "create" ELSE "look")
    /\ UNCHANGED <<kind, shared, tries, cause, machineVars, stopVars, hit, faults>>

(* On to the next thing, or to the machine. *)
Proceeds(j) ==
    /\ todo' = [todo EXCEPT ![j] = Tail(@)]
    /\ Becomes(j, IF Len(todo[j]) = 1 THEN "create" ELSE "look")
    /\ UNCHANGED <<tries, cause>>

(* AWS makes two of the things in two requests: a group and its rule for    *)
(* SSH, a profile and its role.  Only the profile is looked at for the      *)
(* second.                                                                  *)
Halves == {"group", "profile"}
Repaired(t) == t = "profile"

(* A thing that is there is taken, whoever made it. *)
Looks(j) ==
    LET t == Head(todo[j]) IN
    /\ phase[j] = "look"
    /\ \/ shared[t] = "absent" /\ Becomes(j, "make") /\ UNCHANGED <<todo, tries, cause>>
       \/ shared[t] = "closed" /\ Repaired(t) /\ Becomes(j, "open") /\ UNCHANGED <<todo, tries, cause>>
       \/ shared[t] # "absent" /\ ~(shared[t] = "closed" /\ Repaired(t)) /\ Proceeds(j)
    /\ UNCHANGED <<kind, shared, machineVars, stopVars, hit, faults>>

(* Thing t is made; another launch may have made it since the look, which   *)
(* only some of the providers put up with.                                  *)
Makes(j, t, tolerant) ==
    /\ phase[j] = "make" /\ Head(todo[j]) = t
    /\ \/ /\ shared[t] = "absent" /\ t \in Halves
          /\ shared' = [shared EXCEPT ![t] = "closed"]
          /\ Becomes(j, "open") /\ UNCHANGED <<todo, tries, cause>>
       \/ /\ shared[t] = "absent" /\ t \notin Halves
          /\ shared' = [shared EXCEPT ![t] = "ready"] /\ Proceeds(j)
       \/ shared[t] # "absent" /\ tolerant /\ Proceeds(j) /\ UNCHANGED shared
       \/ shared[t] # "absent" /\ ~tolerant /\ Fails(j, "race") /\ UNCHANGED <<shared, todo, tries>>
    /\ UNCHANGED <<kind, machineVars, stopVars, hit, faults>>

AwsGroup(j) == kind = "aws" /\ Makes(j, "group", FALSE)
AwsKeyPair(j) == kind = "aws" /\ Makes(j, "key", FALSE)
AwsProfile(j) == kind = "aws" /\ Makes(j, "profile", FALSE)
GcpRule(j) == kind = "gcp" /\ Makes(j, "rule", TRUE)
LambdaKey(j) == kind = "lambda" /\ Makes(j, "key", FALSE)
NebiusNetwork(j) == kind = "nebius" /\ Makes(j, "network", TRUE)
NebiusSubnet(j) == kind = "nebius" /\ Makes(j, "subnet", FALSE)

(* Mutant ForgetsRule goes on without the second request. *)
ForgetsRule(j) ==
    /\ Is(j, "aws", "open") /\ Head(todo[j]) = "group" /\ Proceeds(j)
    /\ UNCHANGED <<kind, shared, machineVars, stopVars, hit, faults>>
AwsOpensGroup(j) ==
    /\ Is(j, "aws", "open") /\ Head(todo[j]) = "group"
    /\ shared' = [shared EXCEPT !["group"] = "ready"]
    /\ Proceeds(j)
    /\ UNCHANGED <<kind, machineVars, stopVars, hit, faults>>

(* A profile takes one role: the second launch to add it fails. *)
AwsAddsRole(j) ==
    /\ Is(j, "aws", "open") /\ Head(todo[j]) = "profile"
    /\ IF shared["profile"] = "closed" THEN Proceeds(j) ELSE Fails(j, "race") /\ UNCHANGED <<todo, tries>>
    /\ shared' = [shared EXCEPT !["profile"] = "ready"]
    /\ UNCHANGED <<kind, machineVars, stopVars, hit, faults>>

(* A request about a shared thing fails. *)
RequestFails(j) ==
    /\ phase[j] \in {"look", "make", "open"} /\ Fault
    /\ Fails(j, "fault")
    /\ hit' = (hit \/ Opening(j))
    /\ UNCHANGED <<kind, shared, todo, tries, machineVars, stopVars>>
-------------------------------------------------------------------------------
(* The machine.                                                            *)

(* A machine more for job j (a second one would run beside the first). *)
Born(j) ==
    /\ machine' = [machine EXCEPT ![j] = IF @ = "running" THEN @ ELSE "pending"]
    /\ born' = [born EXCEPT ![j] = @ + 1]

Accepted(j) == Born(j) /\ Becomes(j, "launched") /\ UNCHANGED <<todo, tries, cause, faults>>

(* Mutant AnyError tries again whatever the error was. *)
AnyError(why) == TRUE
Retryable(why) == why = "transient"

Again(n, limit) == n + 1 < limit

(* An error, and the machine made all the same if only the answer is lost. *)
Refused(j, why, limit) ==
    /\ IF why \in Lost THEN Fault /\ Born(j) ELSE UNCHANGED <<machineVars, faults>>
    /\ tries' = [tries EXCEPT ![j] = @ + 1]
    /\ IF Retryable(why) /\ Again(tries[j], limit) THEN UNCHANGED <<phase, cause>> ELSE Fails(j, why)
    /\ UNCHANGED todo

Creates(j, k, limit) ==
    /\ Is(j, k, "create")
    /\ Accepted(j) \/ \E why \in Errors : Refused(j, why, limit)
    /\ UNCHANGED <<kind, shared, stopVars, hit>>

AwsLaunches(j) == Creates(j, "aws", MaxAttempts)   \* the IAM profile has not propagated yet
GcpLaunches(j) == Creates(j, "gcp", MaxAttempts)   \* the image family is not there: the next one
VastaiLaunches(j) == Creates(j, "vastai", 1)
LambdaLaunches(j) == Creates(j, "lambda", 1)
DstackLaunches(j) == Creates(j, "dstack", 1)

(* An error of sbatch on the login node, or one that SkyPilot's server      *)
(* answers, is not looked at: the job counts as launched.                  *)
Unheeded(j) == Becomes(j, "launched") /\ UNCHANGED <<todo, tries, cause, machineVars, faults>>

SlurmLaunches(j) ==
    /\ Is(j, "slurm", "create")
    /\ Accepted(j) \/ Unheeded(j) \/ \E why \in Errors : Refused(j, why, 1)
    /\ UNCHANGED <<kind, shared, stopVars, hit>>

(* Whatever goes wrong in SkyPilot's own client but a lost connection makes *)
(* the provider send the request again by itself.                          *)
SkypilotLaunches(j) ==
    /\ Is(j, "skypilot", "create")
    /\ \/ Accepted(j) \/ Unheeded(j)
       \/ \E why \in {"refused", "timeout"} : Refused(j, why, 1)
       \/ /\ (Fault /\ Born(j)) \/ UNCHANGED <<machineVars, faults>>
          /\ Becomes(j, "resend") /\ UNCHANGED <<todo, tries, cause>>
    /\ UNCHANGED <<kind, shared, stopVars, hit>>

(* If that is refused, nobody knows whether the first one was taken. *)
SkypilotResends(j) ==
    /\ Is(j, "skypilot", "resend")
    /\ \/ Accepted(j)
       \/ /\ (Fault /\ Born(j)) \/ UNCHANGED <<machineVars, faults>>
          /\ Fails(j, "answer") /\ UNCHANGED <<todo, tries>>
    /\ UNCHANGED <<kind, shared, stopVars, hit>>

(* Mutant GivesUp does not look for the pod. *)
GivesUp(j, why) == FALSE
LooksFor(j, why) == why = "answer"

(* A 5xx answer of RunPod may come with a pod; a timeout is not caught. *)
RunpodLaunches(j) ==
    /\ Is(j, "runpod", "create")
    /\ \/ Accepted(j)
       \/ \E why \in Errors : ~LooksFor(j, why) /\ Refused(j, why, 1)
       \/ /\ Fault /\ LooksFor(j, "answer") /\ Becomes(j, "recover")
          /\ Born(j) \/ UNCHANGED machineVars
          /\ UNCHANGED <<todo, tries, cause>>
    /\ UNCHANGED <<kind, shared, stopVars, hit>>

(* An answer without an id is followed by one lookup. *)
NebiusLaunches(j) ==
    /\ Is(j, "nebius", "create")
    /\ \/ Accepted(j)
       \/ \E why \in Errors : Refused(j, why, 1)
       \/ Fault /\ Born(j) /\ Becomes(j, "recover") /\ UNCHANGED <<todo, tries, cause>>
    /\ UNCHANGED <<kind, shared, stopVars, hit>>

(* A lookup by name, the last of which decides.  The list may lag behind. *)
Recovers(j, limit) ==
    /\ phase[j] = "recover"
    /\ tries' = [tries EXCEPT ![j] = @ + 1]
    /\ \/ Up(j) /\ Becomes(j, "launched") /\ UNCHANGED <<cause, faults>>
       \/ /\ IF Up(j) THEN Fault ELSE UNCHANGED faults
          /\ IF Again(tries[j], limit)
             THEN UNCHANGED <<phase, cause>>
             ELSE Fails(j, IF Up(j) THEN "unseen" ELSE "answer")
    /\ UNCHANGED <<kind, shared, todo, machineVars, stopVars, hit>>
RunpodRecovers(j) == kind = "runpod" /\ Recovers(j, MaxLookups)
NebiusRecovers(j) == kind = "nebius" /\ Recovers(j, 1)
-------------------------------------------------------------------------------
(* Stopping, and the machine's own life.                                   *)

(* What AWS finds under the name.  Mutant BootedOnly leaves out             *)
(* machines that have not booted yet.                                      *)
BootedOnly(j) == machine[j] = "running"
AwsFinds(j) == machine[j] \in {"pending", "running"}

(* What a stop answers that has nothing to end: SkyPilot and dstack are not *)
(* asked what there is, and refuse.                                        *)
Nothing == IF kind \in Schedulers THEN "failed" ELSE "absent"

(* The first request of a stop.  An error of it is raised, or taken for a   *)
(* list without the machine (the providers that swallow it).                *)
StopLooks(j, k, finds, swallows) ==
    /\ kind = k /\ stop[j] # "found" /\ stops < MaxStops /\ phase[j] # "idle"
    /\ stops' = stops + 1
    /\ \/ /\ stop' = [stop EXCEPT ![j] = IF finds THEN "found" ELSE Nothing]
          /\ blind' = blind \ {j} /\ UNCHANGED faults
       \/ /\ Fault
          /\ stop' = [stop EXCEPT ![j] = IF swallows THEN "absent" ELSE "failed"]
          /\ blind' = IF swallows THEN blind \cup {j} ELSE blind \ {j}
    /\ early' = IF Running(j) THEN early \cup {j} ELSE early \ {j}
    /\ UNCHANGED <<kind, shared, launchVars, machineVars, hit>>

AwsStops(j) == StopLooks(j, "aws", AwsFinds(j), FALSE)
GcpStops(j) == StopLooks(j, "gcp", Up(j), FALSE)
RunpodStops(j) == StopLooks(j, "runpod", Up(j), TRUE)
VastaiStops(j) == StopLooks(j, "vastai", Up(j), TRUE)
LambdaStops(j) == StopLooks(j, "lambda", Up(j), TRUE)
NebiusStops(j) == StopLooks(j, "nebius", Up(j), FALSE)
SkypilotStops(j) == StopLooks(j, "skypilot", Up(j), FALSE)
DstackStops(j) == StopLooks(j, "dstack", Up(j), FALSE)

(* A placeholder, which answers that it is stopped. *)
SlurmStops(j) ==
    /\ kind = "slurm" /\ stops < MaxStops /\ phase[j] # "idle"
    /\ stops' = stops + 1
    /\ stop' = [stop EXCEPT ![j] = "absent"]
    /\ blind' = blind \cup {j}
    /\ early' = IF Running(j) THEN early \cup {j} ELSE early \ {j}
    /\ UNCHANGED <<kind, shared, launchVars, machineVars, hit, faults>>

(* The second request of a stop; an error is returned, not raised. *)
Terminates(j) ==
    /\ stop[j] = "found"
    /\ \/ machine' = [machine EXCEPT ![j] = "gone"] /\ stop' = [stop EXCEPT ![j] = "done"] /\ UNCHANGED faults
       \/ Fault /\ stop' = [stop EXCEPT ![j] = "failed"] /\ UNCHANGED machine
    /\ UNCHANGED <<kind, shared, launchVars, born, early, blind, stops, hit>>

Boots(j) ==
    /\ machine[j] = "pending" /\ machine' = [machine EXCEPT ![j] = "running"]
    /\ UNCHANGED <<kind, shared, launchVars, born, stopVars, hit, faults>>

(* The trap of the boot script deletes the machine when the work is over. *)
TearsItselfDown(j) ==
    /\ machine[j] = "running" /\ machine' = [machine EXCEPT ![j] = "gone"]
    /\ UNCHANGED <<kind, shared, launchVars, born, stopVars, hit, faults>>

Crash ==
    /\ Fault
    /\ phase' = [j \in Jobs |-> IF Running(j) THEN "dead" ELSE phase[j]]
    /\ stop' = [j \in Jobs |-> IF stop[j] = "found" THEN "failed" ELSE stop[j]]
    /\ hit' = (hit \/ \E j \in Jobs : Opening(j))
    /\ UNCHANGED <<kind, shared, todo, tries, cause, machineVars, early, blind, stops>>

Ensures(j) ==
    \/ Looks(j) \/ AwsGroup(j) \/ AwsOpensGroup(j) \/ AwsKeyPair(j) \/ AwsProfile(j) \/ AwsAddsRole(j)
    \/ GcpRule(j) \/ LambdaKey(j) \/ NebiusNetwork(j) \/ NebiusSubnet(j)
Asks(j) ==
    \/ AwsLaunches(j) \/ GcpLaunches(j) \/ VastaiLaunches(j) \/ LambdaLaunches(j)
    \/ RunpodLaunches(j) \/ NebiusLaunches(j) \/ RunpodRecovers(j) \/ NebiusRecovers(j)
    \/ DstackLaunches(j) \/ SlurmLaunches(j) \/ SkypilotLaunches(j) \/ SkypilotResends(j)
Launch(j) == Ensures(j) \/ RequestFails(j) \/ Asks(j)
Stop(j) ==
    \/ AwsStops(j) \/ GcpStops(j) \/ RunpodStops(j) \/ VastaiStops(j) \/ LambdaStops(j) \/ NebiusStops(j)
    \/ SkypilotStops(j) \/ DstackStops(j) \/ SlurmStops(j) \/ Terminates(j)

Next == (\E j \in Jobs : Starts(j) \/ Launch(j) \/ Stop(j) \/ Boots(j) \/ TearsItselfDown(j)) \/ Crash
Spec == Init /\ [][Next]_vars
-------------------------------------------------------------------------------
(* A job never gets a second machine, however its launch is tried again.   *)
(* Only SkyPilot may be given a job twice, and not more often, where the    *)
(* provider sends its request again (_make_authenticated_request).         *)
OneMachineEach == \A j \in Jobs : born[j] <= 1 \/ (born[j] = 2 /\ kind = "skypilot")

(* A launch that failed leaves a machine behind, unknown to the job, only if *)
(* the answer was lost: to a timeout, or to an error where the provider does *)
(* not look again, or looked and was shown an old list (launch_cluster,      *)
(* _recover_pod_after_error).                                               *)
OrphansExplained ==
    \A j \in Jobs : phase[j] = "failed" /\ Up(j) =>
        \/ cause[j] \in {"timeout", "unseen"}
        \/ cause[j] = "answer" /\ kind # "runpod"

(* A machine of AWS takes SSH unless the launch that made the group is still *)
(* at it or was broken off before it added the rule (_ensure_security_group, *)
(* which never repairs a group that it finds).  Its profile has the role    *)
(* without which it could not end itself, whatever was broken off           *)
(* (_ensure_iam_instance_profile, which does repair).                       *)
SharedWhole ==
    /\ shared["group"] = "closed" => hit \/ \E j \in Jobs : Opening(j)
    /\ \A j \in Jobs : kind = "aws" /\ phase[j] \in {"create", "launched"} => shared["profile"] = "ready"

(* After a stop that answers that there is no machine, or that it ended it,  *)
(* there is none, unless the launch was still under way when the stop looked, *)
(* or the stop did not see what there is: RunPod, Vast.ai and Lambda take a   *)
(* failed listing for an empty one, and SLURM does not look.                  *)
StopsForGood ==
    \A j \in Jobs : stop[j] \in {"absent", "done"} /\ Up(j) =>
        j \in early \/ (j \in blind /\ kind \in {"runpod", "vastai", "lambda", "slurm"})
================================================================================
