------------------------------ MODULE AzureMachine ------------------------------
(***************************************************************************)
(* The machine of one job on Azure (compute_providers/azure.py): a virtual *)
(* machine, the network interface it needs and the public IP the interface *)
(* needs.  A launch makes them one by one and, when it fails, takes them    *)
(* down again in the opposite order; a stop takes them down at any time;    *)
(* the machine deletes itself when its work is over, and Azure then deletes *)
(* interface and IP after it.                                              *)
(*                                                                         *)
(* Grain.  One action per request; Azure applies requests one at a time.    *)
(* Making and deleting a machine take time, the other operations do not.    *)
(***************************************************************************)
EXTENDS Naturals, FiniteSets

CONSTANTS Launcher,   \* the launch thread
          Stops,      \* the stop requests, each in a thread of its own
          MaxTries,   \* deletions tried before giving up (_NETWORK_DELETE_RETRY_DELAYS_SECONDS)
          Images,     \* images to fall back on
          MaxTrouble  \* bound: requests that fail without reason, IPs left over, restarts

ASSUME AzureAssumption ==
    Launcher \notin Stops /\ MaxTries \in Nat \ {0} /\ Images \in Nat \ {0} /\ MaxTrouble \in Nat

Threads == Stops \cup {Launcher}

VARIABLES
    vm,       \* the virtual machine
    nic, pip, \* the network interface, the public IP
    pc,       \* what a thread does next
    tried,    \* deletions of the present resource a thread has tried
    image,    \* images the launch has tried
    gaveUp,   \* history: threads that left off a resource, each with the resource
    beside,   \* history: stops that began before the launch had ended
    broken,   \* history: what went wrong for no reason: the "cascade" ended before the
              \* IP, a "delete" request failed, a "restart" broke off a thread
    trouble

azureVars == <<vm, nic, pip, pc, tried, image, gaveUp, beside, broken, trouble>>
cloudVars == <<vm, nic, pip>>
ghostVars == <<beside, broken>>

Making == {"net", "pip", "nic", "vm", "await"}
Deleting == {"delVm", "awaitGone", "delNic", "delPip"}
Ended == {"launched", "failed", "stopped", "error", "dead"}

AzureTypeOK ==
    /\ vm \in {"none", "creating", "up", "failed", "deleting"}
    /\ nic \in {"none", "there", "going"} /\ pip \in {"none", "there", "going"}
    /\ pc \in [Threads -> {"idle"} \cup Making \cup Deleting \cup Ended]
    /\ tried \in [Threads -> 0 .. MaxTries - 1] /\ image \in 0 .. Images
    /\ gaveUp \subseteq Threads \X {"vm", "nic", "pip"} /\ beside \subseteq Stops
    /\ broken \subseteq {"cascade", "delete", "restart"} /\ trouble \in 0 .. MaxTrouble

AzureInit ==
    /\ vm = "none" /\ nic = "none" /\ pip = "none"
    /\ pc = [t \in Threads |-> "idle"] /\ tried = [t \in Threads |-> 0] /\ image = 0
    /\ gaveUp = {} /\ beside = {} /\ broken = {} /\ trouble = 0

At(t, p) == pc[t] = p
Goes(t, p) == pc' = [pc EXCEPT ![t] = p]
Trouble == trouble < MaxTrouble /\ trouble' = trouble + 1
Works(t) == pc[t] \in Making \cup Deleting
-------------------------------------------------------------------------------
(* launch_cluster.                                                         *)

LaunchBegins ==
    /\ At(Launcher, "idle") /\ Goes(Launcher, "net")
    /\ UNCHANGED <<cloudVars, tried, image, gaveUp, ghostVars, trouble>>

(* The team's network, before the try: a failure has nothing to clean up.   *)
EnsuresNetwork ==
    /\ At(Launcher, "net")
    /\ \/ Goes(Launcher, "pip") /\ UNCHANGED trouble
       \/ Goes(Launcher, "failed") /\ Trouble
    /\ UNCHANGED <<cloudVars, tried, image, gaveUp, ghostVars>>

MakesPip ==
    /\ At(Launcher, "pip")
    /\ \/ pip' = "there" /\ Goes(Launcher, "nic") /\ UNCHANGED trouble
       \/ Trouble /\ Goes(Launcher, "delVm") /\ pip' \in {pip, "there"}
    /\ UNCHANGED <<vm, nic, tried, image, gaveUp, ghostVars>>

(* The interface names the IP, which a stop may have deleted by now. *)
MakesNic ==
    /\ At(Launcher, "nic")
    /\ \/ pip = "there" /\ nic' = "there" /\ Goes(Launcher, "vm") /\ UNCHANGED trouble
       \/ pip # "there" /\ Goes(Launcher, "delVm") /\ UNCHANGED <<nic, trouble>>
       \/ Trouble /\ Goes(Launcher, "delVm") /\ nic' \in {nic} \cup {n \in {"there"} : pip = "there"}
    /\ UNCHANGED <<vm, pip, tried, image, gaveUp, ghostVars>>

(* An image that is not there, or an error that reads like it ("not found"), *)
(* leads to the next image, any other error, or the last image, to cleanup.  *)
NextImage ==
    /\ image' = image + 1
    /\ Goes(Launcher, IF image + 1 < Images THEN "vm" ELSE "delVm")
Cleans == Goes(Launcher, "delVm") /\ UNCHANGED image

(* One image is asked for. *)
AsksForVm ==
    /\ At(Launcher, "vm")
    /\ \/ /\ nic = "there" /\ vm \in {"none", "failed"}
          /\ vm' = "creating" /\ Goes(Launcher, "await") /\ UNCHANGED <<image, trouble>>
       \/ NextImage /\ UNCHANGED <<vm, trouble>>
       \/ (nic # "there" \/ vm = "deleting") /\ Cleans /\ UNCHANGED <<vm, trouble>>
       \/ Cleans /\ Trouble /\ UNCHANGED vm
    /\ UNCHANGED <<nic, pip, tried, gaveUp, ghostVars>>

(* result() of begin_create_or_update: the machine, or the error of a        *)
(* failure or of a deletion on the way.                                      *)
AwaitsVm ==
    /\ At(Launcher, "await") /\ vm # "creating"
    /\ \/ vm = "up" /\ Goes(Launcher, "launched") /\ UNCHANGED image
       \/ vm # "up" /\ (NextImage \/ Cleans)
    /\ UNCHANGED <<cloudVars, tried, gaveUp, ghostVars, trouble>>
-------------------------------------------------------------------------------
(* Taking down: stop_cluster, and the finally clause of launch_cluster.    *)

StopStarts(s) ==
    /\ At(s, "idle") /\ Goes(s, "delVm")
    /\ beside' = IF pc[Launcher] \in Ended THEN beside ELSE beside \cup {s}
    /\ UNCHANGED <<cloudVars, tried, image, gaveUp, broken, trouble>>

(* Refused for no reason: a request fails although nothing is in its way.    *)
(* An error at the machine ends a stop; a failed launch goes on.             *)
ForNoReason == Trouble /\ broken' = broken \cup {"delete"}

DeletesVm(t) ==
    /\ At(t, "delVm")
    /\ \/ vm = "none" /\ Goes(t, "delNic") /\ UNCHANGED <<vm, gaveUp, broken, trouble>>
       \/ vm # "none" /\ vm' = "deleting" /\ Goes(t, "awaitGone") /\ UNCHANGED <<gaveUp, broken, trouble>>
       \/ /\ ForNoReason /\ Goes(t, IF t = Launcher THEN "delNic" ELSE "error") /\ gaveUp' = gaveUp \cup {<<t, "vm">>}
          /\ UNCHANGED vm
    /\ UNCHANGED <<nic, pip, tried, image, beside>>

(* Making a machine of the name anew ends the wait as well. *)
AwaitsGone(t) ==
    /\ At(t, "awaitGone") /\ vm # "deleting" /\ Goes(t, "delNic")
    /\ UNCHANGED <<cloudVars, tried, image, gaveUp, ghostVars, trouble>>

(* Mutant EndsEarly does without the public IP when the interface stays.     *)
EndsEarly(t) == IF t = Launcher THEN "failed" ELSE "stopped"
AfterNic(t) == "delPip"
AfterPip(t) == IF t = Launcher THEN "failed" ELSE "stopped"

TriesLeft(t) == tried[t] + 1 < MaxTries

Deleted(t, next) ==
    /\ Goes(t, next) /\ tried' = [tried EXCEPT ![t] = 0]
    /\ UNCHANGED <<gaveUp, broken, trouble>>
NotDeleted(t, r, inUse, next) ==
    /\ IF inUse THEN UNCHANGED <<broken, trouble>> ELSE ForNoReason
    /\ \/ TriesLeft(t) /\ tried' = [tried EXCEPT ![t] = @ + 1] /\ UNCHANGED <<pc, gaveUp>>
       \/ /\ ~TriesLeft(t) /\ tried' = [tried EXCEPT ![t] = 0] /\ Goes(t, next)
          /\ gaveUp' = gaveUp \cup {<<t, r>>}

(* Azure refuses to delete what is in use, or going in a cascade. *)
NicInUse == nic = "going" \/ (nic = "there" /\ vm # "none")
PipInUse == pip = "going" \/ (pip = "there" /\ nic # "none")

DeletesNic(t) ==
    /\ At(t, "delNic")
    /\ \/ ~NicInUse /\ nic' = "none" /\ Deleted(t, "delPip")
       \/ NotDeleted(t, "nic", NicInUse, AfterNic(t)) /\ UNCHANGED nic
    /\ UNCHANGED <<vm, pip, image, beside>>
DeletesPip(t) ==
    /\ At(t, "delPip")
    /\ \/ ~PipInUse /\ pip' = "none" /\ Deleted(t, AfterPip(t))
       \/ NotDeleted(t, "pip", PipInUse, AfterPip(t)) /\ UNCHANGED pip
    /\ UNCHANGED <<vm, nic, image, beside>>
-------------------------------------------------------------------------------
(* Azure itself, and restarts.                                             *)

VmMade ==
    /\ vm = "creating"
    /\ \/ vm' = "up" /\ UNCHANGED trouble
       \/ vm' = "failed" /\ Trouble
    /\ UNCHANGED <<nic, pip, pc, tried, image, gaveUp, ghostVars>>

(* The unit of the boot script deletes the machine it runs on. *)
SelfDeletes ==
    /\ vm = "up" /\ vm' = "deleting"
    /\ UNCHANGED <<nic, pip, pc, tried, image, gaveUp, ghostVars, trouble>>

(* delete_option: the interface goes with the machine, the IP with the       *)
(* interface.  Mutant IpStays leaves the option of the IP out.               *)
IpStays == FALSE
IpGoesToo == TRUE
VmGone ==
    /\ vm = "deleting" /\ vm' = "none" /\ nic' = IF nic = "there" THEN "going" ELSE nic
    /\ UNCHANGED <<pip, pc, tried, image, gaveUp, ghostVars, trouble>>
NicGone ==
    /\ nic = "going" /\ nic' = "none"
    /\ \/ pip' = (IF pip = "there" /\ IpGoesToo THEN "going" ELSE pip) /\ UNCHANGED <<broken, trouble>>
       \/ Trouble /\ broken' = broken \cup {"cascade"} /\ UNCHANGED pip
    /\ UNCHANGED <<vm, pc, tried, image, gaveUp, beside>>
PipGone ==
    /\ pip = "going" /\ pip' = "none"
    /\ UNCHANGED <<vm, nic, pc, tried, image, gaveUp, ghostVars, trouble>>

Restart ==
    /\ Trouble /\ \E t \in Threads : Works(t)
    /\ broken' = broken \cup {"restart"}
    /\ pc' = [t \in Threads |-> IF Works(t) THEN "dead" ELSE pc[t]]
    /\ UNCHANGED <<cloudVars, tried, image, gaveUp, beside>>

LaunchStep == EnsuresNetwork \/ MakesPip \/ MakesNic \/ AsksForVm \/ AwaitsVm
TakesDown(t) == DeletesVm(t) \/ AwaitsGone(t) \/ DeletesNic(t) \/ DeletesPip(t)
Azure == VmMade \/ VmGone \/ NicGone \/ PipGone
AzureNext ==
    \/ LaunchBegins \/ LaunchStep \/ Azure \/ SelfDeletes \/ Restart
    \/ \E s \in Stops : StopStarts(s)
    \/ \E t \in Threads : TakesDown(t)
AzureSpec == AzureInit /\ [][AzureNext]_azureVars

(* Threads run on, and Azure finishes the operations it has begun. *)
FairSpec ==
    /\ AzureSpec /\ WF_azureVars(LaunchStep) /\ \A t \in Threads : WF_azureVars(TakesDown(t))
    /\ WF_azureVars(VmMade) /\ WF_azureVars(VmGone) /\ WF_azureVars(NicGone) /\ WF_azureVars(PipGone)
-------------------------------------------------------------------------------
(* A launch that failed, or a stop that answered success, leaves of machine,  *)
(* interface and IP only what it tried to delete for as long as it may, also *)
(* after a restart broke off the launch and while the cascade is under way,  *)
(* unless the stop began before the launch ended: the IP is tried even if the *)
(* interface outlasts all tries (_delete_cluster_nic_and_public_ip, and the   *)
(* finally clause of launch_cluster).                                        *)
TakenDown ==
    \A t \in Threads : pc[t] \in {"failed", "stopped"} /\ t \notin beside =>
        /\ vm = "none" \/ <<t, "vm">> \in gaveUp
        /\ nic = "none" \/ <<t, "nic">> \in gaveUp
        /\ pip = "none" \/ <<t, "pip">> \in gaveUp

(* Once the launch has ended and the machine is gone, its IP goes as well,    *)
(* even if all tries were refused because it was still in use: what remains   *)
(* for ever needs a restart, a request or a cascade that failed for no reason. *)
IpsFreed ==
    (pc[Launcher] \in Ended /\ vm = "none") ~> (pip = "none" \/ vm # "none" \/ broken # {})
================================================================================
