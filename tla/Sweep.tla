--------------------------------- MODULE Sweep ---------------------------------
(***************************************************************************)
(* One parameter sweep: the request creates the parent job, a background   *)
(* task launches the children one by one and then lists them in the parent *)
(* (launch_sweep.py), and the sweep worker counts the children and         *)
(* completes the parent (sweep_status_service.py).  Users stop and delete. *)
(*                                                                         *)
(* Grain.  Every update of the parent's index.json reads the whole record, *)
(* changes a field and writes the whole record back: two actions.  The     *)
(* worker reads each child in an action of its own.                        *)
(***************************************************************************)
EXTENDS FiniteSets, Naturals

CONSTANTS Configs,     \* number of configurations, each with a child job
          NoDraft,     \* no update of the parent under way
          MaxFaults,   \* bound: failed reads and launches, restarts of the API
          MaxRequests  \* bound: requests of users about the parent

VARIABLES
    parent,     \* the parent's record
    child,      \* status of a child, "none" before it is created
    launched,   \* child_job_ids: children whose launch is through
    launcher,   \* how far launch_sweep_jobs is
    list,       \* the parent as the worker has listed it
    seen,       \* what the worker has read of each child
    step,       \* how far the worker is
    draft,      \* by writer: the record it has read, and the one it will write
    ended,      \* history: children that have been over
    wish,       \* history: status a user has asked for last
    clobbered,  \* history: an update of the parent has undone another one
    overruled,  \* history: completed on a listing older than the request
    faults, requests

launchVars == <<child, launched, launcher, ended>>
workerVars == <<list, seen, step, overruled>>
boundVars == <<faults, requests>>
vars == <<parent, launchVars, workerVars, draft, wish, clobbered, boundVars>>

Children == 1 .. Configs
ActiveSweep == {"RUNNING"}    \* nothing sets a parent to LAUNCHING
Failures == {"FAILED", "STOPPED", "DELETED"}
Over == Failures \cup {"COMPLETE"}
Counted == 0 .. Configs
Parents == [status : {"RUNNING", "COMPLETE", "STOPPING", "DELETED"}, ids : SUBSET Children,
            over : Counted, running : Counted]   \* over: completed and failed ones
Writers == {"launcher", "worker", "user"}

ASSUME SweepAssumption ==
    /\ Configs \in Nat \ {0}
    /\ NoDraft \notin [base : Parents, new : Parents]
    /\ MaxFaults \in Nat /\ MaxRequests \in Nat

ChildType ==
    /\ child \in [Children -> {"none", "QUEUED", "LAUNCHING"} \cup Over]
    /\ launcher \in {"children", "ids", "running", "done", "dead"}
    /\ launched \subseteq Children /\ ended \subseteq Children
WorkerType ==
    /\ list \in Parents /\ step \in {"idle", "reading", "counted", "progress", "ending", "finishing"}
    /\ seen \in [Children -> {"unread", "failing", "QUEUED", "LAUNCHING"} \cup Over]
ParentType ==
    /\ parent \in Parents
    /\ draft \in [Writers -> [base : Parents, new : Parents] \cup {NoDraft}]
HistoryType ==
    /\ wish \in {"none", "STOPPING", "DELETED"}
    /\ clobbered \in BOOLEAN /\ overruled \in BOOLEAN
    /\ faults \in 0 .. MaxFaults /\ requests \in 0 .. MaxRequests
TypeOK == ChildType /\ WorkerType /\ ParentType /\ HistoryType

(* create_sweep_parent_job: RUNNING, and no child in the list yet.  Mutant  *)
(* WaitingParent has it wait for its children.                              *)
WaitingParent == [status |-> "WAITING", ids |-> {}, over |-> 0, running |-> 0]
NewParent == [status |-> "RUNNING", ids |-> {}, over |-> 0, running |-> 0]
Unread == [c \in Children |-> "unread"]

Init ==
    /\ parent = NewParent /\ list = NewParent
    /\ child = [c \in Children |-> "none"] /\ launched = {} /\ launcher = "children" /\ ended = {}
    /\ seen = Unread /\ step = "idle"
    /\ draft = [w \in Writers |-> NoDraft]
    /\ wish = "none" /\ clobbered = FALSE /\ overruled = FALSE
    /\ faults = 0 /\ requests = 0

(* An update of the parent, as one reader and later one writer. *)
Drafts(w, new) == draft[w] = NoDraft /\ draft' = [draft EXCEPT ![w] = [base |-> parent, new |-> new]]
Rewrites(w) ==
    /\ draft[w] # NoDraft
    /\ parent' = draft[w].new
    /\ draft' = [draft EXCEPT ![w] = NoDraft]
    /\ clobbered' = (clobbered \/ draft[w].base # parent)
-------------------------------------------------------------------------------
(* launch_sweep_jobs.                                                      *)

Created == {c \in Children : child[c] # "none"}

Creates(c) ==
    /\ launcher = "children" /\ launched = Created /\ c = Cardinality(Created) + 1
    /\ child' = [child EXCEPT ![c] = "QUEUED"]
    /\ UNCHANGED <<parent, launched, launcher, ended, workerVars, draft, wish, clobbered, boundVars>>

(* launch_cluster returns or fails, and the status is written over whatever *)
(* became of the child meanwhile.                                          *)
Launches(c, s) ==
    /\ launcher = "children" /\ c \in Created \ launched
    /\ child' = [child EXCEPT ![c] = s]
    /\ launched' = launched \cup {c}
    /\ ended' = IF s = "FAILED" THEN ended \cup {c} ELSE ended
    /\ UNCHANGED <<parent, launcher, workerVars, draft, wish, clobbered, boundVars>>

(* What prepares a child outside the try (its files, its secrets) raises: *)
(* the task ends, whatever it has launched.                               *)
Aborts ==
    /\ launcher = "children" /\ faults < MaxFaults
    /\ launcher' = "dead" /\ faults' = faults + 1
    /\ UNCHANGED <<parent, child, launched, ended, workerVars, draft, wish, clobbered, requests>>

(* sweep_job_ids and then sweep_running, after the last child only.         *)
Listed == launched

DraftsIds ==
    /\ launcher = "children" /\ launched = Children
    /\ launcher' = "ids" /\ Drafts("launcher", [parent EXCEPT !.ids = Listed])
    /\ UNCHANGED <<parent, child, launched, ended, workerVars, wish, clobbered, boundVars>>
WritesIds ==
    /\ launcher = "ids" /\ Rewrites("launcher") /\ launcher' = "running"
    /\ UNCHANGED <<child, launched, ended, workerVars, wish, boundVars>>
DraftsRunning ==
    /\ launcher = "running" /\ Drafts("launcher", [parent EXCEPT !.running = Cardinality(launched)])
    /\ UNCHANGED <<parent, launchVars, workerVars, wish, clobbered, boundVars>>
WritesRunning ==
    /\ launcher = "running" /\ Rewrites("launcher") /\ launcher' = "done"
    /\ UNCHANGED <<child, launched, ended, workerVars, wish, boundVars>>
-------------------------------------------------------------------------------
(* refresh_active_sweeps_once.                                             *)

(* Mutant AnyParent refreshes sweeps of every status. *)
AnyParent(s) == TRUE
Active(s) == s \in ActiveSweep

Lists ==
    /\ step = "idle" /\ Active(parent.status)
    /\ list' = parent /\ step' = "reading"
    /\ UNCHANGED <<parent, launchVars, seen, overruled, draft, wish, clobbered, boundVars>>

(* The children are read at once, each in its own time; a read that fails *)
(* leaves its child out.                                                  *)
ReadsChild(c) ==
    /\ step = "reading" /\ c \in list.ids /\ seen[c] = "unread"
    /\ \/ seen' = [seen EXCEPT ![c] = child[c]] /\ UNCHANGED faults
       \/ seen' = [seen EXCEPT ![c] = "failing"] /\ faults < MaxFaults /\ faults' = faults + 1
    /\ UNCHANGED <<parent, launchVars, list, step, overruled, draft, wish, clobbered, requests>>

With(s) == Cardinality({c \in Children : seen[c] \in s})
(* Mutant NotDeleted does not count deleted children. *)
NotDeleted == With(Failures \ {"DELETED"})
FailedCount == With(Failures)
Counts == [over |-> With({"COMPLETE"}) + FailedCount, running |-> With({"LAUNCHING"})]
Changed == {f \in DOMAIN Counts : Counts[f] # list[f]}
(* Mutant OfThoseRead takes the children it has read for all there are. *)
OfThoseRead == With({"COMPLETE"}) + FailedCount = With(Over \cup {"QUEUED", "LAUNCHING"})
AllComplete == With({"COMPLETE"}) + FailedCount = Configs
Idle == step' = "idle" /\ seen' = Unread /\ list' = NewParent
ForgetsList == list' = [NewParent EXCEPT !.status = list.status]   \* all that is used later

(* Counts that changed since the listing are written, in one update. *)
DraftsCounts ==
    /\ step = "reading" /\ \A c \in list.ids : seen[c] # "unread"
    /\ step' = "counted" /\ ForgetsList
    /\ IF Changed = {}
       THEN UNCHANGED draft
       ELSE Drafts("worker", [f \in DOMAIN parent |-> IF f \in Changed THEN Counts[f] ELSE parent[f]])
    /\ UNCHANGED <<parent, launchVars, seen, overruled, wish, clobbered, boundVars>>

(* The progress, if it changed, is an update of its own, and end_time one    *)
(* more: each rewrites the record as it was read.                           *)
DraftsProgress ==
    /\ step = "counted" /\ Drafts("worker", parent) /\ step' = "progress"
    /\ UNCHANGED <<parent, launchVars, list, seen, overruled, wish, clobbered, boundVars>>
WritesCounts ==
    /\ step \in {"counted", "progress", "ending"} /\ Rewrites("worker")
    /\ UNCHANGED <<launchVars, workerVars, wish, boundVars>>

(* The parent is over: its status as listed decides, not as it is. *)
DraftsEnd ==
    /\ step \in {"counted", "progress"} /\ draft["worker"] = NoDraft
    /\ IF AllComplete /\ Active(list.status)
       THEN Drafts("worker", parent) /\ step' = "ending" /\ ForgetsList /\ seen' = Unread
       ELSE Idle /\ UNCHANGED draft
    /\ UNCHANGED <<parent, launchVars, overruled, wish, clobbered, boundVars>>
DraftsComplete ==
    /\ step = "ending" /\ Drafts("worker", [parent EXCEPT !.status = "COMPLETE"]) /\ step' = "finishing"
    /\ UNCHANGED <<parent, launchVars, list, seen, overruled, wish, clobbered, boundVars>>
WritesComplete ==
    /\ step = "finishing" /\ Rewrites("worker") /\ Idle
    /\ overruled' = (overruled \/ (list.status \in ActiveSweep /\ parent.status \notin ActiveSweep))
    /\ UNCHANGED <<launchVars, wish, boundVars>>
-------------------------------------------------------------------------------
(* The children run, and users do what they like.  A child that fails or is  *)
(* stopped counts as one that is deleted, one that is stopping as one queued. *)

ChildMoves(c, s) ==
    /\ \/ child[c] = "LAUNCHING" /\ s = "COMPLETE"
       \/ child[c] \notin {"none", "DELETED"} /\ s = "DELETED"
    /\ child' = [child EXCEPT ![c] = s]
    /\ ended' = ended \cup {c}
    /\ UNCHANGED <<parent, launched, launcher, workerVars, draft, wish, clobbered, boundVars>>

(* job_stop, job_delete; get_sweep_results stores its table in the parent. *)
Requests(s) ==
    /\ requests < MaxRequests /\ requests' = requests + 1
    /\ Drafts("user", IF s = "results" THEN parent ELSE [parent EXCEPT !.status = s])
    /\ UNCHANGED <<parent, launchVars, workerVars, wish, clobbered, faults>>
RequestWritten ==
    /\ Rewrites("user")
    /\ wish' = IF draft["user"].new.status \in {"STOPPING", "DELETED"} THEN draft["user"].new.status ELSE wish
    /\ UNCHANGED <<launchVars, workerVars, boundVars>>

Crash ==
    /\ faults < MaxFaults /\ faults' = faults + 1
    /\ launcher' = IF launcher = "done" THEN "done" ELSE "dead"
    /\ draft' = [w \in Writers |-> NoDraft] /\ Idle
    /\ UNCHANGED <<parent, child, launched, ended, overruled, wish, clobbered, requests>>

Launcher ==
    \/ \E c \in Children : Creates(c) \/ \E s \in {"LAUNCHING", "FAILED"} : Launches(c, s)
    \/ Aborts \/ DraftsIds \/ WritesIds \/ DraftsRunning \/ WritesRunning
Worker ==
    \/ \E c \in Children : ReadsChild(c)
    \/ Lists \/ DraftsCounts \/ DraftsProgress \/ WritesCounts
    \/ DraftsEnd \/ DraftsComplete \/ WritesComplete
Others ==
    \/ \E c \in Children, s \in {"COMPLETE", "DELETED"} : ChildMoves(c, s)
    \/ \E s \in {"results", "STOPPING", "DELETED"} : Requests(s)
    \/ RequestWritten
    \/ Crash

Next == Launcher \/ Worker \/ Others
Spec == Init /\ [][Next]_vars

(* The worker's loop goes on: its errors are caught, it sleeps a fixed time, *)
(* and it is started again with the API.                                    *)
FairSpec == Spec /\ WF_vars(Worker)
-------------------------------------------------------------------------------
(* A sweep is complete only if every one of its children has been over, *)
(* whichever reads failed and however the children moved while they were *)
(* counted (refresh_sweep_parent).                                       *)
NotCompletedEarly == parent.status = "COMPLETE" => ended = Children

(* What a user asked for stands, unless an overlapping update put an old    *)
(* record back or the worker had listed the sweep before the request        *)
(* (apply_parent_sweep_updates tests the status of its listing).            *)
RequestStands == wish # "none" /\ ~clobbered /\ ~overruled => parent.status = wish

(* When all children of a listed sweep are over, the sweep is completed. *)
Settled == parent.status \in ActiveSweep /\ parent.ids = Children /\ \A c \in Children : child[c] \in Over
SweepEnds == Settled ~> ~Settled
================================================================================
