------------------------------ MODULE SweepProofs ------------------------------
(***************************************************************************)
(* Theorems about Sweep, for any number of configurations, faults and      *)
(* requests.                                                               *)
(***************************************************************************)
EXTENDS Sweep, FiniteSetTheorems, TLAPS

Statuses == {"none", "QUEUED", "LAUNCHING"} \cup Over
Seen == {"unread", "failing", "QUEUED", "LAUNCHING"} \cup Over

(* Every child that is over has been over, also as the worker has read it. *)
OverEnded == \A c \in Children : (child[c] \in Over => c \in ended) /\ (seen[c] \in Over => c \in ended)

(* Only children that were launched are listed, in any copy of the parent. *)
IdsLaunched ==
    /\ \A c \in launched : child[c] # "none"
    /\ parent.ids \subseteq launched /\ list.ids \subseteq launched
    /\ \A w \in Writers : draft[w] # NoDraft => draft[w].new.ids \subseteq launched

(* A record that says COMPLETE, stored or to be stored, is right. *)
CompleteRight ==
    /\ parent.status = "COMPLETE" => ended = Children
    /\ \A w \in Writers : draft[w] # NoDraft /\ draft[w].new.status = "COMPLETE" => ended = Children
    /\ step \in {"ending", "finishing"} => ended = Children /\ list.status \in ActiveSweep

(* What an update makes of the status it has read. *)
DraftShape ==
    /\ draft["launcher"] # NoDraft => draft["launcher"].new.status = draft["launcher"].base.status
    /\ draft["worker"] # NoDraft /\ step # "finishing" => draft["worker"].new.status = draft["worker"].base.status
    /\ draft["user"] # NoDraft =>
          \/ draft["user"].new.status = draft["user"].base.status
          \/ draft["user"].new.status \in {"STOPPING", "DELETED"}

SweepInv == TypeOK /\ OverEnded /\ IdsLaunched /\ CompleteRight /\ DraftShape /\ RequestStands
-------------------------------------------------------------------------------
(* Counting children.                                                      *)

LEMMA ChildrenFinite == IsFiniteSet(Children) /\ Cardinality(Children) = Configs
  BY SweepAssumption, FS_Interval DEF SweepAssumption, Children

LEMMA Counting ==
    ASSUME NEW S \in SUBSET Children
    PROVE  IsFiniteSet(S) /\ Cardinality(S) \in Counted
<1>1. IsFiniteSet(S) /\ Cardinality(S) <= Configs
  BY ChildrenFinite, FS_Subset
<1>2. Cardinality(S) \in Nat
  BY <1>1, FS_CardinalityType
<1> QED
  BY <1>1, <1>2, SweepAssumption DEF SweepAssumption, Counted

(* Complete and failed children are counted apart, so that their counts    *)
(* add up to the number of all children only if all are over.              *)
LEMMA CountsAdd ==
    /\ With({"COMPLETE"}) + FailedCount \in Counted
    /\ With({"LAUNCHING"}) \in Counted
    /\ AllComplete => \A c \in Children : seen[c] \in Over
<1> DEFINE Done == {c \in Children : seen[c] \in {"COMPLETE"}}
           Failed == {c \in Children : seen[c] \in Failures}
<1>1. Done \cap Failed = {}
  BY DEF Failures
<1>2. /\ IsFiniteSet(Done) /\ IsFiniteSet(Failed)
      /\ Cardinality(Done) \in Nat /\ Cardinality(Failed) \in Nat
      /\ Cardinality(Done \cup Failed) \in Counted
  <2>1. IsFiniteSet(Done) /\ IsFiniteSet(Failed) /\ Cardinality(Done \cup Failed) \in Counted
    BY Counting
  <2> QED
    BY <2>1, FS_CardinalityType
<1>3. Cardinality(Done \cup Failed) = Cardinality(Done) + Cardinality(Failed)
  <2>1. Cardinality(Done \cap Failed) = 0
    BY <1>1, FS_EmptySet
  <2>2. Cardinality(Done \cup Failed) = Cardinality(Done) + Cardinality(Failed) - Cardinality(Done \cap Failed)
    BY <1>2, FS_Union
  <2> QED
    BY <1>2, <2>1, <2>2
<1>4. With({"COMPLETE"}) = Cardinality(Done) /\ FailedCount = Cardinality(Failed)
  BY DEF With, FailedCount
<1>5. With({"LAUNCHING"}) \in Counted
  BY Counting DEF With
<1>6. ASSUME AllComplete PROVE \A c \in Children : seen[c] \in Over
  <2>1. Cardinality(Done \cup Failed) = Cardinality(Children)
    BY <1>3, <1>4, <1>6, ChildrenFinite DEF AllComplete
  <2>2. Done \cup Failed = Children
    BY <2>1, ChildrenFinite, FS_Subset
  <2> QED
    BY <2>2 DEF Over
<1> QED
  BY <1>2, <1>3, <1>4, <1>5, <1>6
-------------------------------------------------------------------------------
(* Updates of the parent.                                                  *)

LEMMA RecordOf ==
    ASSUME TypeOK, NEW w \in Writers, draft[w] # NoDraft
    PROVE  draft[w].base \in Parents /\ draft[w].new \in Parents
  BY DEF TypeOK, ParentType

LEMMA DraftsType ==
    ASSUME TypeOK, NEW w \in Writers, NEW new \in Parents, Drafts(w, new)
    PROVE  /\ draft' \in [Writers -> [base : Parents, new : Parents] \cup {NoDraft}]
           /\ draft'[w] = [base |-> parent, new |-> new]
           /\ \A v \in Writers : v # w => draft'[v] = draft[v]
  BY DEF TypeOK, ParentType, Drafts

LEMMA RewritesType ==
    ASSUME TypeOK, NEW w \in Writers, Rewrites(w)
    PROVE  /\ draft' \in [Writers -> [base : Parents, new : Parents] \cup {NoDraft}]
           /\ draft[w] # NoDraft /\ draft'[w] = NoDraft /\ parent' = draft[w].new /\ parent' \in Parents
           /\ \A v \in Writers : v # w => draft'[v] = draft[v]
           /\ clobbered' \in BOOLEAN /\ (~clobbered' => ~clobbered /\ draft[w].base = parent)
<1>1. draft[w].new \in Parents
  BY RecordOf DEF Rewrites
<1> QED
  BY <1>1 DEF TypeOK, ParentType, HistoryType, Rewrites

LEMMA CountsDraft ==
    ASSUME TypeOK, NEW new, new = [f \in DOMAIN parent |-> IF f \in Changed THEN Counts[f] ELSE parent[f]]
    PROVE  new \in Parents /\ new.status = parent.status /\ new.ids = parent.ids
<1>1. parent \in Parents /\ DOMAIN parent = {"status", "ids", "over", "running"}
  BY DEF TypeOK, ParentType, Parents
<1>2. Counts.over \in Counted /\ Counts.running \in Counted /\ Changed \subseteq {"over", "running"}
  BY CountsAdd DEF Counts, Changed
<1>3. /\ new.status = parent.status /\ new.ids = parent.ids /\ new.over \in Counted /\ new.running \in Counted
      /\ new = [status |-> new.status, ids |-> new.ids, over |-> new.over, running |-> new.running]
  <2>1. /\ new.status = parent.status /\ new.ids = parent.ids
    BY <1>1, <1>2
  <2>2. new.over \in Counted /\ new.running \in Counted
    BY <1>1, <1>2 DEF Parents
  <2>3. DOMAIN new = {"status", "ids", "over", "running"}
    BY <1>1
  <2>4. new = [f \in {"status", "ids", "over", "running"} |-> new[f]]
    BY <1>1
  <2> QED
    BY <2>1, <2>2, <2>4
<1> QED
  BY <1>1, <1>3 DEF Parents

LEMMA NewParentType == NewParent \in Parents /\ NewParent.status = "RUNNING" /\ NewParent.ids = {}
  BY SweepAssumption DEF SweepAssumption, NewParent, Parents, Counted

LEMMA SweepInit == Init => SweepInv
<1> SUFFICES ASSUME Init PROVE SweepInv
  OBVIOUS
<1>1. TypeOK
  <2>1. ChildType /\ WorkerType
    BY NewParentType DEF Init, ChildType, WorkerType, Unread
  <2>2. ParentType
    BY NewParentType DEF Init, ParentType
  <2>3. HistoryType
    <3>1. 0 \in 0 .. MaxFaults /\ 0 \in 0 .. MaxRequests
      BY SweepAssumption DEF SweepAssumption
    <3>2. FALSE \in BOOLEAN
      OBVIOUS
    <3> QED
      BY <3>1, <3>2, Zenon DEF Init, HistoryType
  <2> QED
    BY <2>1, <2>2, <2>3 DEF TypeOK
<1>2. OverEnded
  BY DEF Init, OverEnded, Unread, Over, Failures
<1>3. IdsLaunched
  BY NewParentType DEF Init, IdsLaunched
<1>4. CompleteRight /\ DraftShape
  BY NewParentType DEF Init, CompleteRight, DraftShape, Writers
<1>5. RequestStands
  BY DEF Init, RequestStands
<1> QED
  BY <1>1, <1>2, <1>3, <1>4, <1>5 DEF SweepInv

(* The launcher's steps. *)
LEMMA LauncherStep == SweepInv /\ Launcher => SweepInv'
<1> SUFFICES ASSUME SweepInv, Launcher PROVE SweepInv'
  OBVIOUS
<1>0. /\ TypeOK /\ OverEnded /\ IdsLaunched /\ CompleteRight /\ DraftShape /\ RequestStands
      /\ parent \in Parents /\ child \in [Children -> Statuses] /\ launched \subseteq Children
      /\ MaxFaults \in Nat /\ "launcher" \in Writers
  BY SweepAssumption DEF SweepInv, TypeOK, ParentType, ChildType, SweepAssumption, Writers, Statuses
<1>1. ASSUME NEW c \in Children, Creates(c) PROVE SweepInv'
  <2>1. UNCHANGED <<parent, launched, launcher, ended, workerVars, draft, wish, clobbered, boundVars>>
        /\ child' = [child EXCEPT ![c] = "QUEUED"]
    BY <1>1 DEF Creates
  <2>2. TypeOK'
    BY <1>0, <2>1 DEF TypeOK, ChildType, WorkerType, ParentType, HistoryType, workerVars, boundVars, Statuses
  <2>3. OverEnded' /\ IdsLaunched'
    BY <1>0, <2>1 DEF OverEnded, IdsLaunched, workerVars, Over, Failures
  <2>4. CompleteRight' /\ DraftShape' /\ RequestStands'
    BY <1>0, <2>1 DEF CompleteRight, DraftShape, RequestStands, workerVars
  <2> QED
    BY <2>2, <2>3, <2>4 DEF SweepInv
<1>2. ASSUME NEW c \in Children, NEW s \in {"LAUNCHING", "FAILED"}, Launches(c, s) PROVE SweepInv'
  <2>1. /\ UNCHANGED <<parent, launcher, workerVars, draft, wish, clobbered, boundVars>>
        /\ child' = [child EXCEPT ![c] = s] /\ launched' = launched \cup {c}
        /\ ended' = IF s = "FAILED" THEN ended \cup {c} ELSE ended
    BY <1>2 DEF Launches
  <2>2. TypeOK'
    BY <1>0, <2>1 DEF TypeOK, ChildType, WorkerType, ParentType, HistoryType, workerVars, boundVars, Statuses, Over, Failures
  <2>3. OverEnded' /\ IdsLaunched'
    BY <1>0, <2>1 DEF OverEnded, IdsLaunched, workerVars, Over, Failures
  <2>4. CompleteRight' /\ DraftShape' /\ RequestStands'
    BY <1>0, <2>1 DEF CompleteRight, DraftShape, RequestStands, workerVars, TypeOK, ChildType
  <2> QED
    BY <2>2, <2>3, <2>4 DEF SweepInv
<1>3. CASE Aborts
  <2>1. TypeOK'
    BY <1>0, <1>3 DEF Aborts, TypeOK, ChildType, WorkerType, ParentType, HistoryType, workerVars
  <2>2. OverEnded' /\ IdsLaunched' /\ CompleteRight' /\ DraftShape' /\ RequestStands'
    BY <1>0, <1>3 DEF Aborts, OverEnded, IdsLaunched, CompleteRight, DraftShape, RequestStands, workerVars
  <2> QED
    BY <2>1, <2>2 DEF SweepInv
<1>4. ASSUME NEW new \in Parents, new.status = parent.status, new.ids \subseteq launched, Drafts("launcher", new),
             launcher' \in {"ids", "running"}, UNCHANGED <<parent, child, launched, ended, workerVars, wish, clobbered, boundVars>>
      PROVE  SweepInv'
  <2>1. /\ draft' \in [Writers -> [base : Parents, new : Parents] \cup {NoDraft}]
        /\ draft'["launcher"] = [base |-> parent, new |-> new]
        /\ \A v \in Writers : v # "launcher" => draft'[v] = draft[v]
    BY <1>0, <1>4, DraftsType
  <2>2. TypeOK'
    BY <1>0, <1>4, <2>1 DEF TypeOK, ChildType, WorkerType, ParentType, HistoryType, workerVars, boundVars
  <2>3. OverEnded' /\ IdsLaunched'
    BY <1>0, <1>4, <2>1 DEF OverEnded, IdsLaunched, workerVars
  <2>4. CompleteRight' /\ DraftShape' /\ RequestStands'
    BY <1>0, <1>4, <2>1 DEF CompleteRight, DraftShape, RequestStands, workerVars, Writers
  <2> QED
    BY <2>2, <2>3, <2>4 DEF SweepInv
<1>5. ASSUME Rewrites("launcher"), launcher' \in {"running", "done"}, UNCHANGED <<child, launched, ended, workerVars, wish, boundVars>>
      PROVE  SweepInv'
  <2>1. /\ draft' \in [Writers -> [base : Parents, new : Parents] \cup {NoDraft}]
        /\ draft["launcher"] # NoDraft /\ draft'["launcher"] = NoDraft
        /\ parent' = draft["launcher"].new /\ parent' \in Parents
        /\ \A v \in Writers : v # "launcher" => draft'[v] = draft[v]
        /\ clobbered' \in BOOLEAN /\ (~clobbered' => ~clobbered /\ draft["launcher"].base = parent)
    BY <1>0, <1>5, RewritesType
  <2>2. TypeOK'
    BY <1>0, <1>5, <2>1 DEF TypeOK, ChildType, WorkerType, ParentType, HistoryType, workerVars, boundVars
  <2>3. OverEnded' /\ IdsLaunched'
    BY <1>0, <1>5, <2>1 DEF OverEnded, IdsLaunched, workerVars
  <2>4. CompleteRight' /\ DraftShape' /\ RequestStands'
    BY <1>0, <1>5, <2>1 DEF CompleteRight, DraftShape, RequestStands, workerVars, Writers
  <2> QED
    BY <2>2, <2>3, <2>4 DEF SweepInv
<1>6. CASE DraftsIds
  <2>1. [parent EXCEPT !.ids = Listed] \in Parents /\ Listed = launched
    BY <1>0 DEF Parents, Listed
  <2> QED
    BY <1>0, <1>4, <1>6, <2>1 DEF DraftsIds, Parents
<1>7. CASE DraftsRunning
  <2>1. [parent EXCEPT !.running = Cardinality(launched)] \in Parents
    BY <1>0, Counting DEF Parents
  <2>2. UNCHANGED <<parent, child, launched, ended, workerVars, wish, clobbered, boundVars>> /\ launcher' = "running"
        /\ Drafts("launcher", [parent EXCEPT !.running = Cardinality(launched)])
    BY <1>7 DEF DraftsRunning, launchVars
  <2> QED
    BY <1>0, <1>4, <2>1, <2>2 DEF Parents, IdsLaunched
<1>8. CASE WritesIds \/ WritesRunning
  BY <1>5, <1>8 DEF WritesIds, WritesRunning
<1> QED
  BY <1>1, <1>2, <1>3, <1>6, <1>7, <1>8 DEF Launcher

(* The worker's steps. *)
LEMMA WorkerStep == SweepInv /\ Worker => SweepInv'
<1> SUFFICES ASSUME SweepInv, Worker PROVE SweepInv'
  OBVIOUS
<1>0. /\ TypeOK /\ OverEnded /\ IdsLaunched /\ CompleteRight /\ DraftShape /\ RequestStands
      /\ parent \in Parents /\ list \in Parents /\ seen \in [Children -> Seen] /\ child \in [Children -> Statuses]
      /\ launched \subseteq Children /\ MaxFaults \in Nat /\ "worker" \in Writers
  BY SweepAssumption DEF SweepInv, TypeOK, ParentType, ChildType, WorkerType, SweepAssumption, Writers, Seen, Statuses
<1>1. ASSUME NEW c \in Children, ReadsChild(c) PROVE SweepInv'
  <2>1. child[c] # "none" /\ child[c] \in Seen
    BY <1>0, <1>1 DEF ReadsChild, IdsLaunched, Seen, Statuses
  <2>2. UNCHANGED <<parent, launchVars, list, step, overruled, draft, wish, clobbered, requests>> /\ faults' \in 0 .. MaxFaults
        /\ (seen' = [seen EXCEPT ![c] = child[c]] \/ seen' = [seen EXCEPT ![c] = "failing"])
    BY <1>0, <1>1 DEF ReadsChild, TypeOK, HistoryType
  <2>3. seen' \in [Children -> Seen] /\ \A d \in Children : seen'[d] \in Over => d \in ended
    BY <1>0, <2>1, <2>2 DEF OverEnded, Seen, Over, Failures
  <2>4. TypeOK'
    BY <1>0, <2>2, <2>3 DEF TypeOK, ChildType, WorkerType, ParentType, HistoryType, launchVars, Seen
  <2>5. OverEnded' /\ IdsLaunched' /\ CompleteRight' /\ DraftShape' /\ RequestStands'
    BY <1>0, <2>2, <2>3 DEF OverEnded, IdsLaunched, CompleteRight, DraftShape, RequestStands, launchVars
  <2> QED
    BY <2>4, <2>5 DEF SweepInv
<1>2. CASE Lists
  <2>1. TypeOK'
    BY <1>0, <1>2 DEF Lists, TypeOK, ChildType, WorkerType, ParentType, HistoryType, launchVars, boundVars
  <2>2. OverEnded' /\ IdsLaunched' /\ CompleteRight' /\ DraftShape' /\ RequestStands'
    BY <1>0, <1>2 DEF Lists, OverEnded, IdsLaunched, CompleteRight, DraftShape, RequestStands, launchVars
  <2> QED
    BY <2>1, <2>2 DEF SweepInv

(* What the worker forgets. *)
<1>3. Unread \in [Children -> Seen] /\ \A c \in Children : Unread[c] \notin Over
  BY DEF Unread, Seen, Over, Failures
<1>4. /\ NewParent \in Parents /\ [NewParent EXCEPT !.status = list.status] \in Parents
      /\ [NewParent EXCEPT !.status = list.status].status = list.status
      /\ NewParent.ids = {} /\ [NewParent EXCEPT !.status = list.status].ids = {}
  BY <1>0, NewParentType DEF Parents

(* A draft that leaves status and children as they were, before the end. *)
<1>5. ASSUME NEW new \in Parents, new.status = parent.status, new.ids = parent.ids, Drafts("worker", new),
             step' \in {"counted", "progress"} \/ (step' = "ending" /\ ended = Children /\ list'.status \in ActiveSweep),
             list' \in Parents, list'.ids \subseteq launched,
             seen' \in [Children -> Seen], \A c \in Children : seen'[c] \in Over => c \in ended,
             UNCHANGED <<parent, launchVars, overruled, wish, clobbered, boundVars>>
      PROVE  SweepInv'
  <2>1. /\ draft' \in [Writers -> [base : Parents, new : Parents] \cup {NoDraft}]
        /\ draft'["worker"] = [base |-> parent, new |-> new]
        /\ \A v \in Writers : v # "worker" => draft'[v] = draft[v]
    BY <1>0, <1>5, DraftsType
  <2>2. TypeOK'
    BY <1>0, <1>5, <2>1 DEF TypeOK, ChildType, WorkerType, ParentType, HistoryType, launchVars, boundVars, Seen
  <2>3. OverEnded' /\ IdsLaunched'
    BY <1>0, <1>5, <2>1 DEF OverEnded, IdsLaunched, launchVars
  <2>4. CompleteRight'
    BY <1>0, <1>5, <2>1 DEF CompleteRight, launchVars
  <2>5. DraftShape' /\ RequestStands'
    BY <1>0, <1>5, <2>1 DEF DraftShape, RequestStands, Writers
  <2> QED
    BY <2>2, <2>3, <2>4, <2>5 DEF SweepInv

(* Steps of the worker that touch no draft. *)
<1>6. ASSUME step' \in {"idle", "counted"}, draft' = draft, draft["worker"] = NoDraft \/ step # "finishing",
             list' \in Parents, list'.ids \subseteq launched,
             seen' \in [Children -> Seen], \A c \in Children : seen'[c] \in Over => c \in ended,
             UNCHANGED <<parent, launchVars, overruled, wish, clobbered, boundVars>>
      PROVE  SweepInv'
  <2>1. TypeOK'
    BY <1>0, <1>6 DEF TypeOK, ChildType, WorkerType, ParentType, HistoryType, launchVars, boundVars, Seen
  <2>2. OverEnded' /\ IdsLaunched' /\ CompleteRight'
    BY <1>0, <1>6 DEF OverEnded, IdsLaunched, CompleteRight, launchVars
  <2>3. DraftShape' /\ RequestStands'
    BY <1>0, <1>6 DEF DraftShape, RequestStands
  <2> QED
    BY <2>1, <2>2, <2>3 DEF SweepInv
<1>7. CASE DraftsCounts
  <2>1. /\ list' \in Parents /\ list'.ids \subseteq launched /\ seen' = seen /\ step' = "counted" /\ step = "reading"
        /\ UNCHANGED <<parent, launchVars, overruled, wish, clobbered, boundVars>>
    BY <1>4, <1>7 DEF DraftsCounts, ForgetsList
  <2>2. CASE Changed = {}
    BY <1>0, <1>6, <1>7, <2>1, <2>2 DEF DraftsCounts, OverEnded
  <2>3. CASE Changed # {}
    <3>1. PICK new : /\ new = [f \in DOMAIN parent |-> IF f \in Changed THEN Counts[f] ELSE parent[f]]
                     /\ Drafts("worker", new)
      BY <1>7, <2>3 DEF DraftsCounts
    <3>2. new \in Parents /\ new.status = parent.status /\ new.ids = parent.ids
      BY <1>0, <3>1, CountsDraft
    <3> QED
      BY <1>0, <1>5, <2>1, <3>1, <3>2 DEF OverEnded
  <2> QED
    BY <2>2, <2>3
<1>8. CASE DraftsProgress
  BY <1>0, <1>5, <1>8 DEF DraftsProgress, OverEnded, IdsLaunched
<1>9. CASE DraftsEnd
  <2>1. CASE AllComplete /\ Active(list.status)
    <3>1. ended = Children
      BY <1>0, <2>1, CountsAdd DEF OverEnded, TypeOK, ChildType
    <3> QED
      BY <1>0, <1>3, <1>4, <1>5, <1>9, <2>1, <3>1 DEF DraftsEnd, ForgetsList, Active
  <2>2. CASE ~(AllComplete /\ Active(list.status))
    BY <1>3, <1>4, <1>6, <1>9, <2>2 DEF DraftsEnd, Idle
  <2> QED
    BY <2>1, <2>2
<1>10. CASE DraftsComplete
  <2> DEFINE new == [parent EXCEPT !.status = "COMPLETE"]
  <2>0. new \in Parents /\ new.status = "COMPLETE" /\ new.ids = parent.ids
    BY <1>0 DEF Parents
  <2>1. /\ draft' \in [Writers -> [base : Parents, new : Parents] \cup {NoDraft}]
        /\ draft'["worker"] = [base |-> parent, new |-> new]
        /\ \A v \in Writers : v # "worker" => draft'[v] = draft[v]
    BY <1>0, <1>10, <2>0, DraftsType DEF DraftsComplete
  <2> HIDE DEF new
  <2>2. TypeOK'
    BY <1>0, <1>10, <2>1 DEF DraftsComplete, TypeOK, ChildType, WorkerType, ParentType, HistoryType, launchVars, boundVars
  <2>3. OverEnded' /\ IdsLaunched'
    BY <1>0, <1>10, <2>0, <2>1 DEF DraftsComplete, OverEnded, IdsLaunched, launchVars
  <2>4. CompleteRight'
    BY <1>0, <1>10, <2>0, <2>1 DEF DraftsComplete, CompleteRight, launchVars
  <2>5. DraftShape' /\ RequestStands'
    BY <1>0, <1>10, <2>1 DEF DraftsComplete, DraftShape, RequestStands, Writers
  <2> QED
    BY <2>2, <2>3, <2>4, <2>5 DEF SweepInv
<1>11. CASE WritesCounts \/ WritesComplete
  <2>1. /\ draft' \in [Writers -> [base : Parents, new : Parents] \cup {NoDraft}]
        /\ draft["worker"] # NoDraft /\ draft'["worker"] = NoDraft /\ parent' = draft["worker"].new /\ parent' \in Parents
        /\ \A v \in Writers : v # "worker" => draft'[v] = draft[v]
        /\ clobbered' \in BOOLEAN /\ (~clobbered' => ~clobbered /\ draft["worker"].base = parent)
    BY <1>0, <1>11, RewritesType DEF WritesCounts, WritesComplete
  <2>2. /\ UNCHANGED <<launchVars, wish, boundVars>>
        /\ list' \in Parents /\ list'.ids \subseteq launched
        /\ seen' \in [Children -> Seen] /\ \A c \in Children : seen'[c] \in Over => c \in ended
        /\ \/ step' = step /\ list' = list /\ step # "finishing" /\ overruled' = overruled
           \/ /\ step' = "idle" /\ step = "finishing"
              /\ overruled' = (overruled \/ (list.status \in ActiveSweep /\ parent.status \notin ActiveSweep))
    BY <1>0, <1>3, <1>4, <1>11 DEF WritesCounts, WritesComplete, Idle, workerVars, OverEnded, IdsLaunched
  <2>3. TypeOK'
    BY <1>0, <2>1, <2>2 DEF TypeOK, ChildType, WorkerType, ParentType, HistoryType, launchVars, boundVars, Seen
  <2>4. OverEnded' /\ IdsLaunched'
    BY <1>0, <2>1, <2>2 DEF OverEnded, IdsLaunched, launchVars
  <2>5. CompleteRight'
    BY <1>0, <2>1, <2>2 DEF CompleteRight, launchVars
  <2>6. DraftShape'
    BY <1>0, <2>1, <2>2 DEF DraftShape, Writers
  <2>7. RequestStands'
    <3>1. CASE step # "finishing"
      BY <1>0, <2>1, <2>2, <3>1 DEF RequestStands, DraftShape
    <3>2. CASE step = "finishing"
      <4>1. list.status \in ActiveSweep
        BY <1>0, <3>2 DEF CompleteRight
      <4> QED
        BY <1>0, <2>1, <2>2, <3>2, <4>1 DEF RequestStands, ActiveSweep, TypeOK, HistoryType
    <3> QED
      BY <3>1, <3>2
  <2> QED
    BY <2>3, <2>4, <2>5, <2>6, <2>7 DEF SweepInv
<1> QED
  BY <1>1, <1>2, <1>7, <1>8, <1>9, <1>10, <1>11 DEF Worker

(* Children, users and restarts. *)
LEMMA OthersStep == SweepInv /\ Others => SweepInv'
<1> SUFFICES ASSUME SweepInv, Others PROVE SweepInv'
  OBVIOUS
<1>0. /\ TypeOK /\ OverEnded /\ IdsLaunched /\ CompleteRight /\ DraftShape /\ RequestStands
      /\ parent \in Parents /\ child \in [Children -> Statuses] /\ launched \subseteq Children /\ ended \subseteq Children
      /\ MaxFaults \in Nat /\ MaxRequests \in Nat /\ "user" \in Writers
  BY SweepAssumption DEF SweepInv, TypeOK, ParentType, ChildType, SweepAssumption, Writers, Statuses
<1>1. ASSUME NEW c \in Children, NEW s \in {"COMPLETE", "DELETED"}, ChildMoves(c, s) PROVE SweepInv'
  <2>1. /\ UNCHANGED <<parent, launched, launcher, workerVars, draft, wish, clobbered, boundVars>>
        /\ child' = [child EXCEPT ![c] = s] /\ ended' = ended \cup {c}
    BY <1>1 DEF ChildMoves
  <2>2. TypeOK'
    BY <1>0, <2>1 DEF TypeOK, ChildType, WorkerType, ParentType, HistoryType, workerVars, boundVars, Over, Failures
  <2>3. OverEnded' /\ IdsLaunched'
    BY <1>0, <2>1 DEF OverEnded, IdsLaunched, workerVars
  <2>4. CompleteRight' /\ DraftShape' /\ RequestStands'
    BY <1>0, <2>1 DEF CompleteRight, DraftShape, RequestStands, workerVars
  <2> QED
    BY <2>2, <2>3, <2>4 DEF SweepInv
<1>2. ASSUME NEW s \in {"results", "STOPPING", "DELETED"}, Requests(s) PROVE SweepInv'
  <2>1. PICK new \in Parents : /\ Drafts("user", new) /\ new.ids = parent.ids
                               /\ new.status = parent.status \/ new.status \in {"STOPPING", "DELETED"}
    BY <1>0, <1>2 DEF Requests, Parents
  <2>2. /\ draft' \in [Writers -> [base : Parents, new : Parents] \cup {NoDraft}]
        /\ draft'["user"] = [base |-> parent, new |-> new]
        /\ \A v \in Writers : v # "user" => draft'[v] = draft[v]
    BY <1>0, <2>1, DraftsType
  <2>3. UNCHANGED <<parent, launchVars, workerVars, wish, clobbered, faults>> /\ requests' \in 0 .. MaxRequests
    BY <1>0, <1>2 DEF Requests, TypeOK, HistoryType
  <2>4. TypeOK'
    BY <1>0, <2>2, <2>3 DEF TypeOK, ChildType, WorkerType, ParentType, HistoryType, launchVars, workerVars
  <2>5. OverEnded' /\ IdsLaunched'
    BY <1>0, <2>1, <2>2, <2>3 DEF OverEnded, IdsLaunched, launchVars, workerVars
  <2>6. CompleteRight' /\ DraftShape' /\ RequestStands'
    BY <1>0, <2>1, <2>2, <2>3 DEF CompleteRight, DraftShape, RequestStands, launchVars, workerVars, Writers
  <2> QED
    BY <2>4, <2>5, <2>6 DEF SweepInv
<1>3. CASE RequestWritten
  <2>1. /\ draft' \in [Writers -> [base : Parents, new : Parents] \cup {NoDraft}]
        /\ draft["user"] # NoDraft /\ draft'["user"] = NoDraft /\ parent' = draft["user"].new /\ parent' \in Parents
        /\ \A v \in Writers : v # "user" => draft'[v] = draft[v]
        /\ clobbered' \in BOOLEAN /\ (~clobbered' => ~clobbered /\ draft["user"].base = parent)
    BY <1>0, <1>3, RewritesType DEF RequestWritten
  <2>2. /\ UNCHANGED <<launchVars, workerVars, boundVars>>
        /\ wish' = IF draft["user"].new.status \in {"STOPPING", "DELETED"} THEN draft["user"].new.status ELSE wish
    BY <1>3 DEF RequestWritten
  <2>3. TypeOK'
    BY <1>0, <2>1, <2>2 DEF TypeOK, ChildType, WorkerType, ParentType, HistoryType, launchVars, workerVars, boundVars
  <2>4. OverEnded' /\ IdsLaunched' /\ CompleteRight' /\ DraftShape'
    BY <1>0, <2>1, <2>2 DEF OverEnded, IdsLaunched, CompleteRight, DraftShape, launchVars, workerVars, Writers
  <2>5. RequestStands'
    BY <1>0, <2>1, <2>2 DEF RequestStands, DraftShape, workerVars
  <2> QED
    BY <2>3, <2>4, <2>5 DEF SweepInv
<1>4. CASE Crash
  <2>1. /\ UNCHANGED <<parent, child, launched, ended, overruled, wish, clobbered, requests>>
        /\ draft' = [w \in Writers |-> NoDraft] /\ step' = "idle" /\ seen' = Unread /\ list' = NewParent
        /\ launcher' \in {"done", "dead"} /\ faults' \in 0 .. MaxFaults
    BY <1>0, <1>4 DEF Crash, Idle, TypeOK, HistoryType
  <2>2. Unread \in [Children -> Seen] /\ \A c \in Children : Unread[c] \notin Over
    BY DEF Unread, Seen, Over, Failures
  <2>3. TypeOK'
    BY <1>0, <2>1, <2>2, NewParentType DEF TypeOK, ChildType, WorkerType, ParentType, HistoryType, Seen
  <2>4. OverEnded' /\ IdsLaunched' /\ CompleteRight' /\ DraftShape' /\ RequestStands'
    BY <1>0, <2>1, <2>2, NewParentType DEF OverEnded, IdsLaunched, CompleteRight, DraftShape, RequestStands, Writers
  <2> QED
    BY <2>3, <2>4 DEF SweepInv
<1> QED
  BY <1>1, <1>2, <1>3, <1>4 DEF Others

LEMMA StutterStep == SweepInv /\ UNCHANGED vars => SweepInv'
  BY DEF SweepInv, TypeOK, ChildType, WorkerType, ParentType, HistoryType, OverEnded, IdsLaunched, CompleteRight,
         DraftShape, RequestStands, vars, launchVars, workerVars, boundVars

LEMMA SweepInvariant == Spec => []SweepInv
<1>1. SweepInv /\ [Next]_vars => SweepInv'
  BY LauncherStep, WorkerStep, OthersStep, StutterStep DEF Next
<1> QED
  BY SweepInit, <1>1, PTL DEF Spec
-------------------------------------------------------------------------------
(* Records, drafts and counts are of their declared types; in particular    *)
(* finished and running children never count more than there are.           *)
THEOREM TypeCorrect == Spec => []TypeOK
<1>1. SweepInv => TypeOK
  BY DEF SweepInv
<1> QED
  BY SweepInvariant, <1>1, PTL

(* A sweep is complete only after each of its children has been over,       *)
(* whatever was read when.                                                  *)
THEOREM CompletedLate == Spec => []NotCompletedEarly
<1>1. SweepInv => NotCompletedEarly
  BY DEF SweepInv, CompleteRight, NotCompletedEarly
<1> QED
  BY SweepInvariant, <1>1, PTL

(* What a user asked for stands until an overlapping update or a listing    *)
(* older than the request undoes it.                                        *)
THEOREM RequestsStand == Spec => []RequestStands
<1>1. SweepInv => RequestStands
  BY DEF SweepInv
<1> QED
  BY SweepInvariant, <1>1, PTL
================================================================================
