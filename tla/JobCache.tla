------------------------------- MODULE JobCache -------------------------------
(***************************************************************************)
(* The record of one job as API processes see it: index.json on shared     *)
(* storage, and in every process the in-memory cache that job_service      *)
(* keeps for terminal jobs (job_get_cached, job_update_status, job_delete).*)
(* The status poller lists jobs through the same cache.                    *)
(*                                                                         *)
(* Of the record only the status is kept.  Every await between reading the *)
(* record and filling the cache separates two actions; a process runs at   *)
(* most one read, one update and one invalidation of the job at a time.    *)
(***************************************************************************)
EXTENDS Naturals

CONSTANTS Nodes,     \* API processes, each with a cache of its own (mem://)
          MaxWrites  \* bound: writes of the job's status, those that fail included

ASSUME JobCacheAssumption == MaxWrites \in Nat

VARIABLES
    disk,    \* status in index.json
    cache,   \* what a process has cached for the job
    get,     \* job_get_cached: what it read and has not cached yet
    upd,     \* job_update_status: how far a terminal update is
    inv,     \* is an invalidation of the cache still to come
    left,    \* history: was a terminal status ever overwritten by another one
    undone,  \* history: processes one of whose updates read back what it had not written
    writes

cacheVars == <<disk, cache, get, upd, inv, left, undone, writes>>

TerminalStatuses == {"COMPLETE", "STOPPED", "FAILED", "DELETED"}
Status == {"LAUNCHING", "RUNNING"} \cup TerminalStatuses
None == "none"     \* nothing cached, nothing in flight
NoRecord == "empty"   \* a read that failed: {}
Wrote == "wrote"   \* the update has written, or failed to, and not read back yet

CacheTypeOK ==
    /\ disk \in Status
    /\ cache \in [Nodes -> Status \cup {None}]
    /\ get \in [Nodes -> Status \cup {None, NoRecord}]
    /\ upd \in [Nodes -> Status \cup {None, Wrote, NoRecord}]
    /\ inv \in [Nodes -> BOOLEAN]
    /\ left \in BOOLEAN /\ undone \subseteq Nodes
    /\ writes \in 0 .. MaxWrites

CacheInit ==
    /\ disk = "LAUNCHING"
    /\ cache = [n \in Nodes |-> None]
    /\ get = [n \in Nodes |-> None]
    /\ upd = [n \in Nodes |-> None]
    /\ inv = [n \in Nodes |-> FALSE]
    /\ left = FALSE /\ undone = {}
    /\ writes = 0

(* get_json_data: the record, or {} while somebody is writing it. *)
LiveReads == {disk, NoRecord}

(* Is what was read worth caching?  Mutant AnyStatus forgets the test for *)
(* terminal states.                                                       *)
AnyStatus(s) == s \in Status
Cacheable(s) == s \in TerminalStatuses

(* The guard "if live_dict". *)
Readable(s) == s # NoRecord

Write(s) ==
    /\ writes < MaxWrites
    /\ writes' = writes + 1
    /\ disk' = s
    /\ left' = (left \/ (disk \in TerminalStatuses /\ s # disk))
    /\ undone' = undone \cup {n \in Nodes : upd[n] = Wrote /\ s \notin TerminalStatuses}
-------------------------------------------------------------------------------
(* job_get_cached: a hit changes nothing, a miss reads and may fill. *)
GetMiss(n) ==
    /\ get[n] = None /\ cache[n] = None
    /\ \E s \in LiveReads : get' = [get EXCEPT ![n] = s]
    /\ UNCHANGED <<disk, cache, upd, inv, left, undone, writes>>

GetFill(n) ==
    /\ get[n] # None
    /\ get' = [get EXCEPT ![n] = None]
    /\ cache' = [cache EXCEPT ![n] = IF Cacheable(get[n]) THEN get[n] ELSE @]
    /\ UNCHANGED <<disk, upd, inv, left, undone, writes>>

(* job_update_status with a terminal status: write, read back, cache what *)
(* was read.                                                              *)
UpdateTerminal(n, s) ==
    /\ upd[n] = None
    /\ Write(s)
    /\ upd' = [upd EXCEPT ![n] = Wrote]
    /\ UNCHANGED <<cache, get, inv>>

(* Job.get or the write raises: the exception is printed, and the record  *)
(* is read back and cached all the same.                                  *)
UpdateFails(n) ==
    /\ upd[n] = None
    /\ writes < MaxWrites
    /\ writes' = writes + 1
    /\ upd' = [upd EXCEPT ![n] = Wrote]
    /\ undone' = undone \cup {n}
    /\ UNCHANGED <<disk, cache, get, inv, left>>

UpdateReadsBack(n) ==
    /\ upd[n] = Wrote
    /\ \E s \in LiveReads : upd' = [upd EXCEPT ![n] = s]
    /\ UNCHANGED <<disk, cache, get, inv, left, undone, writes>>

UpdateFill(n) ==
    /\ upd[n] \in Status \cup {NoRecord}
    /\ upd' = [upd EXCEPT ![n] = None]
    /\ cache' = [cache EXCEPT ![n] = IF Readable(upd[n]) THEN upd[n] ELSE @]
    /\ UNCHANGED <<disk, get, inv, left, undone, writes>>

(* Any other status, and any write by the job's own process, leaves the   *)
(* caches alone.                                                          *)
WriteUncached(s) ==
    /\ Write(s)
    /\ UNCHANGED <<cache, get, upd, inv>>

(* job_delete: write, then invalidate the cache of this process. *)
Delete(n) ==
    /\ ~inv[n]
    /\ Write("DELETED")
    /\ inv' = [inv EXCEPT ![n] = TRUE]
    /\ UNCHANGED <<cache, get, upd>>

(* job_update_job_data_insert_key_value: the status stays. *)
InsertKey(n) ==
    /\ ~inv[n]
    /\ inv' = [inv EXCEPT ![n] = TRUE]
    /\ UNCHANGED <<disk, cache, get, upd, left, undone, writes>>

Invalidate(n) ==
    /\ inv[n]
    /\ inv' = [inv EXCEPT ![n] = FALSE]
    /\ cache' = [cache EXCEPT ![n] = None]
    /\ UNCHANGED <<disk, get, upd, left, undone, writes>>

(* ttl="7d".  Mutant NeverExpires has no ttl. *)
NeverExpires(n) == FALSE
MayExpire(n) == cache[n] # None

Expire(n) ==
    /\ MayExpire(n)
    /\ cache' = [cache EXCEPT ![n] = None]
    /\ UNCHANGED <<disk, get, upd, inv, left, undone, writes>>
-------------------------------------------------------------------------------
CacheNext ==
    \/ \E n \in Nodes :
          \/ GetMiss(n) \/ GetFill(n)
          \/ UpdateFails(n) \/ UpdateReadsBack(n) \/ UpdateFill(n)
          \/ Delete(n) \/ InsertKey(n) \/ Invalidate(n)
          \/ Expire(n)
          \/ \E s \in {"COMPLETE", "STOPPED", "FAILED"} : UpdateTerminal(n, s)
    \/ \E s \in {"LAUNCHING", "RUNNING", "COMPLETE", "FAILED"} : WriteUncached(s)

CacheSpec == CacheInit /\ [][CacheNext]_cacheVars

(* Coroutines that were started run on, and the clock reaches every ttl. *)
FairSpec ==
    /\ CacheSpec
    /\ \A n \in Nodes : WF_cacheVars(GetFill(n)) /\ WF_cacheVars(UpdateReadsBack(n)) /\ WF_cacheVars(UpdateFill(n))
                        /\ WF_cacheVars(Expire(n))
-------------------------------------------------------------------------------
(* Properties.                                                            *)

(* A process that serves a status from its cache for a week serves one    *)
(* that is terminal, and the one on disk as long as terminal statuses are *)
(* final, whatever reads, updates and invalidations are in flight on all  *)
(* of them.  job_update_status caches what it reads back without a look   *)
(* at it: the exceptions are the processes with an update whose write     *)
(* failed unnoticed, or was overwritten before it was read back.          *)
RightWhileFinal ==
    \A n \in Nodes :
        /\ cache[n] \in TerminalStatuses \cup {None} \/ n \in undone
        /\ cache[n] \in TerminalStatuses => left \/ cache[n] = disk

(* Whatever was cached in a race is served for its ttl only: when the     *)
(* status settles, so do the caches.                                      *)
EventuallyFresh == <>[](\A n \in Nodes : cache[n] \in {None, disk})
===============================================================================
