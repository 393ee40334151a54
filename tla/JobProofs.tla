------------------------------- MODULE JobProofs -------------------------------
(***************************************************************************)
(* Theorems about JobRecord, for any number of writers, fields and values, *)
(* and about JobCache, for any number of processes and of writes.          *)
(***************************************************************************)
EXTENDS JobRecord, JobCache, TLAPS

-------------------------------------------------------------------------------
(* JobRecord.                                                              *)

(* What is merged is a record again, a whole one if the copy was. *)
LEMMA MergedRecord ==
    ASSUME NEW w \in Writers, copy[w] \in Content, todo[w] \in Change
    PROVE  Merged(w) \in Content /\ (copy[w] \in Whole => Merged(w) \in Whole)
  BY DEF Merged, Content, Whole, Change

(* File, copies and updates under way are of their declared types          *)
(* (update_json_data of labresource.py, by any number of writers).         *)
THEOREM TypeCorrect == Spec => []TypeOK
<1>1. Init => TypeOK
  <2> SUFFICES ASSUME Init PROVE TypeOK
    OBVIOUS
  <2> USE JobRecordAssumption DEF JobRecordAssumption
  <2>1. file \in Content /\ copy \in [Writers -> Content] /\ todo \in [Writers -> Change]
    BY DEF Init, Whole, Content, Nothing
  <2>2. updates \in 0 .. MaxUpdates /\ failures \in 0 .. MaxFailures /\ deaths \in 0 .. MaxDeaths
    BY DEF Init
  <2> QED
    BY <2>1, <2>2 DEF Init, TypeOK
<1>2. TypeOK /\ [Next]_vars => TypeOK'
  <2> SUFFICES ASSUME TypeOK, [Next]_vars PROVE TypeOK'
    OBVIOUS
  <2> USE JobRecordAssumption DEF JobRecordAssumption, TypeOK
  <2>1. ASSUME NEW w \in Writers, StartUpdate(w) PROVE TypeOK'
    BY <2>1 DEF StartUpdate
  <2>2. ASSUME NEW w \in Writers, Read(w) PROVE TypeOK'
    BY <2>2 DEF Read, Parsed, Nothing, Content, boundVars
  <2>3. ASSUME NEW w \in Writers, ReadFails(w) PROVE TypeOK'
    BY <2>3 DEF ReadFails, Nothing, Content
  <2>4. ASSUME NEW w \in Writers, Open(w) PROVE TypeOK'
    BY <2>4 DEF Open, Emptied, boundVars
  <2>5. ASSUME NEW w \in Writers, Close(w) PROVE TypeOK'
    <3>1. file' \in Content \cup {Empty, Torn}
      BY <2>5, MergedRecord DEF Close
    <3> QED
      BY <2>5, <3>1 DEF Close, boundVars
  <2>6. ASSUME NEW w \in Writers, Dies(w) PROVE TypeOK'
    BY <2>6 DEF Dies
  <2>7. ASSUME NEW w \in Writers, BreaksOff(w) PROVE TypeOK'
    BY <2>7 DEF BreaksOff
  <2>8. CASE UNCHANGED vars
    BY <2>8 DEF vars, boundVars
  <2> QED
    BY <2>1, <2>2, <2>3, <2>4, <2>5, <2>6, <2>7, <2>8 DEF Next
<1> QED
  BY <1>1, <1>2, PTL DEF Spec
-------------------------------------------------------------------------------
(* Where no read has failed, whoever has read has a whole record to merge  *)
(* into, because an object store shows nothing else.  Only a local file is *)
(* ever empty under a writer.                                              *)
CopiesWhole ==
    storage = "object" /\ failures = 0 =>
        /\ file \in Whole
        /\ \A w \in Writers : pc[w] \in {"copied", "opened"} => copy[w] \in Whole
OpenIfEmpty == file = Empty => storage = "local" /\ \E w \in Writers : pc[w] = "opened"
WholeInv == ~cutShort => CopiesWhole /\ OpenIfEmpty

(* A file that was opened and left unwritten stays on the account. *)
LEMMA CutShortStays == TypeOK /\ [Next]_vars /\ cutShort => cutShort' = TRUE
  BY DEF TypeOK, Next, vars, boundVars, StartUpdate, Read, ReadFails, Open, Close, Dies, BreaksOff

(* A record is empty only in a writer's hands, and on an object store it   *)
(* stays whole however many updates overlap and are killed in whatever     *)
(* place, as long as no read fails and none ends between open and write.   *)
THEOREM RecordWhole == Spec => []StaysWhole
<1>0. \A c \in Content : c # Empty
  BY JobRecordAssumption DEF JobRecordAssumption, Content
<1>1. Init => WholeInv
  BY <1>0 DEF Init, WholeInv, CopiesWhole, OpenIfEmpty, Whole, Content
<1>2. TypeOK /\ WholeInv /\ [Next]_vars => WholeInv'
  <2> SUFFICES ASSUME TypeOK, WholeInv, [Next]_vars, ~cutShort' PROVE CopiesWhole' /\ OpenIfEmpty'
    BY DEF WholeInv
  <2>0. failures \in Nat /\ CopiesWhole /\ OpenIfEmpty
    BY CutShortStays, JobRecordAssumption DEF JobRecordAssumption, TypeOK, WholeInv
  <2> USE DEF CopiesWhole, OpenIfEmpty, TypeOK, boundVars
  <2>1. ASSUME NEW w \in Writers, StartUpdate(w) PROVE CopiesWhole' /\ OpenIfEmpty'
    BY <2>0, <2>1 DEF StartUpdate
  <2>2. ASSUME NEW w \in Writers, Read(w) PROVE CopiesWhole' /\ OpenIfEmpty'
    <3>1. CopiesWhole'
      BY <2>0, <2>2 DEF Read, Parsed, Whole, Content
    <3>2. OpenIfEmpty'
      BY <2>0, <2>2 DEF Read
    <3> QED
      BY <3>1, <3>2
  <2>3. ASSUME NEW w \in Writers, ReadFails(w) PROVE CopiesWhole' /\ OpenIfEmpty'
    BY <2>0, <2>3 DEF ReadFails
  <2>4. ASSUME NEW w \in Writers, Open(w) PROVE CopiesWhole' /\ OpenIfEmpty'
    BY <2>0, <2>4 DEF Open, Emptied
  <2>5. ASSUME NEW w \in Writers, Close(w) PROVE CopiesWhole' /\ OpenIfEmpty'
    <3>1. Merged(w) \in Content /\ (copy[w] \in Whole => Merged(w) \in Whole)
      BY MergedRecord
    <3>2. file' # Empty
      BY <1>0, <2>5, <3>1, JobRecordAssumption DEF Close, JobRecordAssumption
    <3>3. storage = "object" => file' = Merged(w)
      BY <2>5 DEF Close
    <3> QED
      BY <2>0, <2>5, <3>1, <3>2, <3>3 DEF Close
  <2>6. ASSUME NEW w \in Writers, Dies(w) PROVE CopiesWhole' /\ OpenIfEmpty'
    BY <2>0, <2>6 DEF Dies
  <2>7. ASSUME NEW w \in Writers, BreaksOff(w) PROVE FALSE
    BY <2>7 DEF BreaksOff
  <2>8. CASE UNCHANGED vars
    BY <2>0, <2>8 DEF vars
  <2> QED
    BY <2>1, <2>2, <2>3, <2>4, <2>5, <2>6, <2>7, <2>8 DEF Next
<1>3. WholeInv => StaysWhole
  BY DEF WholeInv, CopiesWhole, OpenIfEmpty, StaysWhole
<1> QED
  BY <1>1, <1>2, <1>3, TypeCorrect, PTL DEF Spec
-------------------------------------------------------------------------------
(* Undisturbed, one writer is at work at most, what it has read is what is *)
(* stored, and on a local file system it finds the file it has emptied.    *)
Opened(w) == pc[w] = "opened"
Alone ==
    ~disturbed =>
        /\ \A v, w \in Writers : pc[v] # "idle" /\ pc[w] # "idle" => v = w
        /\ (\A w \in Writers : ~Opened(w)) => file \in Whole
        /\ \A w \in Writers : pc[w] = "copied" => copy[w] = file
        /\ \A w \in Writers : Opened(w) => copy[w] \in Whole /\ file = IF storage = "local" THEN Empty ELSE copy[w]

(* Whoever has opened the file alone has what counts as stored. *)
LEMMA StoredByWriter ==
    ASSUME NEW w \in Writers, Opened(w), ~disturbed, Alone
    PROVE  Stored = copy[w]
<1> DEFINE c == CHOOSE v \in Writers : pc[v] = "opened"
<1>1. c \in Writers /\ pc[c] = "opened"
  BY DEF Opened
<1>2. c = w
  BY <1>1 DEF Opened, Alone
<1> QED
  BY <1>2 DEF Stored, Opened
LEMMA StoredInFile ==
    (\A w \in Writers : ~Opened(w)) => Stored = file
  BY DEF Stored, Opened
LEMMA StoredBefore ==
    ASSUME NEW w \in Writers, pc[w] \in {"reading", "copied"}, ~disturbed, Alone
    PROVE  Stored = file /\ file \in Whole
  BY StoredInFile DEF Alone, Opened

(* The same of the next state. *)
LEMMA StoredInFileNext == (\A w \in Writers : ~Opened(w)') => Stored' = file'
  BY DEF Stored, Opened
LEMMA StoredByWriterNext ==
    ASSUME NEW w \in Writers, Opened(w)', ~disturbed', Alone'
    PROVE  Stored' = copy'[w]
<1> DEFINE c == CHOOSE v \in Writers : pc'[v] = "opened"
<1>1. c \in Writers /\ pc'[c] = "opened"
  BY DEF Opened
<1>2. c = w
  BY <1>1 DEF Opened, Alone
<1> QED
  BY <1>2 DEF Stored, Opened

(* Once the writers disturbed one another they have done so for good. *)
LEMMA DisturbedStays == [Next]_vars /\ disturbed => disturbed' = TRUE
  BY DEF Next, vars, boundVars, StartUpdate, Read, ReadFails, Open, Close, Dies, BreaksOff

LEMMA AloneInit == Init => Alone
  BY DEF Init, Alone, Opened
LEMMA AloneStep == TypeOK /\ Alone /\ [Next]_vars => Alone'
<1> SUFFICES ASSUME TypeOK, Alone, [Next]_vars, ~disturbed' PROVE Alone'
  BY DEF Alone
<1>0. ~disturbed
  BY DisturbedStays
<1> USE <1>0 DEF TypeOK, Alone, Opened, boundVars
<1>1. ASSUME NEW w \in Writers, StartUpdate(w) PROVE Alone'
  BY <1>1 DEF StartUpdate
<1>2. ASSUME NEW w \in Writers, Read(w) PROVE Alone'
  <2>1. file \in Whole /\ Parsed = file
    BY <1>2, StoredBefore DEF Read, Parsed, Whole, Content
  <2> QED
    BY <1>2, <2>1 DEF Read
<1>3. ASSUME NEW w \in Writers, ReadFails(w) PROVE Alone'
  BY <1>3 DEF ReadFails
<1>4. ASSUME NEW w \in Writers, Open(w) PROVE Alone'
  <2>1. file \in Whole /\ copy[w] = file
    BY <1>4, StoredBefore DEF Open
  <2> QED
    BY <1>4, <2>1 DEF Open, Emptied
<1>5. ASSUME NEW w \in Writers, Close(w) PROVE Alone'
  <2>1. file' = Merged(w) /\ Merged(w) \in Whole
    BY <1>5, MergedRecord DEF Close, Whole, Content
  <2> QED
    BY <1>5, <2>1 DEF Close
<1>6. ASSUME NEW w \in Writers, Dies(w) PROVE Alone'
  BY <1>6 DEF Dies
<1>7. ASSUME NEW w \in Writers, BreaksOff(w) PROVE Alone'
  BY <1>7 DEF BreaksOff
<1>8. CASE UNCHANGED vars
  BY <1>8 DEF vars
<1> QED
  BY <1>1, <1>2, <1>3, <1>4, <1>5, <1>6, <1>7, <1>8 DEF Next

(* Every step sets a field of the stored record, disturbs, or changes       *)
(* neither.                                                                *)
LEMMA RecordStep ==
    TypeOK /\ TypeOK' /\ Alone /\ Alone' /\ [Next]_vars => [Atomic!RecordNext]_<<Stored, disturbed>>
<1> SUFFICES ASSUME TypeOK, TypeOK', Alone, Alone', [Next]_vars
             PROVE  Atomic!RecordNext \/ UNCHANGED <<Stored, disturbed>>
  OBVIOUS
<1> DEFINE SetsOne == \E f \in Fields, v \in Values : Atomic!SetField(f, v)
<1>1. CASE disturbed'
  BY <1>1 DEF Atomic!RecordNext, Atomic!Break, TypeOK, Next, vars, boundVars, StartUpdate, Read, ReadFails, Open, Close, Dies, BreaksOff
<1>2. CASE ~disturbed'
  <2>0. ~disturbed
    BY <1>2, DisturbedStays
  <2>1. ASSUME NEW w \in Writers, StartUpdate(w) PROVE Stored' = Stored
    <3>1. (\A v \in Writers : ~Opened(v)) /\ (\A v \in Writers : ~Opened(v)')
      BY <1>2, <2>1 DEF StartUpdate, Opened, TypeOK
    <3> QED
      BY <2>1, <3>1, StoredInFile, StoredInFileNext DEF StartUpdate
  <2>2. ASSUME NEW w \in Writers, Read(w) PROVE Stored' = Stored
    <3>1. (\A v \in Writers : ~Opened(v)) /\ (\A v \in Writers : ~Opened(v)')
      BY <2>0, <2>2 DEF Read, Opened, Alone, TypeOK
    <3> QED
      BY <2>2, <3>1, StoredInFile, StoredInFileNext DEF Read
  <2>3. ASSUME NEW w \in Writers, Open(w) PROVE Stored' = Stored
    <3>1. Stored' = copy'[w]
      BY <1>2, <2>3, StoredByWriterNext DEF Open, Opened, TypeOK
    <3> QED
      BY <2>0, <2>3, <3>1, StoredBefore DEF Open, Alone
  <2>4. ASSUME NEW w \in Writers, Close(w) PROVE SetsOne
    <3>1. Stored = copy[w] /\ file' = Merged(w)
      BY <2>0, <2>4, StoredByWriter DEF Close, Opened, Alone
    <3>2. \A v \in Writers : ~Opened(v)'
      BY <2>0, <2>4 DEF Close, Opened, Alone, TypeOK
    <3>3. Stored' = Merged(w)
      BY <3>1, <3>2, StoredInFileNext
    <3>4. todo[w].field \in Fields /\ todo[w].val \in Values
      BY DEF TypeOK, Change
    <3> QED
      BY <2>0, <2>4, <3>1, <3>3, <3>4 DEF Merged, Close, Atomic!SetField
  <2>5. ASSUME NEW w \in Writers, Dies(w) PROVE Stored' = Stored
    <3>1. \A v \in Writers : ~Opened(v)'
      BY <2>0, <2>5 DEF Dies, Opened, Alone, TypeOK
    <3>2. Stored' = file
      BY <2>5, <3>1, StoredInFileNext DEF Dies
    <3>3. CASE Opened(w)
      BY <1>2, <2>0, <2>5, <3>2, <3>3, StoredByWriter DEF Dies, Opened, Alone, TypeOK
    <3>4. CASE ~Opened(w)
      BY <2>0, <2>5, <3>2, <3>4, StoredInFile DEF Dies, Opened, Alone
    <3> QED
      BY <3>3, <3>4
  <2>6. CASE UNCHANGED vars
    BY <2>6 DEF vars, Stored
  <2>7. ASSUME NEW w \in Writers, ReadFails(w) \/ BreaksOff(w) PROVE FALSE
    BY <1>2, <2>7 DEF ReadFails, BreaksOff
  <2>8. disturbed' = disturbed
    BY <1>2, <2>0 DEF TypeOK
  <2> QED
    BY <2>1, <2>2, <2>3, <2>4, <2>5, <2>6, <2>7, <2>8 DEF Next, Atomic!RecordNext
<1> QED
  BY <1>1, <1>2

(* Updates that neither overlap, nor end half-way, nor fail to read set    *)
(* their one field in one step, on either kind of storage and for any      *)
(* number of writers and fields (update_json_data and the setters on it).  *)
THEOREM FieldsSet == Spec => SetsFields
<1>1. Init => Atomic!RecordInit
  BY StoredInFile DEF Init, Opened, Atomic!RecordInit, Whole
<1> QED
  BY <1>1, AloneInit, AloneStep, RecordStep, TypeCorrect, PTL DEF Spec, SetsFields, Atomic!RecordSpec
-------------------------------------------------------------------------------
(* JobCache.                                                               *)

(* Every read, update and invalidation in flight, and every cached status, *)
(* is of its declared type (job_get_cached, job_update_status, job_delete). *)
THEOREM CacheTypeCorrect == CacheSpec => []CacheTypeOK
<1>1. CacheInit => CacheTypeOK
  <2>1. CacheInit => writes \in 0 .. MaxWrites
    BY JobCacheAssumption DEF JobCacheAssumption, CacheInit
  <2> QED
    BY <2>1 DEF CacheInit, CacheTypeOK, Status, TerminalStatuses, None
<1>2. CacheTypeOK /\ [CacheNext]_cacheVars => CacheTypeOK'
  <2> SUFFICES ASSUME CacheTypeOK, [CacheNext]_cacheVars PROVE CacheTypeOK'
    OBVIOUS
  <2> USE JobCacheAssumption DEF JobCacheAssumption, CacheTypeOK, Status, TerminalStatuses, None, NoRecord, Wrote
  <2>1. ASSUME NEW n \in Nodes, GetMiss(n) PROVE CacheTypeOK'
    BY <2>1 DEF GetMiss, LiveReads
  <2>2. ASSUME NEW n \in Nodes, GetFill(n) PROVE CacheTypeOK'
    BY <2>2 DEF GetFill, Cacheable
  <2>3. ASSUME NEW n \in Nodes, UpdateReadsBack(n) PROVE CacheTypeOK'
    BY <2>3 DEF UpdateReadsBack, LiveReads
  <2>4. ASSUME NEW n \in Nodes, UpdateFill(n) PROVE CacheTypeOK'
    BY <2>4 DEF UpdateFill, Readable
  <2>5. ASSUME NEW n \in Nodes, Delete(n) PROVE CacheTypeOK'
    BY <2>5 DEF Delete, Write
  <2>6. ASSUME NEW n \in Nodes, InsertKey(n) PROVE CacheTypeOK'
    BY <2>6 DEF InsertKey
  <2>7. ASSUME NEW n \in Nodes, Invalidate(n) PROVE CacheTypeOK'
    BY <2>7 DEF Invalidate
  <2>8. ASSUME NEW n \in Nodes, Expire(n) PROVE CacheTypeOK'
    BY <2>8 DEF Expire
  <2>9. ASSUME NEW n \in Nodes, NEW s \in {"COMPLETE", "STOPPED", "FAILED"}, UpdateTerminal(n, s) PROVE CacheTypeOK'
    BY <2>9 DEF UpdateTerminal, Write
  <2>10. ASSUME NEW s \in {"LAUNCHING", "RUNNING", "COMPLETE", "FAILED"}, WriteUncached(s) PROVE CacheTypeOK'
    BY <2>10 DEF WriteUncached, Write
  <2>11. ASSUME NEW n \in Nodes, UpdateFails(n) PROVE CacheTypeOK'
    BY <2>11 DEF UpdateFails
  <2>12. CASE UNCHANGED cacheVars
    BY <2>12 DEF cacheVars
  <2> QED
    BY <2>1, <2>2, <2>3, <2>4, <2>5, <2>6, <2>7, <2>8, <2>9, <2>10, <2>11, <2>12 DEF CacheNext
<1> QED
  BY <1>1, <1>2, PTL DEF CacheSpec
-------------------------------------------------------------------------------
(* While no terminal status was overwritten, any terminal status that a    *)
(* process has cached, or has read and may cache, is the one on disk.      *)
Trusted(s) == s \in TerminalStatuses => s = disk
AllTrusted == ~left => \A n \in Nodes : Trusted(cache[n]) /\ Trusted(get[n]) /\ Trusted(upd[n])

(* An update that has yet to read back finds a terminal status, unless it  *)
(* was undone; so what it then caches is one.                              *)
OwnStatus(n) ==
    n \notin undone =>
        /\ cache[n] \in TerminalStatuses \cup {None}
        /\ upd[n] \in TerminalStatuses \cup {None, NoRecord, Wrote}
        /\ upd[n] = Wrote => disk \in TerminalStatuses
AllOwn == \A n \in Nodes : OwnStatus(n)

(* A write keeps that trust: over a terminal status it sets left, or       *)
(* writes the status that is there; under any other nothing terminal was   *)
(* read.                                                                   *)
LEMMA WriteKeepsTrust ==
    ASSUME CacheTypeOK, AllTrusted, NEW s \in Status, Write(s), ~left', cache' = cache, get' = get,
           \A n \in Nodes : upd'[n] \in TerminalStatuses => upd'[n] = upd[n]
    PROVE  \A n \in Nodes : Trusted(cache[n])' /\ Trusted(get[n])' /\ Trusted(upd[n])'
  BY DEF AllTrusted, Trusted, Write, CacheTypeOK

(* Nobody serves a status that is not terminal unless an update of its own *)
(* was undone, or a wrong one as long as terminal statuses are final, for  *)
(* any number of processes and any length of the races (job_service).      *)
THEOREM CachesRight == CacheSpec => []RightWhileFinal
<1> USE DEF None, NoRecord, Wrote
<1>1. CacheInit => AllTrusted /\ AllOwn
  BY DEF CacheInit, AllOwn, AllTrusted, Trusted, OwnStatus, Status, TerminalStatuses
<1>2. CacheTypeOK /\ AllTrusted /\ [CacheNext]_cacheVars => AllTrusted'
  <2> SUFFICES ASSUME CacheTypeOK, AllTrusted, [CacheNext]_cacheVars, ~left'
               PROVE  \A n \in Nodes : Trusted(cache[n])' /\ Trusted(get[n])' /\ Trusted(upd[n])'
    BY DEF AllTrusted
  <2> DEFINE Goal == \A n \in Nodes : Trusted(cache[n])' /\ Trusted(get[n])' /\ Trusted(upd[n])'
  <2>0. ~left
    BY DEF CacheNext, cacheVars, GetMiss, GetFill, UpdateFails, UpdateReadsBack, UpdateFill, Delete, InsertKey,
           Invalidate, Expire, UpdateTerminal, WriteUncached, Write, CacheTypeOK
  <2>1. ASSUME NEW n \in Nodes, GetMiss(n) PROVE Goal
    BY <2>0, <2>1 DEF GetMiss, LiveReads, AllTrusted, Trusted, CacheTypeOK, TerminalStatuses
  <2>2. ASSUME NEW n \in Nodes, GetFill(n) PROVE Goal
    BY <2>0, <2>2 DEF GetFill, Cacheable, AllTrusted, Trusted, CacheTypeOK, TerminalStatuses
  <2>3. ASSUME NEW n \in Nodes, UpdateReadsBack(n) PROVE Goal
    BY <2>0, <2>3 DEF UpdateReadsBack, LiveReads, AllTrusted, Trusted, CacheTypeOK, TerminalStatuses
  <2>4. ASSUME NEW n \in Nodes, UpdateFill(n) PROVE Goal
    BY <2>0, <2>4 DEF UpdateFill, Readable, AllTrusted, Trusted, CacheTypeOK, TerminalStatuses
  <2>5. ASSUME NEW n \in Nodes, Delete(n) PROVE Goal
    BY <2>5, WriteKeepsTrust DEF Delete, Status, TerminalStatuses
  <2>6. ASSUME NEW n \in Nodes, InsertKey(n) PROVE Goal
    BY <2>0, <2>6 DEF InsertKey, AllTrusted, Trusted
  <2>7. ASSUME NEW n \in Nodes, Invalidate(n) PROVE Goal
    BY <2>0, <2>7 DEF Invalidate, AllTrusted, Trusted, CacheTypeOK, TerminalStatuses
  <2>8. ASSUME NEW n \in Nodes, Expire(n) PROVE Goal
    BY <2>0, <2>8 DEF Expire, AllTrusted, Trusted, CacheTypeOK, TerminalStatuses
  <2>9. ASSUME NEW n \in Nodes, NEW s \in {"COMPLETE", "STOPPED", "FAILED"}, UpdateTerminal(n, s) PROVE Goal
    <3>1. s \in Status /\ Write(s) /\ cache' = cache /\ get' = get
      BY <2>9 DEF UpdateTerminal, Status, TerminalStatuses
    <3>2. \A m \in Nodes : upd'[m] \in TerminalStatuses => upd'[m] = upd[m]
      BY <2>9 DEF UpdateTerminal, CacheTypeOK, TerminalStatuses
    <3> QED
      BY <3>1, <3>2, WriteKeepsTrust
  <2>10. ASSUME NEW s \in {"LAUNCHING", "RUNNING", "COMPLETE", "FAILED"}, WriteUncached(s) PROVE Goal
    BY <2>10, WriteKeepsTrust DEF WriteUncached, Status, TerminalStatuses
  <2>11. ASSUME NEW n \in Nodes, UpdateFails(n) PROVE Goal
    BY <2>0, <2>11 DEF UpdateFails, AllTrusted, Trusted, CacheTypeOK, TerminalStatuses
  <2>12. CASE UNCHANGED cacheVars
    BY <2>0, <2>12 DEF cacheVars, AllTrusted, Trusted
  <2> QED
    BY <2>1, <2>2, <2>3, <2>4, <2>5, <2>6, <2>7, <2>8, <2>9, <2>10, <2>11, <2>12 DEF CacheNext
<1>3. CacheTypeOK /\ AllOwn /\ [CacheNext]_cacheVars => AllOwn'
  <2> SUFFICES ASSUME CacheTypeOK, AllOwn, [CacheNext]_cacheVars, NEW m \in Nodes
               PROVE  OwnStatus(m)'
    BY DEF AllOwn
  <2>0. OwnStatus(m)
    BY DEF AllOwn
  <2> USE DEF OwnStatus, CacheTypeOK
  <2>1. ASSUME NEW n \in Nodes, GetMiss(n) PROVE OwnStatus(m)'
    BY <2>0, <2>1 DEF GetMiss
  <2>2. ASSUME NEW n \in Nodes, GetFill(n) PROVE OwnStatus(m)'
    BY <2>0, <2>2 DEF GetFill, Cacheable
  <2>3. ASSUME NEW n \in Nodes, UpdateReadsBack(n) PROVE OwnStatus(m)'
    BY <2>0, <2>3 DEF UpdateReadsBack, LiveReads, Status, TerminalStatuses
  <2>4. ASSUME NEW n \in Nodes, UpdateFill(n) PROVE OwnStatus(m)'
    BY <2>0, <2>4 DEF UpdateFill, Readable, Status, TerminalStatuses
  <2>5. ASSUME NEW n \in Nodes, Delete(n) PROVE OwnStatus(m)'
    BY <2>0, <2>5 DEF Delete, Write, TerminalStatuses
  <2>6. ASSUME NEW n \in Nodes, InsertKey(n) PROVE OwnStatus(m)'
    BY <2>0, <2>6 DEF InsertKey
  <2>7. ASSUME NEW n \in Nodes, Invalidate(n) PROVE OwnStatus(m)'
    BY <2>0, <2>7 DEF Invalidate
  <2>8. ASSUME NEW n \in Nodes, Expire(n) PROVE OwnStatus(m)'
    BY <2>0, <2>8 DEF Expire
  <2>9. ASSUME NEW n \in Nodes, NEW s \in {"COMPLETE", "STOPPED", "FAILED"}, UpdateTerminal(n, s) PROVE OwnStatus(m)'
    BY <2>0, <2>9 DEF UpdateTerminal, Write, TerminalStatuses
  <2>10. ASSUME NEW s \in {"LAUNCHING", "RUNNING", "COMPLETE", "FAILED"}, WriteUncached(s) PROVE OwnStatus(m)'
    BY <2>0, <2>10 DEF WriteUncached, Write, TerminalStatuses
  <2>11. ASSUME NEW n \in Nodes, UpdateFails(n) PROVE OwnStatus(m)'
    BY <2>0, <2>11 DEF UpdateFails
  <2>12. CASE UNCHANGED cacheVars
    BY <2>0, <2>12 DEF cacheVars
  <2> QED
    BY <2>1, <2>2, <2>3, <2>4, <2>5, <2>6, <2>7, <2>8, <2>9, <2>10, <2>11, <2>12 DEF CacheNext
<1>4. AllTrusted /\ AllOwn => RightWhileFinal
  BY DEF AllOwn, AllTrusted, Trusted, OwnStatus, RightWhileFinal
<1> QED
  BY <1>1, <1>2, <1>3, <1>4, CacheTypeCorrect, PTL DEF CacheSpec
===============================================================================
