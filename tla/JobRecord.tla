------------------------------- MODULE JobRecord -------------------------------
(***************************************************************************)
(* The file index.json of one job and the read-modify-write updates that   *)
(* the API's coroutines, its workers and the job's own process make on it  *)
(* with no lock between them (labresource.py).  Every await of an update   *)
(* separates two actions.                                                  *)
(*                                                                         *)
(* On a local file system opening the file for writing empties it; object  *)
(* stores swap the whole object in when the writer closes it.              *)
(***************************************************************************)
EXTENDS Naturals

CONSTANTS Writers,    \* whoever may be updating the record
          Fields,     \* top-level fields of the record
          Values,     \* values of a field
          Missing,    \* the value of a field that is not there
          Empty,      \* a file of length zero
          Torn,       \* one record over the tail of another
          MaxUpdates,  \* bound: updates
          MaxFailures, \* bound: reads that fail
          MaxDeaths   \* bound: writers that die or are broken off

ASSUME JobRecordAssumption ==
    /\ Missing \notin Values
    /\ Empty # Torn /\ {Empty, Torn} \cap [Fields -> Values \cup {Missing}] = {}
    /\ MaxUpdates \in Nat /\ MaxFailures \in Nat /\ MaxDeaths \in Nat

VARIABLES
    storage,    \* what the workspace is on: "local" or "object"
    file,       \* what is stored
    pc,         \* how far a writer's update is
    todo,       \* the field and the value it is to set
    copy,       \* the record it read
    disturbed,  \* history: did an update overlap another, end half-way or fail to read
    cutShort,   \* history: did an update end with the file opened and not written
    updates, failures, deaths

boundVars == <<updates, failures, deaths>>
vars == <<storage, file, pc, todo, copy, disturbed, cutShort, boundVars>>

Whole == [Fields -> Values]
Content == [Fields -> Values \cup {Missing}]
Nothing == [f \in Fields |-> Missing]   \* {}
Change == [field : Fields, val : Values]

TypeOK ==
    /\ storage \in {"local", "object"}
    /\ file \in Content \cup {Empty, Torn}
    /\ pc \in [Writers -> {"idle", "reading", "copied", "opened"}]
    /\ todo \in [Writers -> Change]
    /\ copy \in [Writers -> Content]
    /\ disturbed \in BOOLEAN /\ cutShort \in BOOLEAN
    /\ updates \in 0 .. MaxUpdates
    /\ failures \in 0 .. MaxFailures
    /\ deaths \in 0 .. MaxDeaths

Init ==
    /\ storage \in {"local", "object"}
    /\ file \in Whole
    /\ pc = [w \in Writers |-> "idle"]
    /\ \E c \in Change : todo = [w \in Writers |-> c]
    /\ copy = [w \in Writers |-> Nothing]
    /\ disturbed = FALSE /\ cutShort = FALSE
    /\ updates = 0
    /\ failures = 0
    /\ deaths = 0

(* get_json_data: corrupt or empty JSON reads as {}.                      *)
Parsed == IF file \in Content THEN file ELSE Nothing

(* What json_data[key] = value and the writing of json_data leave.        *)
(* Mutant OnlyTheField writes the new field alone.                        *)
OnlyTheField(w) == [Nothing EXCEPT ![todo[w].field] = todo[w].val]
Merged(w) == [copy[w] EXCEPT ![todo[w].field] = todo[w].val]
-------------------------------------------------------------------------------
StartUpdate(w) ==
    /\ pc[w] = "idle"
    /\ updates < MaxUpdates
    /\ updates' = updates + 1
    /\ pc' = [pc EXCEPT ![w] = "reading"]
    /\ \E c \in Change : todo' = [todo EXCEPT ![w] = c]
    /\ disturbed' = (disturbed \/ \E v \in Writers : pc[v] # "idle")
    /\ UNCHANGED <<storage, file, copy, cutShort, failures, deaths>>

Read(w) ==
    /\ pc[w] = "reading"
    /\ pc' = [pc EXCEPT ![w] = "copied"]
    /\ copy' = [copy EXCEPT ![w] = Parsed]
    /\ UNCHANGED <<storage, file, todo, disturbed, cutShort, boundVars>>

(* Any other exception of the read (an object store's network error, the  *)
(* last ETag retry) reads as {} too.                                      *)
ReadFails(w) ==
    /\ pc[w] = "reading"
    /\ failures < MaxFailures
    /\ failures' = failures + 1
    /\ pc' = [pc EXCEPT ![w] = "copied"]
    /\ copy' = [copy EXCEPT ![w] = Nothing]
    /\ disturbed' = TRUE
    /\ UNCHANGED <<storage, file, todo, cutShort, updates, deaths>>

(* Mutant EmptiedAlways: every storage empties the object when it opens it.*)
EmptiedAlways == Empty
Emptied == IF storage = "local" THEN Empty ELSE file

Open(w) ==
    /\ pc[w] = "copied"
    /\ pc' = [pc EXCEPT ![w] = "opened"]
    /\ file' = Emptied
    /\ UNCHANGED <<storage, todo, copy, disturbed, cutShort, boundVars>>

(* The record is written from offset 0 of a file that is empty, or that   *)
(* another writer has filled since we opened it: if that was longer, its  *)
(* tail stays behind ours.                                                *)
Close(w) ==
    /\ pc[w] = "opened"
    /\ pc' = [pc EXCEPT ![w] = "idle"]
    /\ \/ file' = Merged(w)
       \/ storage = "local" /\ file # Empty /\ file' = Torn
    /\ UNCHANGED <<storage, todo, copy, disturbed, cutShort, boundVars>>

(* The writer's process is killed, or what it hands to the object store   *)
(* is refused: an object it has not closed stays what it was.             *)
Dies(w) ==
    /\ pc[w] # "idle"
    /\ deaths < MaxDeaths
    /\ deaths' = deaths + 1
    /\ pc' = [pc EXCEPT ![w] = "idle"]
    /\ LET emptied == storage = "local" /\ pc[w] = "opened"
       IN  disturbed' = (disturbed \/ emptied) /\ cutShort' = (cutShort \/ emptied)
    /\ UNCHANGED <<storage, file, todo, copy, updates, failures>>

(* An exception (json.dumps) or a cancellation inside "async with": the   *)
(* wrapper closes what was opened with nothing written into it, and an    *)
(* object store then swaps in an empty object.                            *)
BreaksOff(w) ==
    /\ pc[w] = "opened"
    /\ deaths < MaxDeaths
    /\ deaths' = deaths + 1
    /\ pc' = [pc EXCEPT ![w] = "idle"]
    /\ file' = IF storage = "object" THEN Empty ELSE file
    /\ disturbed' = TRUE /\ cutShort' = TRUE
    /\ UNCHANGED <<storage, todo, copy, updates, failures>>
-------------------------------------------------------------------------------
Next == \E w \in Writers :
            StartUpdate(w) \/ Read(w) \/ ReadFails(w) \/ Open(w) \/ Close(w) \/ Dies(w) \/ BreaksOff(w)

Spec == Init /\ [][Next]_vars
-------------------------------------------------------------------------------
(* Properties.                                                            *)

(* As long as updates neither overlap, nor end between opening the file   *)
(* and filling it, nor fail to read, they implement a record whose fields *)
(* are set one at a time: each keeps every other field.                   *)
Stored ==
    IF ~disturbed /\ \E w \in Writers : pc[w] = "opened"
    THEN copy[CHOOSE w \in Writers : pc[w] = "opened"]
    ELSE file
Atomic == INSTANCE AtomicRecord WITH Field <- Fields, Value <- Values, record <- Stored, broken <- disturbed
SetsFields == Atomic!RecordSpec

(* A record is found empty only while a writer has the file open; and an  *)
(* object store never shows half a record, nor does a field of it go      *)
(* missing as long as no read fails, however updates overlap and writers  *)
(* are killed.  Only an update that ended after it had opened the file    *)
(* and before it wrote breaks this: cutShort.                             *)
StaysWhole ==
    ~cutShort =>
        /\ file = Empty => \E w \in Writers : pc[w] = "opened"
        /\ storage = "object" /\ failures = 0 => file \in Whole
===============================================================================
