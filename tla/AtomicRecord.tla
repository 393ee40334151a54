----------------------------- MODULE AtomicRecord -----------------------------
(***************************************************************************)
(* What the setters of a job promise: each changes the one field it names, *)
(* in one step.  Once the writers disturbed one another the promise is off.*)
(***************************************************************************)
CONSTANTS Field, Value

VARIABLES record,  \* the stored fields
          broken   \* is the promise off

SetField(f, v) ==
    /\ ~broken /\ UNCHANGED broken
    /\ record' = [record EXCEPT ![f] = v]

Break == broken' = TRUE

RecordInit == record \in [Field -> Value] /\ broken = FALSE

RecordNext == Break \/ \E f \in Field, v \in Value : SetField(f, v)

RecordSpec == RecordInit /\ [][RecordNext]_<<record, broken>>
===============================================================================
