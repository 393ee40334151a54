------------------------------ MODULE FifoServer ------------------------------
(***************************************************************************)
(* What the local launch queue promises its callers, with no trace of how  *)
(* it is kept: one server, items served one at a time in the order they    *)
(* arrived, nobody waiting while the server is idle.                       *)
(***************************************************************************)
EXTENDS Sequences

CONSTANTS Item,    \* what may ask for a turn
          Nobody   \* the value of current when nobody is served

VARIABLES waiting, \* items that asked and were not served yet, oldest first
          current  \* the item whose turn it is

fifoVars == <<waiting, current>>

FifoInit == waiting = <<>> /\ current = Nobody

(* An item that finds the server idle is served at once, others wait. *)
Arrive(i) ==
    IF current = Nobody
    THEN current' = i /\ waiting' = <<>>
    ELSE waiting' = Append(waiting, i) /\ UNCHANGED current

(* The turn ends: it passes to the item that has waited longest. *)
Advance ==
    /\ current # Nobody
    /\ IF waiting = <<>>
       THEN current' = Nobody /\ UNCHANGED waiting
       ELSE current' = Head(waiting) /\ waiting' = Tail(waiting)

(* The server restarts and forgets everybody. *)
Forget == current' = Nobody /\ waiting' = <<>>

FifoNext == (\E i \in Item : Arrive(i)) \/ Advance \/ Forget

FifoSpec == FifoInit /\ [][FifoNext]_fifoVars
===============================================================================
