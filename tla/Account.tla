-------------------------------- MODULE Account --------------------------------
(***************************************************************************)
(* What the quota tables promise for each job: minutes are reserved at     *)
(* most once, a reservation is given back or turned into a charge, and a   *)
(* job is charged once at most, for good.                                  *)
(***************************************************************************)
CONSTANT Jobs
VARIABLE entry  \* the entry of each job in the books

AccountInit == entry = [j \in Jobs |-> "open"]

Moves(j, from, to) == entry[j] \in from /\ entry' = [entry EXCEPT ![j] = to]

Reserve(j) == Moves(j, {"open"}, "reserved")
Free(j) == Moves(j, {"reserved"}, "freed")
(* A launch that failed is charged for its wait although its minutes were freed. *)
Charge(j) == Moves(j, {"open", "reserved", "freed"}, "charged")

AccountNext == \E j \in Jobs : Reserve(j) \/ Free(j) \/ Charge(j)
AccountSpec == AccountInit /\ [][AccountNext]_entry
================================================================================
