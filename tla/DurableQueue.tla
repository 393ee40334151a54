----------------------------- MODULE DurableQueue -----------------------------
(***************************************************************************)
(* What the job_queue table promises: an item that was posted stays posted *)
(* until a worker takes it, whatever crashes, and an item that was taken   *)
(* is started once or, if its taker fails, never.                          *)
(***************************************************************************)
CONSTANT Item

VARIABLE board   \* where each item is

Places == {"absent", "posted", "taken", "started", "dropped"}

BoardInit == board = [i \in Item |-> "absent"]

Move(S, from, to) ==
    /\ \A i \in S : board[i] = from
    /\ board' = [i \in Item |-> IF i \in S THEN to ELSE board[i]]

Post(i) == Move({i}, "absent", "posted")
Take(i) == Move({i}, "posted", "taken")
Start(i) == Move({i}, "taken", "started")
Drop(S) == Move(S, "taken", "dropped")

BoardNext == (\E i \in Item : Post(i) \/ Take(i) \/ Start(i)) \/ (\E S \in SUBSET Item : Drop(S))

BoardSpec == BoardInit /\ [][BoardNext]_board
===============================================================================
