----------------------------- MODULE MCScheduler -----------------------------
(* A small instance of Scheduler: two collectors, neither interval a multiple *)
(* of the other, and one that is configured not to run.                       *)
EXTENDS Scheduler, TLC

CONSTANTS c1, c2, c3

MCCollectors == {c1, c2, c3}
MCInterval == (c1 :> 2) @@ (c2 :> 3) @@ (c3 :> 0)
=============================================================================
