---------------------------- MODULE MCSemaphores ----------------------------
(* An agent with two threads and a second process that starts in the same   *)
(* directory, with one.                                                     *)
EXTENDS Semaphores

CONSTANTS p1, p2, a, b, c

ThreadOwner == [t \in Threads |-> IF t = c THEN p2 ELSE p1]

=============================================================================
