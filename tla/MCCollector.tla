---------------------------- MODULE MCCollector ----------------------------
(* Instances of Collector: a job that runs its command once beside one that *)
(* repeats it.                                                              *)
EXTENDS Collector

CONSTANTS c, s

OnceOnly == <<0, 0>>
OnceAndTwice == <<0, 2>>

=============================================================================
