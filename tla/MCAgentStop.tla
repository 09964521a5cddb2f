---------------------------- MODULE MCAgentStop ----------------------------
(* Instances of AgentStop: a job that runs its command once beside one that *)
(* repeats it twice.                                                        *)
EXTENDS AgentStop

CONSTANTS c, s

OnceAndTwice == <<0, 2>>

=============================================================================
