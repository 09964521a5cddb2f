-------------------------- MODULE MCReserveManager --------------------------
(* Small instance of ReserveManager for TLC. Threads and keys are           *)
(* interchangeable: no property names one of them.                          *)
EXTENDS ReserveManager, TLC

Symmetry == Permutations(Threads) \cup Permutations(Keys)
=============================================================================
