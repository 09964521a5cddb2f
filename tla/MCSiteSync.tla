----------------------------- MODULE MCSiteSync -----------------------------
(* Small instance of SiteSync for TLC. No property names a process or an    *)
(* archive.                                                                 *)
EXTENDS SiteSync, TLC

Symmetry == Permutations(Procs) \cup Permutations(Zips)
=============================================================================
