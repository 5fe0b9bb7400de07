-------------------------- MODULE MC_RefreshSessions --------------------------
(* A few requests for one account, for TLC. *)
EXTENDS RefreshSessions, TLC

CONSTANTS r1, r2, r3, r4

Symmetry == Permutations(Requests)
===============================================================================
