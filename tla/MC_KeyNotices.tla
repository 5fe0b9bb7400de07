-------------------------- MODULE MC_KeyNotices --------------------------
(* Small instances of a student's page for TLC. *)
EXTENDS KeyNotices, TLC

\* The handlers are alike, and so are the reads.
AreAlike == Permutations(Handlers) \cup Permutations(Loads)
===============================================================================
