-------------------------- MODULE MC_KeyLifecycle --------------------------
(* Small instances of the life of a key for TLC. *)
EXTENDS KeyLifecycle, TLC

\* The handlers are alike.
HandlersAreAlike == Permutations(Handlers)
===============================================================================
