------------------------- MODULE MC_VerificationCodes -------------------------
(* Two mails and three guesses, for TLC. *)
EXTENDS VerificationCodes, TLC

CONSTANTS s1, s2, g1, g2, g3

Symmetry == Permutations(Sends) \cup Permutations(Guesses)
===============================================================================
