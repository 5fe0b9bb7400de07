--------------------------- MODULE MC_CreditLedger ---------------------------
(* Small instances of the credit ledger for TLC. *)
EXTENDS CreditLedger, TLC

CONSTANTS p1, k1, k2, c1, c2, c3

KeysOfOneProject == [k \in Keys |-> p1]

\* Every call is made with one key, or c2 with a second one.
OneKey  == [c \in Calls |-> k1]
TwoKeys == [c \in Calls |-> IF c = c2 THEN k2 ELSE k1]

\* Three models of different prices, one of them free; or no free one.
MixedCredits == [c \in Calls |-> IF c = c1 THEN 1 ELSE IF c = c2 THEN 2 ELSE 0]
PaidCredits  == [c \in Calls |-> IF c = c2 THEN 2 ELSE 1]
===============================================================================
