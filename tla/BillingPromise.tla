---------------------------- MODULE BillingPromise ----------------------------
(***************************************************************************)
(* What the credit ledger promises: a call is billed at most once, in one   *)
(* month that is fixed when it is opened, and a key's total of a month is   *)
(* raised by exactly the credits of the calls that are billed.  Nothing is  *)
(* said of leases, workers, maintenance, quotas or locks.                   *)
(***************************************************************************)
EXTENDS Naturals, CreditSums

CONSTANTS Keys, Calls, Months, KeyOf, CreditOf

VARIABLES
    outcome,    \* of a call: "unused", "pending", "charged" or "failed"
    billedIn,   \* the month of a call
    total       \* the credits charged to a key in a month

vars == <<outcome, billedIn, total>>

Init ==
    /\ outcome = [c \in Calls |-> "unused"]
    /\ billedIn = [c \in Calls |-> 0]
    /\ total = [k \in Keys |-> [m \in Months |-> 0]]

Pending == {c \in Calls : outcome[c] = "pending"}

Open(c, m) ==
    /\ outcome[c] = "unused"
    /\ outcome' = [outcome EXCEPT ![c] = "pending"]
    /\ billedIn' = [billedIn EXCEPT ![c] = m]
    /\ UNCHANGED total

\* Some calls in flight are billed together: one call, or those of a revoked key.
Bill(S) ==
    /\ S \subseteq Pending
    /\ outcome' = [c \in Calls |-> IF c \in S THEN "charged" ELSE outcome[c]]
    /\ total' = [k \in Keys |-> [m \in Months |->
                    total[k][m] + SumOver(CreditOf, {c \in S : /\ KeyOf[c] = k
                                                               /\ billedIn[c] = m})]]
    /\ UNCHANGED billedIn

Release(c) ==
    /\ c \in Pending
    /\ outcome' = [outcome EXCEPT ![c] = "failed"]
    /\ UNCHANGED <<billedIn, total>>

Next ==
    \/ \E c \in Calls, m \in Months : Open(c, m)
    \/ \E S \in SUBSET Calls : Bill(S)
    \/ \E c \in Calls : Release(c)

Spec == Init /\ [][Next]_vars
===============================================================================
