----------------------------- MODULE CallContract -----------------------------
(***************************************************************************)
(* What a gateway worker and the credit ledger owe each other for one call: *)
(* the worker reserves it, reports its outcome at most once and then never  *)
(* touches it again; everyone else (maintenance, a revocation) may only     *)
(* charge a call that is still pending.  The gateway's request handler and  *)
(* the ledger are both shown to keep this contract, each from its side.     *)
(***************************************************************************)
VARIABLES
    worker,     \* of a call: "idle", "running" or "gone"
    callState   \* gateway_calls.billing_state; "unused": no row

vars == <<worker, callState>>

Init == worker = "idle" /\ callState = "unused"

\* A reservation, whose success its worker learns of or not.
Reserve ==
    /\ worker = "idle" /\ callState = "unused"
    /\ callState' = "pending"
    /\ worker' \in {"running", "gone"}

\* The worker's one report.
Report ==
    /\ worker = "running"
    /\ worker' = "gone"
    /\ IF callState = "pending" THEN callState' \in {"charged", "failed"}
                                ELSE UNCHANGED callState

\* The worker never reports: it was refused, it died or its report was lost.
GiveUp ==
    /\ worker # "gone"
    /\ worker' = "gone"
    /\ UNCHANGED callState

\* Maintenance and revocations do not know the outcome: they charge.
ChargeUnknown ==
    /\ callState = "pending"
    /\ callState' = "charged"
    /\ UNCHANGED worker

Next == Reserve \/ Report \/ GiveUp \/ ChargeUnknown

Spec == Init /\ [][Next]_vars
===============================================================================
