------------------------------ MODULE GatewayCall ------------------------------
(***************************************************************************)
(* One metered HTTP call through the gateway: ServeHTTP from its Reserve    *)
(* on, proxyHTTP and proxySSE of internal/dataplane/gateway.go.             *)
(*                                                                         *)
(* The handler tries the routes of the model in their order, writes a row   *)
(* for every attempt, renews the call's lease when an upstream answers,     *)
(* reports the outcome to the ledger and answers the client.  All its       *)
(* statements run in the request's context: when the client leaves, every   *)
(* later one fails.  Meanwhile maintenance may recover the call, a mentor   *)
(* may revoke its key, and the server may die.                              *)
(*                                                                         *)
(* The ledger is reduced to the row of this call; CreditLedger has the      *)
(* buckets.  Bodies are kept whole or not, not their contents.              *)
(***************************************************************************)
EXTENDS Naturals

CONSTANTS
    LastRoute,  \* the number of routes routesForModel returned
    Faults      \* what a run lets go wrong: "client", "database", "crash", "revocation",
                \* and "slow": an upstream that takes a request, or an answer that is
                \* dropped, outlasts the lease

ASSUME GatewayAssumption == LastRoute \in Nat \ {0}

Routes == 1..LastRoute

VARIABLES
    step,       \* where the handler is
    route,      \* index of the candidate (0: none yet)
    answers,    \* what became of each candidate
    attempts,   \* gateway_call_attempts.status, by candidate ("none": no row)
    reply,      \* what the client has been sent
    client,     \* original.Context(): "connected" until the client leaves
    callState,  \* gateway_calls.billing_state
    outcome,    \* gateway_calls.outcome
    lease,      \* gateway_calls.lease_expires_at
    sent,       \* gateway_calls.sent_at is set
    listed      \* the call is on the list of a RecoverExpired in progress

rowVars     == <<callState, outcome, lease, sent>>
handlerVars == <<step, route, answers, attempts, reply>>
vars        == <<handlerVars, client, rowVars, listed>>

\* An upstream's response: 2xx, a status that is final, or 429 and 5xx; and whether it is
\* an event stream.
Response == [status : {"ok", "final", "retry"}, sse : BOOLEAN]
NoAnswer   == [status |-> "none", sse |-> FALSE]
Failure    == [status |-> "error", sse |-> FALSE]
Unwritable == [status |-> "unwritable", sse |-> FALSE]

\* A reply is the gateway's own error or the response of a route: its whole body, what
\* was buffered of a stream that never had a good event, or nothing because the body had
\* been closed.
NoReply == [kind |-> "none", route |-> 0, body |-> "none"]
Error   == [kind |-> "error", route |-> 0, body |-> "none"]
Relayed(r, body) == [kind |-> "upstream", route |-> r, body |-> body]

Answered == {r \in Routes : answers[r] \in Response}

-------------------------------------------------------------------------------
(* Statements in the request's context *)

\* A statement is done or not, and its caller is told so or told of an error.  The answer
\* to a commit may be lost.
Statement(done, told) ==
    /\ done => client = "connected"
    /\ told => done
    /\ ~told => client = "gone" \/ "database" \in Faults

\* One whose error is ignored.
Ignored(done) == Statement(done, done)

\* Mutant: the UPDATE has lost billing_state = 'pending'.
FinalizeAlways(success, done) ==
    IF done
    THEN /\ callState' = IF success THEN "charged" ELSE "failed"
         /\ outcome' = IF success THEN "succeeded" ELSE "upstream_failed"
         /\ lease' = "none"
         /\ UNCHANGED sent
    ELSE UNCHANGED rowVars

\* usage.Store.Finalize.
Finalize(success, done) ==
    IF done /\ callState = "pending"
    THEN /\ callState' = IF success THEN "charged" ELSE "failed"
         /\ outcome' = IF success THEN "succeeded" ELSE "upstream_failed"
         /\ lease' = "none"
         /\ UNCHANGED sent
    ELSE UNCHANGED rowVars

-------------------------------------------------------------------------------
Init ==
    /\ step = "reserve"
    /\ route = 0
    /\ answers = [r \in Routes |-> NoAnswer]
    /\ attempts = [r \in Routes |-> "none"]
    /\ reply = NoReply
    /\ client = "connected"
    /\ callState = "unused"
    /\ outcome = "pending"
    /\ lease = "none"
    /\ sent = FALSE
    /\ listed = FALSE

(* The handler *)

\* Refused, for a quota or for an error, or admitted.
Reserve(done, told) ==
    /\ step = "reserve"
    /\ done => Statement(done, told)
    /\ told => done
    /\ IF done
       THEN callState' = "pending" /\ lease' = "live"
       ELSE UNCHANGED <<callState, lease>>
    /\ IF told
       THEN step' = "start" /\ UNCHANGED reply
       ELSE step' = "done" /\ reply' = Error
    /\ UNCHANGED <<route, answers, attempts, client, outcome, sent, listed>>

\* Mutant: the loop runs once too often.
StartAttemptPastEnd(wrote) ==
    /\ step = "start" /\ route <= LastRoute
    /\ Ignored(wrote)
    /\ route' = route + 1
    /\ step' = "dial"
    /\ UNCHANGED <<answers, attempts, reply, client, rowVars, listed>>

StartAttempt(wrote) ==
    /\ step = "start" /\ route < LastRoute
    /\ Ignored(wrote)
    /\ route' = route + 1
    /\ attempts' = [attempts EXCEPT ![route + 1] = IF wrote THEN "connecting" ELSE "none"]
    /\ step' = "dial"
    /\ UNCHANGED <<answers, reply, client, rowVars, listed>>

FinishAttempt(wrote, state) ==
    /\ Ignored(wrote)
    /\ attempts' = [attempts EXCEPT ![route] =
                        IF wrote /\ @ = "connecting" THEN state ELSE @]

\* The request cannot be rewritten for the candidate, and is not sent: the next one.
RewriteFails(wrote) ==
    /\ step = "dial"
    /\ FinishAttempt(wrote, "failed")
    /\ answers' = [answers EXCEPT ![route] = Unwritable]
    /\ step' = "start"
    /\ UNCHANGED <<route, reply, client, rowVars, listed>>

\* The connection fails or times out, or the client is gone: the next candidate.
Unreachable(wrote) ==
    /\ step = "dial"
    /\ FinishAttempt(wrote, "failed")
    /\ answers' = [answers EXCEPT ![route] = Failure]
    /\ step' = "start"
    /\ UNCHANGED <<route, reply, client, rowVars, listed>>

\* 429 and 5xx, unless no candidate is left.
TriesNext(a) == a.status = "retry" /\ route < LastRoute

\* The response's header: MarkSent, FinishAttempt, and what is done with it.
Respond(a, marked, wrote) ==
    /\ step = "dial" /\ client = "connected"
    /\ Ignored(marked)
    /\ FinishAttempt(wrote, IF a.status = "ok" THEN "succeeded" ELSE "failed")
    /\ sent' = (sent \/ (marked /\ callState = "pending"))
    /\ lease' = IF marked /\ callState = "pending" THEN "live" ELSE lease
    /\ answers' = [answers EXCEPT ![route] = a]
    /\ step' = IF TriesNext(a) THEN "start" ELSE IF a.sse THEN "stream" ELSE "settle"
    /\ UNCHANGED <<route, reply, client, callState, outcome, listed>>

\* Mutant: the client is answered whatever became of the report.
SettleUnchecked(done, told) ==
    /\ step = "settle"
    /\ Statement(done, told)
    /\ Finalize(answers[route].status = "ok", done)
    /\ reply' = Relayed(route, "whole")
    /\ step' = "done"
    /\ UNCHANGED <<route, answers, attempts, client, listed>>

\* A response that is no stream: reported first, then copied to the client, unless it is one
\* of a created resource that cannot be read.
Settle(done, told) ==
    /\ step = "settle"
    /\ Statement(done, told)
    /\ Finalize(answers[route].status = "ok", done)
    /\ \/ told /\ reply' = Relayed(route, "whole")
       \/ (told => answers[route].status = "ok") /\ reply' = Error
    /\ step' = "done"
    /\ UNCHANGED <<route, answers, attempts, client, listed>>

\* The first data line without the word error, whatever the status was.
StreamConfirmed(done, told) ==
    /\ step = "stream"
    /\ Statement(done, told)
    /\ Finalize(TRUE, done)
    /\ reply' = IF told THEN Relayed(route, "whole") ELSE Error
    /\ step' = "done"
    /\ UNCHANGED <<route, answers, attempts, client, listed>>

\* That line is the stream's last, and comes with its end or its failure: all of it is sent,
\* and nobody reports the call.
StreamEndsOnEvent ==
    /\ step = "stream"
    /\ reply' = Relayed(route, "whole")
    /\ step' = "done"
    /\ UNCHANGED <<route, answers, attempts, client, rowVars, listed>>

\* Mutant: what was buffered is sent, and then the next candidate is tried.
StreamEndedRetries(done) ==
    /\ step = "stream"
    /\ Ignored(done)
    /\ reply' = Relayed(route, "unconfirmed")
    /\ step' = "start"
    /\ UNCHANGED <<route, answers, attempts, client, rowVars, listed>>

\* The stream ends, or breaks, before that.
StreamEnded(done) ==
    /\ step = "stream"
    /\ Ignored(done)
    /\ Finalize(FALSE, done)
    /\ reply' = Relayed(route, "unconfirmed")
    /\ step' = "done"
    /\ UNCHANGED <<route, answers, attempts, client, listed>>

\* Mutant: the first response is kept, not the last.
AllFailedFirst(done) ==
    /\ step = "start" /\ route = LastRoute
    /\ Ignored(done)
    /\ Finalize(FALSE, done)
    /\ IF Answered = {}
       THEN reply' = Error
       ELSE \E r \in Answered : /\ \A q \in Answered : q >= r
                                /\ reply' = Relayed(r, "closed")
    /\ step' = "done"
    /\ UNCHANGED <<route, answers, attempts, client, listed>>

\* The last candidate could not be asked: the last response there was, whose body was closed
\* when it was retried, or an error of the gateway's own.
AllFailed(done) ==
    /\ step = "start" /\ route = LastRoute
    /\ Ignored(done)
    /\ Finalize(FALSE, done)
    /\ IF Answered = {}
       THEN reply' = Error
       ELSE \E r \in Answered : /\ \A q \in Answered : q <= r
                                /\ reply' = Relayed(r, "closed")
    /\ step' = "done"
    /\ UNCHANGED <<route, answers, attempts, client, listed>>

-------------------------------------------------------------------------------
(* Everyone else *)

ClientLeaves ==
    /\ "client" \in Faults
    /\ client = "connected" /\ step # "done"
    /\ client' = "gone"
    /\ UNCHANGED <<handlerVars, rowVars, listed>>

Crash ==
    /\ "crash" \in Faults
    /\ step \notin {"done", "dead"}
    /\ step' = "dead"
    /\ UNCHANGED <<route, answers, attempts, reply, client, rowVars, listed>>

\* Half an hour: the lease and the grace of RecoverExpired.  A stream may well last that
\* long, connecting and answering may not (Config.ConnectTimeout, ResponseHeaderTimeout).
LeaseRunsOut ==
    /\ lease = "live"
    /\ step \in {"stream", "done", "dead"} \/ "slow" \in Faults
    /\ lease' = "expired"
    /\ UNCHANGED <<handlerVars, client, callState, outcome, sent, listed>>

RecoverScan ==
    /\ callState = "pending" /\ lease = "expired"
    /\ listed' = TRUE
    /\ UNCHANGED <<handlerVars, client, rowVars>>

ChargeUnknown ==
    /\ callState' = "charged"
    /\ outcome' = "outcome_unknown"
    /\ lease' = "none"
    /\ UNCHANGED sent

\* Finalize does nothing to a call that is no longer pending.
RecoverCall ==
    /\ listed
    /\ listed' = FALSE
    /\ IF callState = "pending" THEN ChargeUnknown ELSE UNCHANGED rowVars
    /\ UNCHANGED <<handlerVars, client>>

Revoke ==
    /\ "revocation" \in Faults
    /\ callState = "pending"
    /\ ChargeUnknown
    /\ UNCHANGED <<handlerVars, client, listed>>

Next ==
    \/ \E done, told \in BOOLEAN :
        Reserve(done, told) \/ Settle(done, told) \/ StreamConfirmed(done, told)
    \/ \E done \in BOOLEAN :
        \/ StartAttempt(done) \/ RewriteFails(done) \/ Unreachable(done)
        \/ StreamEnded(done) \/ AllFailed(done)
    \/ StreamEndsOnEvent
    \/ \E a \in Response, marked, wrote \in BOOLEAN : Respond(a, marked, wrote)
    \/ ClientLeaves \/ Crash \/ LeaseRunsOut \/ RecoverScan \/ RecoverCall \/ Revoke

Spec == Init /\ [][Next]_vars

-------------------------------------------------------------------------------
Replies == [kind : {"none", "error", "upstream"}, route : 0..LastRoute,
            body : {"none", "whole", "unconfirmed", "closed"}]

TypeOK ==
    /\ step \in {"reserve", "start", "dial", "settle", "stream", "done", "dead"}
    /\ route \in 0..LastRoute
    /\ answers \in [Routes -> Response \cup {NoAnswer, Failure, Unwritable}]
    /\ attempts \in [Routes -> {"none", "connecting", "succeeded", "failed"}]
    /\ reply \in Replies
    /\ client \in {"connected", "gone"}
    /\ callState \in {"unused", "pending", "charged", "failed"}
    /\ outcome \in {"pending", "succeeded", "upstream_failed", "outcome_unknown"}
    /\ lease \in {"none", "live", "expired"}
    /\ sent \in BOOLEAN
    /\ listed \in BOOLEAN

\* Nothing is given away: a client that was sent a successful response whole has been
\* charged for it, whatever maintenance and revocations did to the call meanwhile.  Only one
\* whose event stream ended with its first event may still be pending, and then has the
\* lease by which RecoverExpired finds and charges it; it is never released.
SuccessIsCharged ==
    (reply.kind = "upstream" /\ reply.body = "whole" /\ answers[reply.route].status = "ok")
        => \/ callState = "charged"
           \/ answers[reply.route].sse /\ callState = "pending" /\ lease # "none"

\* What the client is sent of an upstream is the only answer that was not to be retried or,
\* when each was, the last there was.  Its body is gone exactly if a later candidate was
\* tried in vain; and what is not sent whole is nowhere recorded as a success, though a
\* recovery or a revocation may have charged it.
LastAnswerIsRelayed ==
    reply.kind = "upstream" =>
        /\ reply.route \in Answered
        /\ \A r \in Answered \ {reply.route} : r < reply.route /\ answers[r].status = "retry"
        /\ reply.body = "closed" <=> reply.route < route
        /\ reply.body # "whole" => outcome # "succeeded"

\* API_DOCUMENTATION.md, section 8.3: no candidate is tried once the client has been sent
\* anything, and the client is sent one response only.
NoSwitchAfterReply ==
    [][reply # NoReply => UNCHANGED <<reply, route, answers>>]_vars

\* The worker's side of CallContract.
Contract == INSTANCE CallContract WITH
    worker <- IF step = "reserve" THEN "idle"
              ELSE IF step \in {"done", "dead"} THEN "gone" ELSE "running"

KeepsContract == Contract!Spec

===============================================================================
