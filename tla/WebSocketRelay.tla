---------------------------- MODULE WebSocketRelay ----------------------------
(***************************************************************************)
(* One WebSocket through the gateway: serveResponsesWebSocket and           *)
(* serveRealtimeWebSocket of internal/dataplane/gateway.go with the two     *)
(* goroutines of their relays.                                              *)
(*                                                                         *)
(* Every response.create the client sends is a metered call: it is          *)
(* reserved, written to the upstream and reported.  On the Responses        *)
(* endpoint the first one is handled before the relay starts.  From then    *)
(* on the sender goroutine carries the client's frames, the receiver        *)
(* goroutine the upstream's, and both write to the client: the receiver its *)
(* frames, the sender the error events of refused calls.  The handler waits *)
(* for the first of them to fail and closes both connections.               *)
(*                                                                         *)
(* Either peer may leave, a statement may fail, the key may be revoked, and *)
(* maintenance charges what nobody reported.                                *)
(***************************************************************************)
EXTENDS Integers

CONSTANTS
    MaxCalls,   \* bound: response.create messages of the connection
    Endpoints,  \* of {"responses", "realtime"}
    Faults      \* what a run lets go wrong: "client", "upstream", "database",
                \* "revocation", "crash", and "slow": a write outlasts the call's lease

ASSUME RelayAssumption == MaxCalls \in Nat \ {0}

Calls == 1..MaxCalls

VARIABLES
    endpoint,   \* the path that was asked for
    handler,    \* "first": no message yet, "dial", "setup": its first create, "relay",
                \* "ended"; "dead" with the process
    sender,     \* client to upstream: "off", "read", "exit": its error is not on errs yet,
                \* "done", "dead"
    receiver,   \* upstream to client: "write" while a frame is being written
    create,     \* what is being done about the newest response.create
    call,       \* how many there were
    client,     \* "open", "gone": the peer left, "closed": by the gateway
    upstream,   \* likewise, and "none" before it has been dialled
    errs,       \* errors on the channel
    callState,  \* gateway_calls.billing_state
    active,     \* the key is active
    served      \* creates the upstream was given

ends  == <<client, upstream>>
tasks == <<handler, sender, receiver>>
vars  == <<endpoint, tasks, create, call, ends, errs, callState, active, served>>

Init ==
    /\ endpoint \in Endpoints
    /\ handler = IF endpoint = "responses" THEN "first" ELSE "dial"
    /\ sender = "off" /\ receiver = "off"
    /\ create = "none"
    /\ call = 0
    /\ client = "open" /\ upstream = "none"
    /\ errs = 0
    /\ callState = [c \in Calls |-> "unused"]
    /\ active = TRUE
    /\ served = {}

-------------------------------------------------------------------------------
(* Setup *)

\* The handler returns: its deferred calls close both connections.
Return ==
    /\ handler' = "ended"
    /\ client' = "closed" /\ upstream' = "closed"

\* The first message names a model the key may use, and can be rewritten.
ReadFirst ==
    /\ handler = "first" /\ client = "open"
    /\ handler' = "dial"
    /\ UNCHANGED <<endpoint, sender, receiver, create, call, ends, errs, callState, active, served>>

\* Anything else, or no candidate can be dialled, or the upgrade fails.
SetupFails ==
    /\ handler \in {"first", "dial"}
    /\ Return
    /\ UNCHANGED <<endpoint, sender, receiver, create, call, errs, callState, active, served>>

StartRelay ==
    /\ handler' = "relay"
    /\ sender' = "read" /\ receiver' = "read"

\* A candidate answers.  Realtime has nothing to send yet.
Dial ==
    /\ handler = "dial"
    /\ upstream' = "open"
    /\ IF endpoint = "responses"
       THEN /\ handler' = "setup" /\ create' = "reserve"
            /\ UNCHANGED <<sender, receiver>>
       ELSE StartRelay /\ UNCHANGED create
    /\ UNCHANGED <<endpoint, call, client, errs, callState, active, served>>

-------------------------------------------------------------------------------
(* One response.create: in the handler during setup, in the sender afterwards *)

\* A statement is done or not, and its caller is told so or told of an error.
Statement(done, told) ==
    /\ told => done
    /\ ~told => "database" \in Faults

\* The create is dealt with: the relay starts, or the sender reads on.
Proceed ==
    /\ create' = "none"
    /\ IF handler = "setup" THEN StartRelay ELSE UNCHANGED tasks
    /\ UNCHANGED ends

\* It cannot be: the handler returns, or the sender ends.
Abandon ==
    /\ create' = "none"
    /\ IF handler = "setup"
       THEN Return /\ UNCHANGED <<sender, receiver>>
       ELSE sender' = "exit" /\ UNCHANGED <<handler, receiver, ends>>

\* The row is there or not; a call that was admitted without the caller being told is
\* refused like one without credit.
Reserve(done, told) ==
    /\ create = "reserve"
    /\ told => done
    /\ done => active /\ Statement(done, told)
    /\ call' = call + 1
    /\ callState' = [callState EXCEPT ![call + 1] = IF done THEN "pending" ELSE @]
    /\ create' = IF ~told THEN "refuse" ELSE IF handler = "setup" THEN "send" ELSE "rewrite"
    /\ UNCHANGED <<endpoint, tasks, ends, errs, active, served>>

\* The error event has been written, or could not be.
Refuse ==
    /\ create = "refuse"
    /\ IF handler = "setup" THEN Abandon ELSE Proceed
    /\ UNCHANGED <<endpoint, call, errs, callState, active, served>>

\* Only Responses rewrites the model.  The envelope is decoded by encoding/json, which takes
\* "Type" for "type"; the rewriting looks "type" up as it is: it can fail.
Rewrite(ok) ==
    /\ create = "rewrite"
    /\ ~ok => endpoint = "responses"
    /\ IF ok THEN create' = "send" /\ UNCHANGED <<tasks, ends>> ELSE Abandon
    /\ UNCHANGED <<endpoint, call, errs, callState, active, served>>

\* WriteMessage.  To a peer that has just left it may still succeed.
Send(ok) ==
    /\ create = "send"
    /\ IF ok THEN upstream # "closed" ELSE upstream # "open"
    /\ create' = IF ok THEN "mark" ELSE "release"
    /\ served' = IF ok /\ upstream = "open" THEN served \cup {call} ELSE served
    /\ UNCHANGED <<endpoint, tasks, call, ends, errs, callState, active>>

\* Mutant: a failed MarkSent is taken for a call that failed.
MarkSentChecked ==
    /\ create = "mark"
    /\ create' \in {"settle", "release"}
    /\ UNCHANGED <<endpoint, tasks, call, ends, errs, callState, active, served>>

\* MarkSent, whose error is ignored, as are those of the two reports.
MarkSent ==
    /\ create = "mark"
    /\ create' = "settle"
    /\ UNCHANGED <<endpoint, tasks, call, ends, errs, callState, active, served>>

\* Mutant: the UPDATE has lost billing_state = 'pending'.
FinalizeAlways(state, done) ==
    callState' = IF done THEN [callState EXCEPT ![call] = state] ELSE callState

\* usage.Store.Finalize: nothing happens to a call that is no longer pending.
Finalize(state, done) ==
    callState' = IF done /\ callState[call] = "pending"
                 THEN [callState EXCEPT ![call] = state] ELSE callState

Settle(done, told) ==
    /\ create = "settle"
    /\ Statement(done, told)
    /\ Finalize("charged", done)
    /\ Proceed
    /\ UNCHANGED <<endpoint, call, errs, active, served>>

\* Outcome unknown, and given back: the frame was not written.
Release(done, told) ==
    /\ create = "release"
    /\ Statement(done, told)
    /\ Finalize("failed", done)
    /\ Abandon
    /\ UNCHANGED <<endpoint, call, errs, active, served>>

-------------------------------------------------------------------------------
(* The relay *)

ReadCreate ==
    /\ sender = "read" /\ create = "none" /\ client = "open"
    /\ call < MaxCalls
    /\ create' = "reserve"
    /\ UNCHANGED <<endpoint, tasks, call, ends, errs, callState, active, served>>

\* The client is gone or closed, or another frame of its cannot be passed on.
SenderFails ==
    /\ sender = "read" /\ create = "none"
    /\ client # "open" \/ upstream # "open"
    /\ sender' = "exit"
    /\ UNCHANGED <<endpoint, handler, receiver, create, call, ends, errs, callState, active, served>>

ReceiveFrame ==
    /\ receiver = "read" /\ upstream = "open"
    /\ receiver' = "write"
    /\ UNCHANGED <<endpoint, handler, sender, create, call, ends, errs, callState, active, served>>

FrameWritten(ok) ==
    /\ receiver = "write"
    /\ IF ok THEN client # "closed" ELSE client # "open"
    /\ receiver' = IF ok THEN "read" ELSE "exit"
    /\ UNCHANGED <<endpoint, handler, sender, create, call, ends, errs, callState, active, served>>

ReceiverFails ==
    /\ receiver = "read" /\ upstream # "open"
    /\ receiver' = "exit"
    /\ UNCHANGED <<endpoint, handler, sender, create, call, ends, errs, callState, active, served>>

\* The channel has room for both errors.
Capacity == 2

\* Mutant: make(chan error): a send waits for the handler to receive.
HasRoomUnbuffered == handler = "relay" /\ errs = 0

HasRoom == errs < Capacity

SenderEnds ==
    /\ sender = "exit" /\ HasRoom
    /\ errs' = errs + 1
    /\ sender' = "done"
    /\ UNCHANGED <<endpoint, handler, receiver, create, call, ends, callState, active, served>>

ReceiverEnds ==
    /\ receiver = "exit" /\ HasRoom
    /\ errs' = errs + 1
    /\ receiver' = "done"
    /\ UNCHANGED <<endpoint, handler, sender, create, call, ends, callState, active, served>>

\* Mutant: the handler does not wait.
RelayEndsAtOnce ==
    /\ handler = "relay"
    /\ errs' = errs - 1
    /\ Return
    /\ UNCHANGED <<endpoint, sender, receiver, create, call, callState, active, served>>

\* <-errs
RelayEnds ==
    /\ handler = "relay" /\ errs > 0
    /\ errs' = errs - 1
    /\ Return
    /\ UNCHANGED <<endpoint, sender, receiver, create, call, callState, active, served>>

\* The process is gone, and with it its connections.
Die ==
    /\ handler' = "dead" /\ sender' = "dead" /\ receiver' = "dead"
    /\ create' = "none"
    /\ client' = "closed" /\ upstream' = "closed"
    /\ UNCHANGED <<endpoint, call, errs, callState, active, served>>

\* Both goroutines are inside a write to the client.
TwoWriters == sender = "read" /\ create = "refuse" /\ receiver = "write"

\* gorilla/websocket allows one writer at a time.  Two that overlap may be lucky, may garble
\* a frame, at which the client leaves, or meet its "concurrent write" panic, which nothing
\* recovers in a goroutine.
Panic == TwoWriters /\ Die

-------------------------------------------------------------------------------
(* Everyone else *)

Crash ==
    /\ "crash" \in Faults
    /\ handler # "dead"
    /\ Die

ClientLeaves ==
    /\ "client" \in Faults
    /\ client = "open"
    /\ client' = "gone"
    /\ UNCHANGED <<endpoint, tasks, create, call, upstream, errs, callState, active, served>>

UpstreamLeaves ==
    /\ "upstream" \in Faults
    /\ upstream = "open"
    /\ upstream' = "gone"
    /\ UNCHANGED <<endpoint, tasks, create, call, client, errs, callState, active, served>>

\* The call is in the hands of the handler or of the sender.
InHand(c) == c = call /\ create \in {"rewrite", "send", "mark", "settle", "release"}

\* RecoverExpired: the lease of a call nobody is about to report has run out.
Recover(c) ==
    /\ callState[c] = "pending"
    /\ ~InHand(c) \/ "slow" \in Faults
    /\ callState' = [callState EXCEPT ![c] = "charged"]
    /\ UNCHANGED <<endpoint, tasks, create, call, ends, errs, active, served>>

\* RevokeKey charges what is in flight.
Revoke ==
    /\ "revocation" \in Faults
    /\ active
    /\ active' = FALSE
    /\ callState' = [c \in Calls |-> IF callState[c] = "pending" THEN "charged" ELSE callState[c]]
    /\ UNCHANGED <<endpoint, tasks, create, call, ends, errs, served>>

-------------------------------------------------------------------------------
\* What the gateway's own goroutines do next, and what a waiting one waits for.
Handling ==
    \/ ReadFirst \/ SetupFails \/ Dial \/ RelayEnds

Sending ==
    \/ Refuse \/ MarkSent \/ ReadCreate \/ SenderFails \/ SenderEnds
    \/ \E done, told \in BOOLEAN :
        Reserve(done, told) \/ Settle(done, told) \/ Release(done, told)
    \/ \E ok \in BOOLEAN : Rewrite(ok) \/ Send(ok)

Receiving ==
    \/ ReceiveFrame \/ ReceiverFails \/ ReceiverEnds
    \/ \E ok \in BOOLEAN : FrameWritten(ok)

Next ==
    \/ Handling \/ Sending \/ Receiving
    \/ Panic \/ Crash \/ ClientLeaves \/ UpstreamLeaves \/ Revoke
    \/ \E c \in Calls : Recover(c)

Spec == Init /\ [][Next]_vars

\* Goroutines are scheduled and statements, dials and writes come to an end: a peer that is
\* there takes what it is sent (no write has a deadline).  It need not send anything itself.
Fairness ==
    /\ WF_vars((handler = "first" => client # "open") /\ Handling)
    /\ WF_vars(Sending /\ ~ReadCreate)
    /\ WF_vars(Receiving /\ ~ReceiveFrame)

FairSpec == Spec /\ Fairness

-------------------------------------------------------------------------------
TypeOK ==
    /\ endpoint \in Endpoints
    /\ handler \in {"first", "dial", "setup", "relay", "ended", "dead"}
    /\ sender \in {"off", "read", "exit", "done", "dead"}
    /\ receiver \in {"off", "read", "write", "exit", "done", "dead"}
    /\ create \in {"none", "reserve", "refuse", "rewrite", "send", "mark", "settle", "release"}
    /\ call \in 0..MaxCalls
    /\ client \in {"open", "gone", "closed"}
    /\ upstream \in {"none", "open", "gone", "closed"}
    /\ errs \in 0..2
    /\ callState \in [Calls -> {"unused", "pending", "charged", "failed"}]
    /\ active \in BOOLEAN
    /\ served \subseteq Calls

\* API_DOCUMENTATION.md, section 8.3: every response.create is metered on its own.  One the
\* upstream was given has a call of its own that is charged, or still will be: neither a
\* failed statement nor a revocation, a recovery or the end of the connection gives it back.
ServedIsBilled == \A c \in served : callState[c] \in {"pending", "charged"}

Worker(c) == IF c > call THEN "idle" ELSE IF InHand(c) THEN "running" ELSE "gone"

Contract(c) == INSTANCE CallContract WITH worker <- Worker(c), callState <- callState[c]

\* The worker's side of CallContract for every create: the goroutine that reserved it
\* reports it at most once, and does not touch it again when it goes on to the next one.
CreatesKeepContract ==
    /\ \A c \in Calls : Contract(c)!Init
    /\ [][\A c \in Calls : [Contract(c)!Next]_<<Worker(c), callState[c]>>]_vars

\* When either peer leaves, the other is disconnected and nothing of the relay stays behind:
\* both goroutines find room for their error and end.
RelayIsTornDown ==
    (client # "open" \/ upstream \in {"gone", "closed"})
        ~> /\ handler \in {"ended", "dead"}
           /\ sender \in {"off", "done", "dead"} /\ receiver \in {"off", "done", "dead"}

\* API_DOCUMENTATION.md, section 8.3: when the credit is used up the client is sent an error
\* event and the connection is kept.
QuotaErrorKeepsConnection ==
    [][(create = "refuse" /\ client = "open" /\ upstream = "open" /\ errs = 0)
            => client' # "closed"]_vars
===============================================================================
