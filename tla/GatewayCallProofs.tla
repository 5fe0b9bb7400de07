-------------------------- MODULE GatewayCallProofs ---------------------------
(***************************************************************************)
(* GatewayCall for any number of routes and any faults: its types, what its *)
(* client is sent, which response that is, and CallContract.                *)
(*                                                                         *)
(* The strengthening says what the handler knows at each of its steps: the *)
(* call cannot have been released while it is served, nothing has been sent *)
(* before the end, the candidates behind the current one were all left for *)
(* the next, and those ahead of it have not been asked.                     *)
(***************************************************************************)
EXTENDS GatewayCall, TLAPS

Serving == {"start", "dial", "settle", "stream"}

\* The call of a running handler has not been released; only the end has a reply.
HandlerKnows ==
    /\ step = "reserve" => callState = "unused" /\ route = 0 /\ outcome # "succeeded"
    /\ step \in Serving => callState \in {"pending", "charged"} /\ outcome # "succeeded"
    /\ callState = "pending" => lease # "none"
    /\ reply # NoReply => step = "done"

\* What a candidate answered for the handler to turn to the next.
Passed(a) == a.status \in {"error", "retry", "unwritable"}

\* Where the candidates stand.
CandidatesKnown ==
    /\ step \in {"dial", "settle", "stream"} => route \in Routes
    /\ \A r \in Routes : r < route => Passed(answers[r])
    /\ \A r \in Routes : route < r => answers[r] = NoAnswer
    /\ step \in {"settle", "stream"} => answers[route] \in Response
    /\ step = "stream" => answers[route].sse
    /\ (step = "start" /\ route # 0) =>
            Passed(answers[route]) /\ (answers[route].status = "retry" => route < LastRoute)

CallInv ==
    TypeOK /\ HandlerKnows /\ CandidatesKnown /\ SuccessIsCharged /\ LastAnswerIsRelayed

-------------------------------------------------------------------------------
USE GatewayAssumption

\* A request that has not reached its reservation satisfies the invariant.
THEOREM InitHolds == Init => CallInv
<1> SUFFICES ASSUME Init PROVE CallInv
    OBVIOUS
<1>1. TypeOK
  <2>1. NoReply \in Replies
      BY DEF NoReply, Replies
  <2>2. route \in 0..LastRoute
      BY DEF Init
  <2>3. /\ answers \in [Routes -> Response \cup {NoAnswer, Failure, Unwritable}]
        /\ attempts \in [Routes -> {"none", "connecting", "succeeded", "failed"}]
      BY DEF Init
  <2> QED
      BY <2>1, <2>2, <2>3 DEF Init, TypeOK
<1>2. HandlerKnows /\ CandidatesKnown
    BY DEF Init, HandlerKnows, CandidatesKnown, Serving, Routes
<1>3. SuccessIsCharged /\ LastAnswerIsRelayed
    BY DEF Init, SuccessIsCharged, LastAnswerIsRelayed, NoReply
<1> QED
    BY <1>1, <1>2, <1>3 DEF CallInv

\* Finalize leaves a pending call charged, or released for a failure, and any other as it is.
LEMMA FinalizeOutcome ==
    ASSUME TypeOK, NEW success \in BOOLEAN, NEW done \in BOOLEAN, Finalize(success, done)
    PROVE  /\ callState' \in {"unused", "pending", "charged", "failed"}
           /\ outcome' \in {"pending", "succeeded", "upstream_failed", "outcome_unknown"}
           /\ lease' \in {"none", "live", "expired"}
           /\ sent' \in BOOLEAN
           /\ callState # "pending" \/ ~done =>
                  callState' = callState /\ outcome' = outcome /\ lease' = lease
           /\ callState = "pending" /\ done =>
                  /\ callState' = IF success THEN "charged" ELSE "failed"
                  /\ outcome' = IF success THEN "succeeded" ELSE "upstream_failed"
    BY DEF Finalize, TypeOK, rowVars

\* Refused or told to go on, a reservation leaves the call unused, pending or lost.
LEMMA ReserveKeeps ==
    ASSUME CallInv, NEW done \in BOOLEAN, NEW told \in BOOLEAN, Reserve(done, told)
    PROVE  CallInv'
<1>1. TypeOK'
    BY DEF CallInv, Reserve, TypeOK, Error, Replies, Routes
<1>2. HandlerKnows'
    BY DEF CallInv, Reserve, HandlerKnows, Serving, Error, NoReply, TypeOK
<1>3. CandidatesKnown'
    BY DEF CallInv, Reserve, HandlerKnows, CandidatesKnown
<1>4. SuccessIsCharged' /\ LastAnswerIsRelayed'
    BY DEF CallInv, Reserve, HandlerKnows, SuccessIsCharged, LastAnswerIsRelayed, Error, NoReply
<1> QED
    BY <1>1, <1>2, <1>3, <1>4 DEF CallInv

\* Nothing is said of a reply by a handler that has not sent one.
LEMMA SilentSoFar ==
    ASSUME reply' = NoReply
    PROVE  SuccessIsCharged' /\ LastAnswerIsRelayed'
    BY DEF SuccessIsCharged, LastAnswerIsRelayed, NoReply

\* The candidate left behind is one the handler returned to "start" from.
LEMMA StartAttemptKeeps ==
    ASSUME CallInv, NEW wrote \in BOOLEAN, StartAttempt(wrote)
    PROVE  CallInv'
<1>1. TypeOK'
    BY DEF CallInv, StartAttempt, TypeOK, Routes, rowVars
<1>2. HandlerKnows'
    BY DEF CallInv, StartAttempt, HandlerKnows, Serving, rowVars
<1>3. CandidatesKnown'
  <2>1. /\ route' = route + 1 /\ step' = "dial" /\ answers' = answers
        /\ route \in 0..LastRoute /\ route < LastRoute
      BY DEF CallInv, StartAttempt, TypeOK
  <2>2. ASSUME NEW r \in Routes, r < route'
        PROVE  Passed(answers'[r])
    <3>1. CASE r < route
        BY <2>1, <3>1 DEF CallInv, CandidatesKnown
    <3>2. CASE r = route
        BY <2>1, <3>2 DEF CallInv, CandidatesKnown, StartAttempt, Routes
    <3> QED
        BY <2>1, <2>2, <3>1, <3>2 DEF Routes
  <2>3. ASSUME NEW r \in Routes, route' < r
        PROVE  answers'[r] = NoAnswer
      BY <2>1, <2>3 DEF CallInv, CandidatesKnown, Routes
  <2> QED
      BY <2>1, <2>2, <2>3 DEF CandidatesKnown, Routes
<1>4. SuccessIsCharged' /\ LastAnswerIsRelayed'
    BY SilentSoFar DEF CallInv, StartAttempt, HandlerKnows
<1> QED
    BY <1>1, <1>2, <1>3, <1>4 DEF CallInv

\* What a handler at "dial" records of its candidate keeps the invariant, whatever the
\* candidate answered, provided that it only returns to "start" to try the next.
LEMMA DialedKeeps ==
    ASSUME CallInv, step = "dial",
           NEW a \in Response \cup {Failure, Unwritable}, NEW wrote \in BOOLEAN,
           NEW state \in {"succeeded", "failed"},
           FinishAttempt(wrote, state), answers' = [answers EXCEPT ![route] = a],
           step' \in Serving \ {"dial"},
           step' = "start" => Passed(a) /\ (a.status = "retry" => route < LastRoute),
           step' # "start" => a \in Response,
           step' = "stream" => a.sse,
           lease' \in {"none", "live", "expired"}, sent' \in BOOLEAN,
           lease' = "none" => lease = "none",
           UNCHANGED <<route, reply, client, callState, outcome, listed>>
    PROVE  CallInv'
<1>1. route \in Routes /\ reply = NoReply
    BY DEF CallInv, HandlerKnows, CandidatesKnown
<1>2. TypeOK'
    BY <1>1 DEF CallInv, TypeOK, FinishAttempt, Serving
<1>3. answers'[route] = a /\ \A r \in Routes : r # route => answers'[r] = answers[r]
    BY <1>1 DEF CallInv, TypeOK
<1>4. HandlerKnows'
    BY <1>1 DEF CallInv, HandlerKnows, Serving
<1>5. CandidatesKnown'
    BY <1>1, <1>3 DEF CallInv, CandidatesKnown, Serving, Routes
<1>6. SuccessIsCharged' /\ LastAnswerIsRelayed'
    BY <1>1, SilentSoFar
<1> QED
    BY <1>2, <1>4, <1>5, <1>6 DEF CallInv

\* A candidate that was not reached, or for which the request could not be rewritten, may be
\* left behind.
LEMMA UnreachableKeeps ==
    ASSUME CallInv, NEW wrote \in BOOLEAN, Unreachable(wrote) \/ RewriteFails(wrote)
    PROVE  CallInv'
<1>1. /\ Passed(Failure) /\ Failure.status # "retry"
      /\ Passed(Unwritable) /\ Unwritable.status # "retry"
    BY DEF Failure, Unwritable, Passed
<1>2. lease' = lease /\ lease' \in {"none", "live", "expired"} /\ sent' \in BOOLEAN
    BY DEF CallInv, TypeOK, Unreachable, RewriteFails, rowVars
<1>3. CASE Unreachable(wrote)
    BY <1>1, <1>2, <1>3, DialedKeeps DEF Unreachable, rowVars, Serving
<1>4. CASE RewriteFails(wrote)
    BY <1>1, <1>2, <1>4, DialedKeeps DEF RewriteFails, rowVars, Serving
<1> QED
    BY <1>3, <1>4

\* TriesNext is what makes a response one that may be left behind.
LEMMA RespondKeeps ==
    ASSUME CallInv, NEW a \in Response, NEW marked \in BOOLEAN, NEW wrote \in BOOLEAN,
           Respond(a, marked, wrote)
    PROVE  CallInv'
<1>1. /\ lease' \in {"none", "live", "expired"} /\ sent' \in BOOLEAN
      /\ lease' = "none" => lease = "none"
    BY DEF CallInv, TypeOK, Respond
<1>2. /\ step' \in Serving \ {"dial"}
      /\ step' = "start" => Passed(a) /\ (a.status = "retry" => route < LastRoute)
      /\ step' = "stream" => a.sse
    BY DEF Respond, TriesNext, Serving, Passed
<1>3. PICK state \in {"succeeded", "failed"} : FinishAttempt(wrote, state)
    BY DEF Respond
<1> QED
    BY <1>1, <1>2, <1>3, DialedKeeps DEF Respond

\* The reply is an error, or one of the answers that LastAnswerIsRelayed allows.
Rightful(answer) ==
    answer.kind = "upstream" =>
        /\ answer.route \in Answered
        /\ \A r \in Answered \ {answer.route} : r < answer.route /\ answers[r].status = "retry"
        /\ answer.body = "closed" <=> answer.route < route

\* A handler that is done has reported the call and sent one reply.
LEMMA ReportKeeps ==
    ASSUME CallInv, step \in Serving, NEW success \in BOOLEAN, NEW done \in BOOLEAN,
           Finalize(success, done), reply' \in Replies, step' = "done",
           reply'.body = "whole" /\ answers[reply'.route].status = "ok" => done /\ success,
           Rightful(reply'),
           reply'.kind = "upstream" /\ reply'.body # "whole" => ~success,
           UNCHANGED <<route, answers, attempts, client, listed>>
    PROVE  CallInv'
<1>1. TypeOK'
    BY FinalizeOutcome DEF CallInv, TypeOK
<1>2. HandlerKnows'
    BY FinalizeOutcome DEF CallInv, HandlerKnows, Serving
<1>3. CandidatesKnown'
    BY DEF CallInv, CandidatesKnown
<1>4. SuccessIsCharged'
  <2>1. reply'.body = "whole" /\ answers[reply'.route].status = "ok" => callState' = "charged"
      BY FinalizeOutcome DEF CallInv, HandlerKnows
  <2> QED
      BY <2>1 DEF SuccessIsCharged
<1>5. LastAnswerIsRelayed'
  <2>1. ~success => outcome' # "succeeded"
      BY FinalizeOutcome DEF CallInv, HandlerKnows
  <2>2. Answered' = Answered
      BY DEF Answered
  <2> QED
      BY <2>1, <2>2 DEF LastAnswerIsRelayed, Rightful
<1> QED
    BY <1>1, <1>2, <1>3, <1>4, <1>5 DEF CallInv

\* A relayed response is a reply, of the route and the body it names.
LEMMA ReplyTypes ==
    ASSUME NEW r \in Routes, NEW body \in {"whole", "unconfirmed", "closed"}
    PROVE  /\ Relayed(r, body) \in Replies
           /\ Relayed(r, body).route = r /\ Relayed(r, body).body = body
    BY DEF Relayed, Replies, Routes

\* The gateway's own error is a reply without a body of an upstream's.
LEMMA ErrorType == Error \in Replies /\ Error.body = "none"
    BY DEF Error, Replies

\* Every other response there was when the handler keeps one came earlier and was retried.
LEMMA OthersWereRetried ==
    ASSUME CallInv, NEW r \in Answered
    PROVE  /\ r \in Routes /\ route \in Nat /\ r <= route
           /\ r < route => answers[r].status = "retry"
           /\ step = "start" /\ r = route => answers[r].status = "retry" /\ route < LastRoute
<1>1. r \in Routes /\ answers[r] \in Response /\ route \in 0..LastRoute
    BY DEF Answered, CallInv, TypeOK
<1>2. answers[r].status \in {"ok", "final", "retry"} /\ answers[r] # NoAnswer
    BY <1>1 DEF Response, NoAnswer
<1> QED
    BY <1>1, <1>2 DEF CallInv, CandidatesKnown, Passed, Routes

\* The response a handler keeps may be relayed.
LEMMA KeptIsRightful ==
    ASSUME CallInv, step \in {"settle", "stream"}, NEW body \in {"whole", "unconfirmed"}
    PROVE  Rightful(Relayed(route, body)) /\ route \in Answered
<1>1. route \in Answered /\ route \in Nat
    BY DEF CallInv, CandidatesKnown, Answered, Routes
<1>2. \A r \in Answered \ {route} : r < route /\ answers[r].status = "retry"
    BY <1>1, OthersWereRetried DEF Routes
<1>3. Relayed(route, body).route = route /\ Relayed(route, body).body # "closed"
    BY DEF Relayed
<1> QED
    BY <1>1, <1>2, <1>3 DEF Rightful

\* The gateway's own error may be sent at any time.
LEMMA ErrorIsRightful == Rightful(Error) /\ Error.kind # "upstream"
    BY DEF Rightful, Error

\* A whole response is only sent when its Finalize was reported done.
LEMMA SettleKeeps ==
    ASSUME CallInv, NEW done \in BOOLEAN, NEW told \in BOOLEAN, Settle(done, told)
    PROVE  CallInv'
<1> DEFINE success == answers[route].status = "ok"
<1>1. route \in Routes /\ success \in BOOLEAN /\ Finalize(success, done) /\ (told => done)
    BY DEF CallInv, CandidatesKnown, Settle, Statement
<1>2. reply' \in Replies
    BY <1>1, ReplyTypes, ErrorType DEF Settle
<1>3. reply'.body = "whole" /\ answers[reply'.route].status = "ok" => done /\ success
    BY <1>1, ReplyTypes, ErrorType DEF Settle
<1>4. /\ Rightful(reply')
      /\ reply'.kind = "upstream" => reply'.body = "whole"
    BY <1>1, KeptIsRightful, ErrorIsRightful, ReplyTypes DEF Settle
<1> HIDE DEF success
<1> QED
    BY <1>1, <1>2, <1>3, <1>4, ReportKeeps DEF Settle, Serving

\* The same of a stream.
LEMMA StreamConfirmedKeeps ==
    ASSUME CallInv, NEW done \in BOOLEAN, NEW told \in BOOLEAN, StreamConfirmed(done, told)
    PROVE  CallInv'
<1>1. route \in Routes /\ Finalize(TRUE, done) /\ (told => done)
    BY DEF CallInv, CandidatesKnown, StreamConfirmed, Statement
<1>2. reply' \in Replies /\ (reply'.body = "whole" => done)
    BY <1>1, ReplyTypes, ErrorType DEF StreamConfirmed
<1>3. Rightful(reply') /\ (reply'.kind = "upstream" => reply'.body = "whole")
    BY <1>1, KeptIsRightful, ErrorIsRightful, ReplyTypes DEF StreamConfirmed
<1> QED
    BY <1>1, <1>2, <1>3, ReportKeeps DEF StreamConfirmed, Serving

\* A stream that ends on its first event leaves its call as it found it: charged, or pending
\* with a lease.
LEMMA StreamEndsOnEventKeeps ==
    ASSUME CallInv, StreamEndsOnEvent
    PROVE  CallInv'
<1>1. /\ route \in Routes /\ reply' = Relayed(route, "whole")
      /\ callState \in {"pending", "charged"} /\ answers[route].sse
      /\ callState = "pending" => lease # "none"
    BY DEF CallInv, HandlerKnows, CandidatesKnown, StreamEndsOnEvent, Serving
<1>2. /\ reply' \in Replies /\ reply'.route = route /\ reply'.body = "whole"
      /\ Rightful(reply')
    BY <1>1, ReplyTypes, KeptIsRightful DEF StreamEndsOnEvent
<1>3. TypeOK'
    BY <1>2 DEF CallInv, TypeOK, StreamEndsOnEvent, rowVars
<1>4. HandlerKnows' /\ CandidatesKnown'
    BY DEF CallInv, HandlerKnows, CandidatesKnown, StreamEndsOnEvent, Serving, rowVars
<1>5. SuccessIsCharged'
    BY <1>1, <1>2 DEF SuccessIsCharged, StreamEndsOnEvent, rowVars
<1>6. LastAnswerIsRelayed'
  <2>1. Answered' = Answered /\ route' = route /\ answers' = answers
      BY DEF Answered, StreamEndsOnEvent
  <2>2. reply'.kind = "upstream" => reply'.body = "whole"
      BY <1>2
  <2> QED
      BY <1>2, <2>1, <2>2 DEF LastAnswerIsRelayed, Rightful
<1> QED
    BY <1>3, <1>4, <1>5, <1>6 DEF CallInv

\* A stream without a good event is released, and sent as what it was.
LEMMA StreamEndedKeeps ==
    ASSUME CallInv, NEW done \in BOOLEAN, StreamEnded(done)
    PROVE  CallInv'
<1>1. route \in Routes
    BY DEF CallInv, CandidatesKnown, StreamEnded
<1>2. reply' \in Replies /\ reply'.body # "whole"
    BY <1>1, ReplyTypes DEF StreamEnded
<1>3. Rightful(reply')
    BY KeptIsRightful DEF StreamEnded
<1> QED
    BY <1>2, <1>3, ReportKeeps DEF StreamEnded, Serving

\* When every candidate has failed nothing whole is sent, and what is sent is the last
\* response there was, which was one to be retried.
LEMMA AllFailedKeeps ==
    ASSUME CallInv, NEW done \in BOOLEAN, AllFailed(done)
    PROVE  CallInv'
<1>1. reply' \in Replies /\ reply'.body # "whole"
    BY ReplyTypes, ErrorType DEF AllFailed, Answered
<1>2. Rightful(reply')
  <2>1. CASE Answered = {}
      BY <2>1, ErrorIsRightful DEF AllFailed
  <2>2. CASE Answered # {}
    <3>1. PICK last \in Answered : /\ \A q \in Answered : q <= last
                                   /\ reply' = Relayed(last, "closed")
        BY <2>2 DEF AllFailed
    <3>2. step = "start" /\ route = LastRoute
        BY DEF AllFailed
    <3>3. last < route
        BY <3>2, OthersWereRetried DEF Routes
    <3>4. \A r \in Answered \ {last} : r < last /\ answers[r].status = "retry"
        BY <3>1, <3>3, OthersWereRetried DEF Routes
    <3>5. Relayed(last, "closed").route = last /\ Relayed(last, "closed").body = "closed"
        BY DEF Relayed
    <3> QED
        BY <3>1, <3>3, <3>4, <3>5 DEF Rightful
  <2> QED
      BY <2>1, <2>2
<1> QED
    BY <1>1, <1>2, ReportKeeps DEF AllFailed, Serving

\* Recoveries, revocations and the lease move the row, and never release a call.
LEMMA RowKeeps ==
    ASSUME CallInv, LeaseRunsOut \/ RecoverScan \/ RecoverCall \/ Revoke
    PROVE  CallInv'
<1>1. UNCHANGED <<handlerVars, client>>
    BY DEF LeaseRunsOut, RecoverScan, RecoverCall, Revoke
<1>2. \/ UNCHANGED <<callState, outcome>> /\ (lease' = "none" => lease = "none")
      \/ /\ callState = "pending" /\ callState' = "charged"
         /\ outcome' = "outcome_unknown"
    BY DEF LeaseRunsOut, RecoverScan, RecoverCall, Revoke, ChargeUnknown, rowVars
<1>3. TypeOK'
  <2>1. /\ lease' \in {"none", "live", "expired"}
        /\ sent' \in BOOLEAN /\ listed' \in BOOLEAN
      BY DEF CallInv, TypeOK, LeaseRunsOut, RecoverScan, RecoverCall, Revoke, ChargeUnknown,
             rowVars
  <2> QED
      BY <1>1, <1>2, <2>1 DEF CallInv, TypeOK, handlerVars
<1>4. HandlerKnows' /\ CandidatesKnown'
    BY <1>1, <1>2 DEF CallInv, HandlerKnows, CandidatesKnown, Serving, handlerVars
<1>5. SuccessIsCharged' /\ LastAnswerIsRelayed'
    BY <1>1, <1>2 DEF CallInv, SuccessIsCharged, LastAnswerIsRelayed, Answered, handlerVars
<1> QED
    BY <1>3, <1>4, <1>5 DEF CallInv

\* A client that leaves and a server that dies send nothing more.
LEMMA LeavingKeeps ==
    ASSUME CallInv, ClientLeaves \/ Crash
    PROVE  CallInv'
<1>1. TypeOK'
    BY DEF CallInv, TypeOK, ClientLeaves, Crash, handlerVars, rowVars
<1>2. HandlerKnows' /\ CandidatesKnown'
    BY DEF CallInv, HandlerKnows, CandidatesKnown, Serving, ClientLeaves, Crash, handlerVars,
           rowVars
<1>3. SuccessIsCharged' /\ LastAnswerIsRelayed'
    BY DEF CallInv, SuccessIsCharged, LastAnswerIsRelayed, Answered, ClientLeaves, Crash,
           handlerVars, rowVars
<1> QED
    BY <1>1, <1>2, <1>3 DEF CallInv

\* The invariant is inductive: one lemma for each group of actions.
LEMMA StepKeeps == CallInv /\ [Next]_vars => CallInv'
<1> SUFFICES ASSUME CallInv, [Next]_vars PROVE CallInv'
    OBVIOUS
<1>1. CASE UNCHANGED vars
    BY <1>1 DEF vars, handlerVars, rowVars, CallInv, TypeOK, HandlerKnows, CandidatesKnown,
                Serving, SuccessIsCharged, LastAnswerIsRelayed, Answered
<1>2. ASSUME NEW done \in BOOLEAN, NEW told \in BOOLEAN,
             Reserve(done, told) \/ Settle(done, told) \/ StreamConfirmed(done, told)
      PROVE  CallInv'
    BY <1>2, ReserveKeeps, SettleKeeps, StreamConfirmedKeeps
<1>3. ASSUME NEW done \in BOOLEAN,
             \/ StartAttempt(done) \/ RewriteFails(done) \/ Unreachable(done)
             \/ StreamEnded(done) \/ AllFailed(done)
      PROVE  CallInv'
    BY <1>3, StartAttemptKeeps, UnreachableKeeps, StreamEndedKeeps, AllFailedKeeps
<1>4. ASSUME NEW a \in Response, NEW marked \in BOOLEAN, NEW wrote \in BOOLEAN,
             Respond(a, marked, wrote)
      PROVE  CallInv'
    BY <1>4, RespondKeeps
<1>5. CASE ClientLeaves \/ Crash \/ LeaseRunsOut \/ RecoverScan \/ RecoverCall \/ Revoke
    BY <1>5, LeavingKeeps, RowKeeps
<1>6. CASE StreamEndsOnEvent
    BY <1>6, StreamEndsOnEventKeeps
<1> QED
    BY <1>1, <1>2, <1>3, <1>4, <1>5, <1>6 DEF Next

-------------------------------------------------------------------------------
\* The inductive invariant of one metered call.
THEOREM CallInvariant == Spec => []CallInv
<1> QED
    BY InitHolds, StepKeeps, PTL DEF Spec

\* The handler's variables and the call's row keep to their domains: no index runs past the
\* last route, and every reply is the gateway's error or a route's response.
THEOREM CallTypes == Spec => []TypeOK
<1>1. CallInv => TypeOK
    BY DEF CallInv
<1> QED
    BY <1>1, CallInvariant, PTL

\* A successful response sent whole has been charged, or is an event stream that ended with
\* its first event and whose pending call has the lease by which it will be found.
THEOREM ServedIsCharged == Spec => []SuccessIsCharged
<1>1. CallInv => SuccessIsCharged
    BY DEF CallInv
<1> QED
    BY <1>1, CallInvariant, PTL

\* A relayed response is the only one that was not to be retried or, when each was, the last;
\* without its body exactly if a later candidate was tried in vain, and never recorded as a
\* success unless it was sent whole.
THEOREM AnswerIsTheLast == Spec => []LastAnswerIsRelayed
<1>1. CallInv => LastAnswerIsRelayed
    BY DEF CallInv
<1> QED
    BY <1>1, CallInvariant, PTL

\* Whatever has a reply is done, and no action of the handler is enabled there.
LEMMA ReplyIsLast ==
    CallInv /\ [Next]_vars => [reply # NoReply => UNCHANGED <<reply, route, answers>>]_vars
<1> SUFFICES ASSUME CallInv, Next, reply # NoReply PROVE UNCHANGED <<reply, route, answers>>
    OBVIOUS
<1>1. step = "done"
    BY DEF CallInv, HandlerKnows
<1> QED
    BY <1>1 DEF Next, Reserve, Settle, StreamConfirmed, StreamEndsOnEvent, StartAttempt,
                RewriteFails, Unreachable, StreamEnded, AllFailed, Respond, ClientLeaves, Crash,
                LeaseRunsOut, RecoverScan, RecoverCall, Revoke, handlerVars

\* Once the client has been sent anything, no other candidate is tried and nothing else sent.
THEOREM OneReply == Spec => NoSwitchAfterReply
<1> QED
    BY CallInvariant, ReplyIsLast, PTL DEF Spec, NoSwitchAfterReply

-------------------------------------------------------------------------------
(* CallContract *)

\* Before its reservation the handler is idle and the call unused.
LEMMA ContractInit == Init => Contract!Init
    BY DEF Init, Contract!Init

\* Every step is one of the contract's or leaves the call's row and phase alone.
LEMMA ContractStep == CallInv /\ [Next]_vars => [Contract!Next]_(Contract!vars)
<1> SUFFICES ASSUME CallInv, [Next]_vars PROVE Contract!Next \/ UNCHANGED Contract!vars
    OBVIOUS
<1> USE DEF Contract!Next, Contract!vars, Contract!Reserve, Contract!Report, Contract!GiveUp,
            Contract!ChargeUnknown
<1>1. CASE UNCHANGED vars
    BY <1>1 DEF vars, handlerVars, rowVars
<1>2. ASSUME NEW done \in BOOLEAN, NEW told \in BOOLEAN, Reserve(done, told)
      PROVE  Contract!Next
    BY <1>2 DEF Reserve, CallInv, HandlerKnows
<1>3. ASSUME step \in Serving, step' = "done", NEW success \in BOOLEAN, NEW done \in BOOLEAN,
             Finalize(success, done)
      PROVE  Contract!Next
    BY <1>3, FinalizeOutcome DEF CallInv, Serving
<1>4. ASSUME NEW done \in BOOLEAN, NEW told \in BOOLEAN, Settle(done, told)
      PROVE  Contract!Next
    BY <1>3, <1>4 DEF Settle, Serving
<1>5. ASSUME NEW done \in BOOLEAN, NEW told \in BOOLEAN, StreamConfirmed(done, told)
      PROVE  Contract!Next
    BY <1>3, <1>5 DEF StreamConfirmed, Serving
<1>6. ASSUME NEW done \in BOOLEAN, StreamEnded(done) \/ AllFailed(done)
      PROVE  Contract!Next
    BY <1>3, <1>6 DEF StreamEnded, AllFailed, Serving
<1>7. ASSUME NEW done \in BOOLEAN,
             StartAttempt(done) \/ RewriteFails(done) \/ Unreachable(done)
      PROVE  UNCHANGED Contract!vars
    BY <1>7 DEF StartAttempt, RewriteFails, Unreachable, rowVars
<1>8. ASSUME NEW a \in Response, NEW marked \in BOOLEAN, NEW wrote \in BOOLEAN,
             Respond(a, marked, wrote)
      PROVE  UNCHANGED Contract!vars
    BY <1>8 DEF Respond
<1>9. CASE Crash
    BY <1>9 DEF Crash, rowVars
<1>10. CASE ClientLeaves \/ LeaseRunsOut \/ RecoverScan
    BY <1>10 DEF ClientLeaves, LeaseRunsOut, RecoverScan, handlerVars, rowVars
<1>11. CASE RecoverCall \/ Revoke
    BY <1>11 DEF RecoverCall, Revoke, ChargeUnknown, handlerVars, rowVars
<1>12. CASE StreamEndsOnEvent
    BY <1>12 DEF StreamEndsOnEvent, rowVars
<1> QED
    BY <1>1, <1>2, <1>4, <1>5, <1>6, <1>7, <1>8, <1>9, <1>10, <1>11, <1>12 DEF Next

\* The handler keeps its side of the contract with the ledger: it reserves the call, reports
\* it at most once, and only maintenance and revocations charge it besides.
THEOREM HandlerKeepsContract == Spec => KeepsContract
<1> QED
    BY ContractInit, ContractStep, CallInvariant, PTL DEF Spec, KeepsContract, Contract!Spec
===============================================================================
