-------------------------- MODULE WebSocketRelayProofs -------------------------
(***************************************************************************)
(* A WebSocket of any number of creates, under any faults: its types, what  *)
(* the creates owe the ledger (ServedIsBilled and CallContract), that no    *)
(* goroutine ever waits to leave its error, and that the end of the handler *)
(* leaves no connection open.                                               *)
(*                                                                         *)
(* RelayInv is the inductive invariant: who works on the newest create, what *)
(* is known of its call, and how many errors there are.                     *)
(***************************************************************************)
EXTENDS WebSocketRelay, TLAPS

\* The relay starts after the setup; the creates are of the setup, then of the sender.
PhasesInOrder ==
    /\ handler \in {"first", "dial"} => call = 0 /\ create = "none"
    /\ handler \in {"first", "dial", "setup"} => sender = "off" /\ receiver = "off"
    /\ handler = "relay" => sender # "off" /\ receiver # "off"
    /\ handler = "dead" <=> sender = "dead"
    /\ handler = "dead" <=> receiver = "dead"
    /\ sender = "off" <=> receiver = "off"
    /\ create # "none" => handler = "setup" \/ sender = "read"
    /\ create = "reserve" => call < MaxCalls

\* What is known of the calls: those to come have no row, and the one in hand was admitted and
\* has not been released; before it is written, and after that has failed, it is not served.
CallsAreKnown ==
    /\ served \subseteq 1..call
    /\ \A c \in Calls : c > call => callState[c] = "unused"
    /\ create \in {"refuse", "rewrite", "send", "mark", "settle", "release"} => call # 0
    /\ create \in {"rewrite", "send", "mark", "settle", "release"} =>
            callState[call] \in {"pending", "charged"}
    /\ create \in {"refuse", "rewrite", "send", "release"} => call \notin served

\* The errors on the channel are those that were left and not taken.
ErrorsAreCounted ==
    LET left == (IF sender = "done" THEN 1 ELSE 0) + (IF receiver = "done" THEN 1 ELSE 0) IN
    /\ handler \in {"first", "dial", "setup"} => errs = 0
    /\ handler = "relay" => errs = left
    /\ handler = "ended" => errs <= left

\* When the handler is gone, so are both connections.
NothingStaysOpen ==
    handler \in {"ended", "dead"} => client = "closed" /\ upstream = "closed"

RelayInv ==
    /\ TypeOK
    /\ PhasesInOrder
    /\ CallsAreKnown
    /\ ErrorsAreCounted
    /\ NothingStaysOpen
    /\ ServedIsBilled

\* A goroutine that fails finds room for its error.
NobodyWaitsForRoom == sender = "exit" \/ receiver = "exit" => HasRoom

-------------------------------------------------------------------------------
(* The steps *)

\* The steps of a create, whichever statement or write it is at.
CreateStep ==
    \/ Refuse \/ MarkSent
    \/ \E done, told \in BOOLEAN : Reserve(done, told) \/ Settle(done, told) \/ Release(done, told)
    \/ \E ok \in BOOLEAN : Rewrite(ok) \/ Send(ok)

\* The steps that touch neither the creates nor their calls.
OtherStep ==
    \/ Handling \/ ReadCreate \/ SenderFails \/ SenderEnds \/ Receiving
    \/ Panic \/ Crash \/ ClientLeaves \/ UpstreamLeaves

\* There are no other steps than these and what maintenance and a revocation do to the calls.
LEMMA StepCases ==
    ASSUME [Next]_vars
    PROVE  CreateStep \/ OtherStep \/ Revoke \/ (\E c \in Calls : Recover(c)) \/ UNCHANGED vars
BY DEF Next, Sending, CreateStep, OtherStep

\* What a create's step makes of the handler, the sender and the connections: nothing, or what
\* follows it.
LEMMA CreateMoves ==
    ASSUME CreateStep
    PROVE  /\ create # "none" /\ errs' = errs /\ endpoint' = endpoint /\ active' = active
           /\ \/ create' # "none" /\ create' # "reserve" /\ UNCHANGED <<tasks, ends>>
              \/ create' = "none" /\ Proceed
              \/ create' = "none" /\ Abandon
BY DEF CreateStep, Refuse, MarkSent, Reserve, Settle, Release, Rewrite, Send, Proceed, Abandon

USE RelayAssumption

\* Every step is taken by whoever may take it then.
LEMMA PhasesStep ==
    ASSUME TypeOK, PhasesInOrder, [Next]_vars
    PROVE  PhasesInOrder'
<1>1. CASE CreateStep
  <2>1. /\ create # "none" /\ (handler = "setup" \/ sender = "read")
        /\ create' # "reserve" /\ (handler = "setup" => sender = "off" /\ receiver = "off")
    BY <1>1, CreateMoves DEF PhasesInOrder
  <2>2. CASE UNCHANGED <<tasks, ends>>
    BY <2>1, <2>2 DEF PhasesInOrder, tasks
  <2>3. CASE create' = "none" /\ Proceed
    BY <2>1, <2>3 DEF Proceed, StartRelay, PhasesInOrder, tasks
  <2>4. CASE create' = "none" /\ Abandon
    BY <2>1, <2>4 DEF Abandon, Return, PhasesInOrder
  <2> QED
    BY <1>1, <2>2, <2>3, <2>4, CreateMoves
<1>2. CASE Handling
  <2>1. call \in Nat /\ MaxCalls # 0 /\ 0 < MaxCalls
    BY DEF TypeOK
  <2> QED
    BY <1>2, <2>1
       DEF Handling, ReadFirst, SetupFails, Dial, RelayEnds, Return, StartRelay, PhasesInOrder
<1>3. CASE ReadCreate \/ SenderFails \/ SenderEnds
  BY <1>3 DEF ReadCreate, SenderFails, SenderEnds, PhasesInOrder, TypeOK, Calls, tasks
<1>4. CASE Receiving
  BY <1>4 DEF Receiving, ReceiveFrame, ReceiverFails, ReceiverEnds, FrameWritten, PhasesInOrder
<1>5. CASE Panic \/ Crash
  BY <1>5 DEF Panic, Crash, Die, PhasesInOrder
<1>6. CASE \/ ClientLeaves \/ UpstreamLeaves \/ Revoke \/ (\E c \in Calls : Recover(c))
           \/ UNCHANGED vars
  BY <1>6 DEF ClientLeaves, UpstreamLeaves, Revoke, Recover, vars, tasks, PhasesInOrder
<1> QED
  BY <1>1, <1>2, <1>3, <1>4, <1>5, <1>6, StepCases DEF OtherStep

\* Every error is left once and taken once.
LEMMA ErrorsStep ==
    ASSUME TypeOK, PhasesInOrder, ErrorsAreCounted, [Next]_vars
    PROVE  ErrorsAreCounted'
<1>1. CASE CreateStep
  <2>1. /\ create # "none" /\ (handler = "setup" \/ sender = "read") /\ errs' = errs
        /\ (handler = "setup" => sender = "off" /\ receiver = "off")
    BY <1>1, CreateMoves DEF PhasesInOrder
  <2>2. CASE UNCHANGED <<tasks, ends>>
    BY <2>1, <2>2 DEF ErrorsAreCounted, tasks
  <2>3. CASE Proceed
    BY <2>1, <2>3 DEF Proceed, StartRelay, ErrorsAreCounted, tasks
  <2>4. CASE Abandon
    BY <2>1, <2>4 DEF Abandon, Return, ErrorsAreCounted
  <2> QED
    BY <1>1, <2>2, <2>3, <2>4, CreateMoves
<1>2. CASE Handling
  BY <1>2 DEF Handling, ReadFirst, SetupFails, Dial, RelayEnds, Return, StartRelay, PhasesInOrder,
              ErrorsAreCounted, TypeOK
<1>3. CASE ReadCreate \/ SenderFails \/ SenderEnds
  BY <1>3 DEF ReadCreate, SenderFails, SenderEnds, PhasesInOrder, ErrorsAreCounted, TypeOK,
              tasks
<1>4. CASE Receiving
  BY <1>4 DEF Receiving, ReceiveFrame, ReceiverFails, ReceiverEnds, FrameWritten, PhasesInOrder,
              ErrorsAreCounted, TypeOK
<1>5. CASE Panic \/ Crash
  BY <1>5 DEF Panic, Crash, Die, ErrorsAreCounted
<1>6. CASE \/ ClientLeaves \/ UpstreamLeaves \/ Revoke \/ (\E c \in Calls : Recover(c))
           \/ UNCHANGED vars
  BY <1>6 DEF ClientLeaves, UpstreamLeaves, Revoke, Recover, vars, tasks, ErrorsAreCounted
<1> QED
  BY <1>1, <1>2, <1>3, <1>4, <1>5, <1>6, StepCases DEF OtherStep

\* A connection that was closed stays closed, and whoever ends the handler closes both.
LEMMA OpenStep ==
    ASSUME PhasesInOrder, NothingStaysOpen, [Next]_vars
    PROVE  NothingStaysOpen'
<1>1. CASE CreateStep
  <2>1. handler = "setup" \/ sender = "read"
    BY <1>1, CreateMoves DEF PhasesInOrder
  <2>2. CASE UNCHANGED <<tasks, ends>>
    BY <2>2 DEF NothingStaysOpen, tasks, ends
  <2>3. CASE Proceed
    BY <2>3 DEF Proceed, StartRelay, NothingStaysOpen, tasks, ends
  <2>4. CASE Abandon
    BY <2>4 DEF Abandon, Return, NothingStaysOpen, ends
  <2> QED
    BY <1>1, <2>2, <2>3, <2>4, CreateMoves
<1>2. CASE Handling
  BY <1>2 DEF Handling, ReadFirst, SetupFails, Dial, RelayEnds, Return, StartRelay,
              NothingStaysOpen, ends
<1>3. CASE ReadCreate \/ SenderFails \/ SenderEnds \/ Receiving
  BY <1>3 DEF ReadCreate, SenderFails, SenderEnds, Receiving, ReceiveFrame, ReceiverFails,
              ReceiverEnds, FrameWritten, NothingStaysOpen, ends, tasks
<1>4. CASE Panic \/ Crash
  BY <1>4 DEF Panic, Crash, Die, NothingStaysOpen
<1>5. CASE \/ ClientLeaves \/ UpstreamLeaves \/ Revoke \/ (\E c \in Calls : Recover(c))
           \/ UNCHANGED vars
  BY <1>5 DEF ClientLeaves, UpstreamLeaves, Revoke, Recover, vars, tasks, ends, NothingStaysOpen
<1> QED
  BY <1>1, <1>2, <1>3, <1>4, <1>5, StepCases DEF OtherStep

\* The stages of a create, and what each does to its call.
LEMMA CallMoves ==
    ASSUME TypeOK, CreateStep
    PROVE  \/ /\ create = "reserve" /\ create' \in {"refuse", "rewrite", "send"}
              /\ call' = call + 1 /\ served' = served
              /\ \/ callState' = [callState EXCEPT ![call + 1] = "pending"]
                 \/ callState' = callState /\ create' = "refuse"
           \/ /\ create = "refuse" /\ create' = "none"
              /\ UNCHANGED <<call, served, callState>>
           \/ /\ create = "rewrite" /\ create' \in {"send", "none"}
              /\ UNCHANGED <<call, served, callState>>
           \/ /\ create = "send" /\ create' = "mark" /\ served' \in {served, served \cup {call}}
              /\ UNCHANGED <<call, callState>>
           \/ /\ create = "send" /\ create' = "release" /\ UNCHANGED <<call, served, callState>>
           \/ /\ create = "mark" /\ create' = "settle" /\ UNCHANGED <<call, served, callState>>
           \/ /\ create \in {"settle", "release"} /\ create' = "none" /\ UNCHANGED <<call, served>>
              /\ \/ callState' = callState
                 \/ /\ callState[call] = "pending"
                    /\ callState' = [callState EXCEPT ![call] =
                            IF create = "settle" THEN "charged" ELSE "failed"]
<1>1. ASSUME NEW done \in BOOLEAN, NEW told \in BOOLEAN, Reserve(done, told)
      PROVE  /\ create = "reserve" /\ create' \in {"refuse", "rewrite", "send"}
             /\ call' = call + 1 /\ served' = served
             /\ \/ callState' = [callState EXCEPT ![call + 1] = "pending"]
                \/ callState' = callState /\ create' = "refuse"
  <2>1. ~done => callState' = callState
    BY <1>1 DEF Reserve, TypeOK
  <2> QED
    BY <1>1, <2>1 DEF Reserve
<1>2. ASSUME NEW done \in BOOLEAN, NEW told \in BOOLEAN, Settle(done, told) \/ Release(done, told)
      PROVE  /\ create \in {"settle", "release"} /\ create' = "none" /\ UNCHANGED <<call, served>>
             /\ \/ callState' = callState
                \/ /\ callState[call] = "pending"
                   /\ callState' = [callState EXCEPT ![call] =
                            IF create = "settle" THEN "charged" ELSE "failed"]
  BY <1>2 DEF Settle, Release, Finalize, Proceed, Abandon
<1>3. CASE Refuse \/ MarkSent
  BY <1>3 DEF Refuse, MarkSent, Proceed, Abandon
<1>4. ASSUME NEW ok \in BOOLEAN, Rewrite(ok)
      PROVE  /\ create = "rewrite" /\ create' \in {"send", "none"}
             /\ UNCHANGED <<call, served, callState>>
  BY <1>4 DEF Rewrite, Abandon
<1>5. ASSUME NEW ok \in BOOLEAN, Send(ok)
      PROVE  /\ create = "send" /\ UNCHANGED <<call, callState>>
             /\ \/ create' = "mark" /\ served' \in {served, served \cup {call}}
                \/ create' = "release" /\ served' = served
  BY <1>5 DEF Send
<1> QED
  BY <1>1, <1>2, <1>3, <1>4, <1>5 DEF CreateStep

\* Everyone else leaves the calls alone, or charges those that are pending.
LEMMA OthersCharge ==
    ASSUME TypeOK, PhasesInOrder, [Next]_vars, ~CreateStep
    PROVE  /\ call' = call /\ served' = served
           /\ \A c \in Calls : \/ callState'[c] = callState[c]
                               \/ callState[c] = "pending" /\ callState'[c] = "charged"
           /\ callState' \in [Calls -> {"unused", "pending", "charged", "failed"}]
           /\ create' \in {create, "none", "reserve"}
           /\ create' = "reserve" => create \in {"none", "reserve"}
           /\ create' = create \/ callState' = callState
<1>1. CASE Handling \/ Panic \/ Crash
  BY <1>1 DEF Handling, ReadFirst, SetupFails, Dial, RelayEnds, Panic, Crash, Die, TypeOK,
              PhasesInOrder
<1>2. CASE ReadCreate \/ SenderFails \/ SenderEnds \/ Receiving
  BY <1>2 DEF ReadCreate, SenderFails, SenderEnds, Receiving, ReceiveFrame, ReceiverFails,
              ReceiverEnds, FrameWritten, TypeOK
<1>3. CASE ClientLeaves \/ UpstreamLeaves \/ Revoke \/ UNCHANGED vars
  BY <1>3 DEF ClientLeaves, UpstreamLeaves, Revoke, vars, TypeOK
<1>4. ASSUME NEW c \in Calls, Recover(c)
      PROVE  /\ call' = call /\ served' = served /\ create' = create
             /\ callState[c] = "pending" /\ callState' = [callState EXCEPT ![c] = "charged"]
  BY <1>4 DEF Recover
<1> QED
  BY <1>1, <1>2, <1>3, <1>4, StepCases DEF OtherStep, TypeOK

\* The columns of a call and the steps of a goroutine keep to their domains.
LEMMA TypeStep ==
    ASSUME TypeOK, PhasesInOrder, CallsAreKnown, [Next]_vars
    PROVE  TypeOK'
<1>1. call \in 0..MaxCalls /\ (create = "reserve" => call + 1 \in Calls /\ call + 1 \in 0..MaxCalls)
      /\ (create \notin {"none", "reserve"} => call \in Calls)
  BY DEF TypeOK, PhasesInOrder, CallsAreKnown, Calls
<1>2. /\ call' \in 0..MaxCalls /\ served' \subseteq Calls
      /\ callState' \in [Calls -> {"unused", "pending", "charged", "failed"}]
      /\ create' \in {"none", "reserve", "refuse", "rewrite", "send", "mark", "settle", "release"}
  <2>1. CASE CreateStep
    BY <1>1, <2>1, CallMoves DEF TypeOK
  <2>2. CASE ~CreateStep
    BY <1>1, <2>2, OthersCharge DEF TypeOK
  <2> QED
    BY <2>1, <2>2
<1>3. /\ endpoint' \in Endpoints /\ active' \in BOOLEAN /\ errs' \in 0..2
      /\ handler' \in {"first", "dial", "setup", "relay", "ended", "dead"}
      /\ sender' \in {"off", "read", "exit", "done", "dead"}
      /\ receiver' \in {"off", "read", "write", "exit", "done", "dead"}
      /\ client' \in {"open", "gone", "closed"}
      /\ upstream' \in {"none", "open", "gone", "closed"}
  <2>1. CASE CreateStep
    <3>1. UNCHANGED <<errs, endpoint, active>>
      BY <2>1, CreateMoves
    <3>2. CASE UNCHANGED <<tasks, ends>>
      BY <3>1, <3>2 DEF TypeOK, tasks, ends
    <3>3. CASE Proceed
      BY <3>1, <3>3 DEF TypeOK, tasks, ends, Proceed, StartRelay
    <3>4. CASE Abandon
      BY <3>1, <3>4 DEF TypeOK, ends, Abandon, Return
    <3> QED
      BY <2>1, <3>2, <3>3, <3>4, CreateMoves
  <2>2. CASE Handling
    BY <2>2 DEF Handling, ReadFirst, SetupFails, Dial, RelayEnds, StartRelay, Return, TypeOK, ends
  <2>3. CASE ReadCreate \/ SenderFails \/ SenderEnds
    BY <2>3 DEF ReadCreate, SenderFails, SenderEnds, HasRoom, Capacity, TypeOK, tasks, ends
  <2>4. CASE Receiving
    BY <2>4 DEF Receiving, ReceiveFrame, ReceiverFails, ReceiverEnds, FrameWritten, HasRoom,
                Capacity, TypeOK, ends
  <2>5. CASE Panic \/ Crash
    BY <2>5 DEF Panic, Crash, Die, TypeOK
  <2>6. CASE \/ ClientLeaves \/ UpstreamLeaves \/ Revoke \/ (\E c \in Calls : Recover(c))
             \/ UNCHANGED vars
    <3>1. UNCHANGED <<endpoint, tasks, errs>>
          /\ active' \in BOOLEAN /\ client' \in {client, "gone"} /\ upstream' \in {upstream, "gone"}
      BY <2>6 DEF ClientLeaves, UpstreamLeaves, Revoke, Recover, vars, ends, TypeOK
    <3> QED
      BY <3>1 DEF TypeOK, tasks
  <2> QED
    BY <2>1, <2>2, <2>3, <2>4, <2>5, <2>6, StepCases DEF OtherStep
<1> QED
  BY <1>2, <1>3 DEF TypeOK

\* A create knows its call, whoever else settles it.
LEMMA CallsStep ==
    ASSUME TypeOK, PhasesInOrder, CallsAreKnown, ServedIsBilled, [Next]_vars
    PROVE  CallsAreKnown' /\ ServedIsBilled'
<1>1. /\ call \in 0..MaxCalls /\ served \subseteq 1..call
      /\ callState \in [Calls -> {"unused", "pending", "charged", "failed"}]
      /\ (create = "reserve" => call + 1 \in Calls)
      /\ (create \notin {"none", "reserve"} => call \in Calls)
      /\ \A c \in served : c \in Calls /\ c <= call /\ callState[c] \in {"pending", "charged"}
      /\ \A c \in Calls : c > call => callState[c] = "unused"
  BY DEF TypeOK, PhasesInOrder, CallsAreKnown, Calls, ServedIsBilled
<1>2. CASE CreateStep
  <2>1. CASE create = "reserve"
    <3>1. /\ create' \in {"refuse", "rewrite", "send"} /\ call' = call + 1 /\ served' = served
          /\ \/ callState' = [callState EXCEPT ![call + 1] = "pending"]
             \/ callState' = callState /\ create' = "refuse"
      BY <1>2, <2>1, CallMoves
    <3>2. call + 1 \notin served /\ served \subseteq 1..(call + 1) /\ call + 1 # 0
      BY <1>1
    <3>3. \A c \in Calls : c > call + 1 => c > call /\ c # call + 1
      BY <1>1 DEF Calls
    <3>4. \A c \in Calls : c # call + 1 => callState'[c] = callState[c]
      BY <1>1, <3>1
    <3>5. create' # "refuse" => callState'[call + 1] = "pending"
      BY <1>1, <2>1, <3>1
    <3> QED
      BY <1>1, <3>1, <3>2, <3>3, <3>4, <3>5 DEF CallsAreKnown, ServedIsBilled
  <2>2. CASE create \in {"refuse", "rewrite", "mark"}
    BY <1>2, <2>2, CallMoves DEF CallsAreKnown, ServedIsBilled
  <2>3. CASE create = "send"
    <3>1. call \in 1..call
      BY <1>1, <2>3 DEF Calls
    <3> QED
      BY <1>2, <2>3, <3>1, CallMoves DEF CallsAreKnown, ServedIsBilled
  <2>4. CASE create \in {"settle", "release"}
    <3>1. /\ create' = "none" /\ call' = call /\ served' = served
          /\ \/ callState' = callState
             \/ /\ callState[call] = "pending"
                /\ callState' = [callState EXCEPT ![call] =
                        IF create = "settle" THEN "charged" ELSE "failed"]
      BY <1>2, <2>4, CallMoves
    <3>2. \A c \in Calls : c # call => callState'[c] = callState[c]
      BY <1>1, <2>4, <3>1
    <3>3. create = "release" => call \notin served
      BY DEF CallsAreKnown
    <3>4. create = "settle" => callState'[call] \in {"pending", "charged"}
      BY <1>1, <2>4, <3>1 DEF CallsAreKnown
    <3>5. \A c \in served : callState'[c] \in {"pending", "charged"}
      BY <1>1, <2>4, <3>2, <3>3, <3>4
    <3>6. \A c \in Calls : c > call => c # call
      BY <1>1 DEF Calls
    <3> QED
      BY <1>1, <3>1, <3>2, <3>5, <3>6 DEF CallsAreKnown, ServedIsBilled
  <2> QED
    BY <1>2, <2>1, <2>2, <2>3, <2>4, CallMoves
<1>3. CASE ~CreateStep
  <2>1. /\ call' = call /\ served' = served
        /\ \A c \in Calls : \/ callState'[c] = callState[c]
                            \/ callState[c] = "pending" /\ callState'[c] = "charged"
        /\ create' \in {create, "none", "reserve"}
    BY <1>3, OthersCharge
  <2> QED
    BY <1>1, <2>1 DEF CallsAreKnown, ServedIsBilled
<1> QED
  BY <1>2, <1>3

\* Nothing has happened when the client connects.
LEMMA InitInv == Init => RelayInv
BY DEF Init, RelayInv, TypeOK, PhasesInOrder, CallsAreKnown, ErrorsAreCounted, NothingStaysOpen,
       ServedIsBilled, Calls

-------------------------------------------------------------------------------
(* Theorems *)

\* What the handler, its goroutines and the calls know, in every order of their steps.
THEOREM RelayInvariant == Spec => []RelayInv
<1>1. RelayInv /\ [Next]_vars => RelayInv'
  BY TypeStep, PhasesStep, CallsStep, ErrorsStep, OpenStep DEF RelayInv
<1> QED
  BY <1>1, InitInv, PTL DEF Spec

\* The relay's columns and steps keep to their domains.
THEOREM RelayTypesHold == Spec => []TypeOK
<1>1. RelayInv => TypeOK
  BY DEF RelayInv
<1> QED
  BY <1>1, RelayInvariant, PTL

\* A create that the upstream was given is charged or still will be, whichever of its
\* statements fail and whoever else settles it.
THEOREM ServedAreBilled == Spec => []ServedIsBilled
<1>1. RelayInv => ServedIsBilled
  BY DEF RelayInv
<1> QED
  BY <1>1, RelayInvariant, PTL

\* Neither goroutine can be left behind on the channel: whenever one has failed there is room
\* for its error, whatever the other and the handler have done.
THEOREM NobodyWaits == Spec => []NobodyWaitsForRoom
<1>1. RelayInv => NobodyWaitsForRoom
  BY DEF NobodyWaitsForRoom, RelayInv, PhasesInOrder, ErrorsAreCounted, TypeOK, HasRoom, Capacity
<1> QED
  BY <1>1, RelayInvariant, PTL

\* A handler that is gone leaves neither of its connections open.
THEOREM BothEndsAreClosed == Spec => []NothingStaysOpen
<1>1. RelayInv => NothingStaysOpen
  BY DEF RelayInv
<1> QED
  BY <1>1, RelayInvariant, PTL

\* Each create and its call take a step of the contract, or none.
LEMMA ContractStep ==
    ASSUME RelayInv, [Next]_vars, NEW c \in Calls
    PROVE  [Contract(c)!Next]_<<Worker(c), callState[c]>>
<1>1. /\ TypeOK /\ PhasesInOrder /\ call \in Nat /\ c \in Nat
      /\ callState \in [Calls -> {"unused", "pending", "charged", "failed"}]
      /\ (c > call => callState[c] = "unused")
  BY DEF RelayInv, TypeOK, CallsAreKnown, Calls
<1>2. CASE CreateStep
  <2>1. CASE create = "reserve"
    <3>1. /\ create' \in {"refuse", "rewrite", "send"} /\ call' = call + 1
          /\ \/ callState' = [callState EXCEPT ![call + 1] = "pending"]
             \/ callState' = callState /\ create' = "refuse"
      BY <1>1, <1>2, <2>1, CallMoves
    <3>2. CASE c = call + 1
      <4>1. Worker(c) = "idle" /\ callState[c] = "unused"
        BY <1>1, <3>2 DEF Worker
      <4>2. Worker(c)' = IF create' = "refuse" THEN "gone" ELSE "running"
        BY <1>1, <3>1, <3>2 DEF Worker, InHand
      <4>3. callState'[c] = "pending" \/ (callState'[c] = callState[c] /\ create' = "refuse")
        BY <1>1, <3>1, <3>2
      <4> QED
        BY <4>1, <4>2, <4>3 DEF Contract!Next, Contract!Reserve, Contract!GiveUp
    <3>3. CASE c # call + 1
      <4>1. Worker(c)' = Worker(c)
        BY <1>1, <2>1, <3>1, <3>3 DEF Worker, InHand
      <4>2. callState'[c] = callState[c]
        BY <1>1, <3>1, <3>3
      <4> QED
        BY <4>1, <4>2
    <3> QED
      BY <3>2, <3>3
  <2>2. CASE create # "reserve"
    <3>1. call' = call /\ create # "none"
      BY <1>1, <1>2, <2>2, CallMoves
    <3>2. CASE c # call
      <4>1. Worker(c)' = Worker(c)
        BY <1>1, <3>1, <3>2 DEF Worker, InHand
      <4>2. callState'[c] = callState[c]
        BY <1>1, <1>2, <2>2, <3>2, CallMoves
      <4> QED
        BY <4>1, <4>2
    <3>3. CASE c = call
      <4>1. Worker(c) = (IF create = "refuse" THEN "gone" ELSE "running")
        BY <1>1, <2>2, <3>1, <3>3 DEF Worker, InHand, TypeOK
      <4>2. Worker(c)' = (IF create' \in {"rewrite", "send", "mark", "settle", "release"}
                          THEN "running" ELSE "gone")
        BY <1>1, <3>1, <3>3 DEF Worker, InHand
      <4>3. CASE create \in {"settle", "release"}
        <5>1. /\ create' = "none"
              /\ \/ callState'[c] = callState[c]
                 \/ callState[c] = "pending" /\ callState'[c] \in {"charged", "failed"}
          BY <1>1, <1>2, <3>3, <4>3, CallMoves
        <5> QED
          BY <4>1, <4>2, <4>3, <5>1 DEF Contract!Next, Contract!Report, Contract!GiveUp
      <4>4. CASE create \notin {"settle", "release"}
        <5>1. /\ callState'[c] = callState[c]
              /\ \/ create = "refuse" /\ create' = "none"
                 \/ create # "refuse" /\ create' \in {"none", "send", "mark", "release", "settle"}
          BY <1>1, <1>2, <2>2, <4>4, CallMoves
        <5> QED
          BY <4>1, <4>2, <5>1 DEF Contract!Next, Contract!GiveUp
      <4> QED
        BY <4>3, <4>4
    <3> QED
      BY <3>2, <3>3
  <2> QED
    BY <2>1, <2>2
<1>3. CASE ~CreateStep
  <2>1. /\ call' = call
        /\ \/ callState'[c] = callState[c]
           \/ callState[c] = "pending" /\ callState'[c] = "charged"
        /\ create' \in {create, "none", "reserve"}
        /\ create' = create \/ callState' = callState
    BY <1>1, <1>3, OthersCharge
  <2>2. CASE create' = create
    <3>1. Worker(c)' = Worker(c)
      BY <2>1, <2>2 DEF Worker, InHand
    <3> QED
      BY <2>1, <3>1 DEF Contract!Next, Contract!ChargeUnknown
  <2>3. CASE create' \in {"none", "reserve"} /\ callState' = callState
    <3>1. Worker(c)' = Worker(c) \/ (Worker(c) # "gone" /\ Worker(c)' = "gone")
      BY <2>1, <2>3 DEF Worker, InHand
    <3> QED
      BY <2>3, <3>1 DEF Contract!Next, Contract!GiveUp
  <2> QED
    BY <2>1, <2>2, <2>3
<1> QED
  BY <1>2, <1>3

\* Whoever reserves a create reports it at most once, and everyone else may only charge it: the
\* relay keeps CallContract for every one of its creates.
THEOREM CreatesKeep == Spec => CreatesKeepContract
<1>1. Init => \A c \in Calls : Contract(c)!Init
  BY DEF Init, Calls, Worker, Contract!Init
<1>2. RelayInv /\ [Next]_vars =>
        [\A c \in Calls : [Contract(c)!Next]_<<Worker(c), callState[c]>>]_vars
  BY ContractStep
<1> QED
  BY <1>1, <1>2, RelayInvariant, PTL DEF Spec, CreatesKeepContract
================================================================================
