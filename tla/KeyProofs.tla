------------------------------- MODULE KeyProofs -------------------------------
(***************************************************************************)
(* A key is decided once by a mentor and once by a teacher, is claimed once *)
(* and is told of truthfully, for every number of keys and handlers.        *)
(* KeyInv is the inductive invariant: the properties, and what a handler in *)
(* the middle of a request relies on.                                       *)
(*                                                                         *)
(* Then the page (KeyNotices): NoticesInv adds to KeyInv that wherever the  *)
(* connection breaks, the events it was going to deliver leave none out.    *)
(***************************************************************************)
EXTENDS KeyNotices, SequenceTheorems, FiniteSetTheorems, FunctionTheorems, TLAPS

\* A handler past its first statement knows what it decides, and only a mentor's approval
\* carries a quota.
TasksAreDecisions ==
    \A h \in Handlers :
        /\ step[h] = "idle" => task[h] = NoTask
        /\ step[h] \in {"quota", "decide", "commit"} =>
                /\ task[h].action \in {"mentor_approved", "mentor_rejected", "teacher_rejected"}
                /\ task[h].to = Decisions[task[h].action].to
        /\ step[h] = "quota" \/ task[h].withQuota => task[h].action = "mentor_approved"
        /\ step[h] = "answer" => task[h].action = "claimed"

\* Whoever has locked a row is in the middle of its review; whoever is about to commit has
\* locked the row, and it is still as the review found it.
LocksAreReviews ==
    /\ \A k \in Keys : lock[k] # NoOne => step[lock[k]] \in {"decide", "commit"} /\ Key(lock[k]) = k
    /\ \A h \in Handlers :
        step[h] = "commit" =>
            lock[Key(h)] = h /\ row[Key(h)].status = Decisions[task[h].action].from

\* A key has a secret from its claim on, and its claim knows it.
SecretsAreClaimed ==
    /\ \A k \in Keys :
        row[k].hash = IF row[k].status \in {"active", "revoked"} THEN 1 ELSE 0
    /\ \A h \in Handlers :
        task[h].action = "claimed" => row[Key(h)].hash = 1 /\ task[h].secret = 1

\* A key has come to a status, or beyond it.
Reached(k, status) == row[k].status = status \/ Stage[row[k].status] > Stage[status]

\* What is about to be published has happened.
TellingIsTrue ==
    \A h \in Handlers : step[h] = "publish" => Reached(Key(h), task[h].to)

\* The secret of a key is handed out by its claim alone.
HandedOnce == \A k \in Keys : handed[k] \subseteq {1} /\ (handed[k] # {} => row[k].hash = 1)

\* The inductive invariant.
KeyInv ==
    /\ TypeOK
    /\ TasksAreDecisions
    /\ LocksAreReviews
    /\ SecretsAreClaimed
    /\ TellingIsTrue
    /\ AuditsTellStatus
    /\ QuotasAreDecided
    /\ HandedOnce
    /\ EventsFollowCommits

-------------------------------------------------------------------------------
(* What the steps touch *)

Row  == [status : Statuses, mentorQuota : Handlers \cup {NoOne},
         quota : Handlers \cup {NoOne}, hash : Nat]
Task == [action : AuditedActions \cup {"none", "submitted", "claimed"},
         key : Keys, to : Statuses, withQuota : BOOLEAN, secret : Nat]

\* The three decisions a review makes by an UPDATE that looks at the status again.
LEMMA ThreeDecisions ==
    /\ DOMAIN Decisions = {"mentor_approved", "mentor_rejected", "teacher_rejected"}
    /\ Decisions["mentor_approved"] = [from |-> "pending_mentor", to |-> "pending_teacher"]
    /\ Decisions["mentor_rejected"] = [from |-> "pending_mentor", to |-> "rejected"]
    /\ Decisions["teacher_rejected"] = [from |-> "pending_teacher", to |-> "rejected"]
BY DEF Decisions

\* The task of a handler without a request.
LEMMA NoTaskFields ==
    /\ NoTask \in Task
    /\ NoTask.action = "none" /\ ~NoTask.withQuota /\ NoTask.secret = 0
BY KeysAssumption DEF NoTask, Task, Statuses, AuditedActions

-------------------------------------------------------------------------------
(* What handlers rely on *)

\* A handler keeps to its decision.
LEMMA TasksStep ==
    ASSUME KeyInv, [Next]_vars
    PROVE  TasksAreDecisions'
<1>1. /\ TypeOK /\ TasksAreDecisions /\ LocksAreReviews /\ SecretsAreClaimed
      /\ step \in [Handlers -> {"idle", "quota", "decide", "commit", "publish", "answer"}]
      /\ task \in [Handlers -> Task] /\ row \in [Keys -> Row]
      /\ lock \in [Keys -> Handlers \cup {NoOne}]
  BY DEF KeyInv, TypeOK, Task, Row
<1>2. /\ NoTask \in Task /\ NoTask.action = "none" /\ ~NoTask.withQuota
      /\ NoOne \notin Handlers
  BY NoTaskFields, KeysAssumption
<1>3. ASSUME NEW h \in Handlers, NEW k \in Keys, SubmitAPIKey(h, k)
      PROVE  TasksAreDecisions'
  BY <1>1, <1>2, ThreeDecisions, <1>3 DEF SubmitAPIKey, TakeUp, TasksAreDecisions, To, Done, Task
<1>4. ASSUME NEW h \in Handlers, NEW k \in Keys, ClaimAPIKey(h, k)
      PROVE  TasksAreDecisions'
  BY <1>1, <1>2, ThreeDecisions, <1>4
     DEF ClaimAPIKey, StoreSecret, MayWrite, TasksAreDecisions, To, Done, Task
<1>5. ASSUME NEW h \in Handlers, Answer(h)
      PROVE  TasksAreDecisions'
  BY <1>1, <1>2, ThreeDecisions, <1>5 DEF Answer, TasksAreDecisions, To, Done, Task
<1>6. ASSUME NEW h \in Handlers, NEW k \in Keys, NEW action \in DOMAIN Decisions,
             ReadPending(h, k, action)
      PROVE  TasksAreDecisions'
  BY <1>1, <1>2, ThreeDecisions, <1>6 DEF ReadPending, TakeUp, TasksAreDecisions, To, Done, Task
<1>7. ASSUME NEW h \in Handlers, SetMentorQuota(h)
      PROVE  TasksAreDecisions'
  BY <1>1, <1>2, ThreeDecisions, <1>7
     DEF SetMentorQuota, MayWrite, TasksAreDecisions, To, Done, Task
<1>8. ASSUME NEW h \in Handlers, Decide(h)
      PROVE  TasksAreDecisions'
  BY <1>1, <1>2, ThreeDecisions, <1>8 DEF Decide, MayWrite, TasksAreDecisions, To, Done, Task
<1>9. ASSUME NEW h \in Handlers, Commit(h)
      PROVE  TasksAreDecisions'
  BY <1>1, <1>2, ThreeDecisions, <1>9 DEF Commit, TasksAreDecisions, To, Done, Task
<1>10. ASSUME NEW h \in Handlers, NEW k \in Keys, ApproveKey(h, k)
       PROVE  TasksAreDecisions'
  BY <1>1, <1>2, ThreeDecisions, <1>10
     DEF ApproveKey, TakeUp, MayWrite, TasksAreDecisions, To, Done, Task
<1>11. ASSUME NEW h \in Handlers, NEW k \in Keys, RevokeKey(h, k)
       PROVE  TasksAreDecisions'
  BY <1>1, <1>2, ThreeDecisions, <1>11
     DEF RevokeKey, TakeUp, MayWrite, TasksAreDecisions, To, Done, Task
<1>12. ASSUME NEW h \in Handlers, Publish(h)
       PROVE  TasksAreDecisions'
  BY <1>1, <1>2, ThreeDecisions, <1>12 DEF Publish, TasksAreDecisions, To, Done, Task
<1>13. ASSUME NEW h \in Handlers, Abandon(h)
       PROVE  TasksAreDecisions'
  BY <1>1, <1>2, ThreeDecisions, <1>13 DEF Abandon, TasksAreDecisions, To, Done, Task
<1>14. ASSUME NEW h \in Handlers, NEW k \in Keys, UpdateKeyQuota(h, k)
       PROVE  TasksAreDecisions'
  BY <1>1, <1>14 DEF UpdateKeyQuota, TasksAreDecisions
<1>15. CASE UNCHANGED vars
  BY <1>1, <1>2, ThreeDecisions, <1>15 DEF vars, TasksAreDecisions, To, Done, Task
<1> QED
  BY <1>3, <1>4, <1>5, <1>6, <1>7, <1>8, <1>9, <1>10, <1>11, <1>12, <1>13, <1>14, <1>15
     DEF Next, Serve

\* A row stays locked, and as it was found, until its review has committed.
LEMMA LocksStep ==
    ASSUME KeyInv, [Next]_vars
    PROVE  LocksAreReviews'
<1>1. /\ TypeOK /\ TasksAreDecisions /\ LocksAreReviews /\ SecretsAreClaimed
      /\ step \in [Handlers -> {"idle", "quota", "decide", "commit", "publish", "answer"}]
      /\ task \in [Handlers -> Task] /\ row \in [Keys -> Row]
      /\ lock \in [Keys -> Handlers \cup {NoOne}]
  BY DEF KeyInv, TypeOK, Task, Row
<1>2. /\ NoTask \in Task /\ NoTask.action = "none" /\ ~NoTask.withQuota
      /\ NoOne \notin Handlers
  BY NoTaskFields, KeysAssumption
<1>3. ASSUME NEW h \in Handlers, NEW k \in Keys, SubmitAPIKey(h, k)
      PROVE  LocksAreReviews'
  BY <1>1, <1>2, ThreeDecisions, <1>3
     DEF SubmitAPIKey, TakeUp, TasksAreDecisions, LocksAreReviews, To, Done, Task, Row, Key,
     Unlock
<1>4. ASSUME NEW h \in Handlers, NEW k \in Keys, ClaimAPIKey(h, k)
      PROVE  LocksAreReviews'
  BY <1>1, <1>2, ThreeDecisions, <1>4 DEF ClaimAPIKey, StoreSecret, MayWrite, TasksAreDecisions,
     LocksAreReviews, To, Done, Task, Row, Key, Unlock
<1>5. ASSUME NEW h \in Handlers, Answer(h)
      PROVE  LocksAreReviews'
  BY <1>1, <1>2, ThreeDecisions, <1>5
     DEF Answer, TasksAreDecisions, LocksAreReviews, To, Done, Task, Row, Key, Unlock
<1>6. ASSUME NEW h \in Handlers, NEW k \in Keys, NEW action \in DOMAIN Decisions,
             ReadPending(h, k, action)
      PROVE  LocksAreReviews'
  BY <1>1, <1>2, ThreeDecisions, <1>6
     DEF ReadPending, TakeUp, TasksAreDecisions, LocksAreReviews, To, Done, Task, Row, Key, Unlock
<1>7. ASSUME NEW h \in Handlers, SetMentorQuota(h)
      PROVE  LocksAreReviews'
  BY <1>1, <1>2, ThreeDecisions, <1>7 DEF SetMentorQuota, MayWrite, TasksAreDecisions,
     LocksAreReviews, To, Done, Task, Row, Key, Unlock
<1>8. ASSUME NEW h \in Handlers, Decide(h)
      PROVE  LocksAreReviews'
  <2>1. CASE row[Key(h)].status = Decisions[task[h].action].from
    <3>1. /\ \A g \in Handlers \ {h} : step'[g] = step[g]
          /\ step'[h] = "commit" /\ task' = task /\ row' = row
          /\ Key(h) \in Keys /\ lock[Key(h)] \in {NoOne, h} /\ lock'[Key(h)] = h
          /\ \A k \in Keys \ {Key(h)} : lock'[k] = lock[k]
      BY <1>1, <1>8, <2>1 DEF Decide, MayWrite, To, Key, Task
    <3>2. \A k \in Keys : lock'[k] # NoOne =>
                step'[lock'[k]] \in {"decide", "commit"} /\ Key(lock'[k]) = k
      BY <1>1, <1>2, <3>1 DEF LocksAreReviews
    <3>3. ASSUME NEW g \in Handlers, step'[g] = "commit"
          PROVE  lock'[Key(g)] = g /\ row[Key(g)].status = Decisions[task[g].action].from
      <4>1. CASE g = h
        BY <2>1, <3>1, <4>1
      <4>2. CASE g # h
        <5>1. step[g] = "commit" /\ Key(g) \in Keys
          BY <1>1, <3>1, <3>3, <4>2 DEF Key, Task
        <5>2. lock[Key(g)] = g /\ row[Key(g)].status = Decisions[task[g].action].from
          BY <1>1, <5>1 DEF LocksAreReviews
        <5> QED
          BY <1>2, <3>1, <4>2, <5>1, <5>2
      <4> QED
        BY <4>1, <4>2
    <3> QED
      BY <3>1, <3>2, <3>3 DEF LocksAreReviews, Key
  <2>2. CASE row[Key(h)].status # Decisions[task[h].action].from
    <3>1. /\ \A g \in Handlers \ {h} : step'[g] = step[g] /\ task'[g] = task[g]
          /\ step'[h] = "idle" /\ row' = row
          /\ \A k \in Keys : lock'[k] = IF lock[k] = h THEN NoOne ELSE lock[k]
      BY <1>1, <1>8, <2>2 DEF Decide, To, Done, Unlock
    <3>2. \A g \in Handlers : Key(g) \in Keys
      BY <1>1 DEF Key, Task
    <3> QED
      BY <1>1, <1>2, <3>1, <3>2 DEF LocksAreReviews, Key
  <2> QED
    BY <2>1, <2>2
<1>9. ASSUME NEW h \in Handlers, Commit(h)
      PROVE  LocksAreReviews'
  BY <1>1, <1>2, ThreeDecisions, <1>9
     DEF Commit, TasksAreDecisions, LocksAreReviews, To, Done, Task, Row, Key, Unlock
<1>10. ASSUME NEW h \in Handlers, NEW k \in Keys, ApproveKey(h, k)
       PROVE  LocksAreReviews'
  BY <1>1, <1>2, ThreeDecisions, <1>10 DEF ApproveKey, TakeUp, MayWrite, TasksAreDecisions,
     LocksAreReviews, To, Done, Task, Row, Key, Unlock
<1>11. ASSUME NEW h \in Handlers, NEW k \in Keys, RevokeKey(h, k)
       PROVE  LocksAreReviews'
  BY <1>1, <1>2, ThreeDecisions, <1>11 DEF RevokeKey, TakeUp, MayWrite, TasksAreDecisions,
     LocksAreReviews, To, Done, Task, Row, Key, Unlock
<1>12. ASSUME NEW h \in Handlers, Publish(h)
       PROVE  LocksAreReviews'
  <2>1. /\ step[h] = "publish" /\ row' = row /\ lock' = lock
        /\ \A g \in Handlers \ {h} : step'[g] = step[g] /\ task'[g] = task[g]
        /\ step'[h] \in {"answer", "idle"}
    BY <1>1, <1>12 DEF Publish, To, Done
  <2> QED
    BY <1>1, <2>1 DEF LocksAreReviews, Key
<1>13. ASSUME NEW h \in Handlers, Abandon(h)
       PROVE  LocksAreReviews'
  BY <1>1, <1>2, ThreeDecisions, <1>13
     DEF Abandon, TasksAreDecisions, LocksAreReviews, To, Done, Task, Row, Key, Unlock
<1>14. ASSUME NEW h \in Handlers, NEW k \in Keys, UpdateKeyQuota(h, k)
       PROVE  LocksAreReviews'
  <2>1. \A x \in Keys : row'[x].status = row[x].status
    BY <1>1, <1>14 DEF UpdateKeyQuota, Row
  <2>2. \A g \in Handlers : Key(g) \in Keys
    BY <1>1 DEF Key, Task
  <2> QED
    BY <1>1, <1>14, <2>1, <2>2 DEF UpdateKeyQuota, LocksAreReviews, Key
<1>15. CASE UNCHANGED vars
  BY <1>1, <1>2, ThreeDecisions, <1>15
     DEF vars, TasksAreDecisions, LocksAreReviews, To, Done, Task, Row, Key, Unlock
<1> QED
  BY <1>3, <1>4, <1>5, <1>6, <1>7, <1>8, <1>9, <1>10, <1>11, <1>12, <1>13, <1>14, <1>15
     DEF Next, Serve

-------------------------------------------------------------------------------
(* Types *)

\* All that is not a sequence.
FunctionsOK ==
    /\ row \in [Keys -> Row]
    /\ lock \in [Keys -> Handlers \cup {NoOne}]
    /\ step \in [Handlers -> {"idle", "quota", "decide", "commit", "publish", "answer"}]
    /\ task \in [Handlers -> Task]
    /\ handed \in [Keys -> SUBSET Nat]

\* What a handler takes up is a task.
LEMMA TaskType ==
    ASSUME NEW action \in AuditedActions \cup {"none", "submitted", "claimed"}, NEW k \in Keys,
           NEW to \in Statuses, NEW s \in Nat
    PROVE  /\ [NoTask EXCEPT !.action = action, !.key = k, !.to = to] \in Task
           /\ [NoTask EXCEPT !.action = action, !.key = k, !.to = to, !.secret = s] \in Task
<1>1. NoTask \in Task
  BY NoTaskFields
<1> QED
  BY <1>1 DEF Task

\* No request changes the type of a row, a lock, a handler or a secret.
LEMMA FunctionsStep ==
    ASSUME KeyInv, [Next]_vars
    PROVE  FunctionsOK'
<1>1. /\ FunctionsOK /\ TasksAreDecisions
      /\ \A h \in Handlers : /\ Key(h) \in Keys /\ task[h].to \in Statuses
                             /\ task[h].secret \in Nat
  BY DEF KeyInv, TypeOK, FunctionsOK, Task, Row, Key
<1>2. NoTask \in Task
  BY NoTaskFields
<1>3. row' \in [Keys -> Row]
  <2>1. CASE row' = row
    BY <1>1, <2>1 DEF FunctionsOK
  <2>2. ASSUME NEW h \in Handlers, NEW k \in Keys,
               \/ SubmitAPIKey(h, k) \/ ClaimAPIKey(h, k) \/ ApproveKey(h, k) \/ RevokeKey(h, k)
               \/ UpdateKeyQuota(h, k)
               \/ Commit(h) /\ k = Key(h)
        PROVE  row' \in [Keys -> Row]
    <3>1. \E r \in Row : row' = [row EXCEPT ![k] = r]
      <4>1. row[k] \in Row /\ row \in [Keys -> Row]
        BY <1>1 DEF FunctionsOK
      <4>2. CASE SubmitAPIKey(h, k)
        <5>1. row' = [row EXCEPT ![k] = [row[k] EXCEPT !.status = "pending_mentor"]]
          BY <4>1, <4>2 DEF SubmitAPIKey
        <5> QED
          BY <4>1, <5>1 DEF Row, Statuses
      <4>3. CASE ClaimAPIKey(h, k)
        <5>1. row' = [row EXCEPT ![k] = [row[k] EXCEPT !.status = "active", !.hash = row[k].hash + 1]]
          BY <4>1, <4>3 DEF ClaimAPIKey, StoreSecret
        <5>2. row[k].hash \in Nat /\ row[k].hash + 1 \in Nat
          BY <4>1 DEF Row
        <5> QED
          BY <4>1, <5>1, <5>2 DEF Row, Statuses
      <4>4. CASE ApproveKey(h, k)
        <5>1. row' = [row EXCEPT ![k] = [row[k] EXCEPT !.status = "approved", !.quota = h]]
          BY <4>1, <4>4 DEF ApproveKey
        <5> QED
          BY <4>1, <5>1 DEF Row, Statuses
      <4>5. CASE RevokeKey(h, k)
        <5>1. row' = [row EXCEPT ![k] = [row[k] EXCEPT !.status = "revoked"]]
          BY <4>1, <4>5 DEF RevokeKey
        <5> QED
          BY <4>1, <5>1 DEF Row, Statuses
      <4>6. CASE Commit(h) /\ k = Key(h)
        <5>1. row' = [row EXCEPT ![k] = [row[k] EXCEPT !.status = task[h].to,
                        !.mentorQuota = IF task[h].withQuota THEN h ELSE row[k].mentorQuota]]
          BY <4>1, <4>6 DEF Commit
        <5> QED
          BY <1>1, <4>1, <5>1 DEF Row
      <4>7. CASE UpdateKeyQuota(h, k)
        <5>1. row' = [row EXCEPT ![k] = [row[k] EXCEPT !.quota = h]]
          BY <4>1, <4>7 DEF UpdateKeyQuota
        <5> QED
          BY <4>1, <5>1 DEF Row
      <4> QED
        BY <2>2, <4>2, <4>3, <4>4, <4>5, <4>6, <4>7
    <3> QED
      BY <1>1, <3>1 DEF FunctionsOK
  <2> QED
    BY <1>1, <2>1, <2>2
       DEF Next, Serve, vars, Answer, ReadPending, SetMentorQuota, Decide, Publish, Abandon
<1>4. lock' \in [Keys -> Handlers \cup {NoOne}]
  <2>1. CASE lock' = lock
    BY <1>1, <2>1 DEF FunctionsOK
  <2>2. ASSUME NEW h \in Handlers, Unlock(h) \/ lock' = [lock EXCEPT ![Key(h)] = h]
        PROVE  lock' \in [Keys -> Handlers \cup {NoOne}]
    BY <1>1, <2>2 DEF FunctionsOK, Unlock
  <2> QED
    BY <2>1, <2>2 DEF Next, Serve, vars, SubmitAPIKey, ClaimAPIKey, ApproveKey, RevokeKey, UpdateKeyQuota, Answer,
                      ReadPending, SetMentorQuota, Decide, Commit, Publish, Abandon
<1>5. step' \in [Handlers -> {"idle", "quota", "decide", "commit", "publish", "answer"}]
  <2>1. CASE step' = step
    BY <1>1, <2>1 DEF FunctionsOK
  <2>2. ASSUME NEW h \in Handlers,
               \E s \in {"idle", "quota", "decide", "commit", "publish", "answer"} : To(h, s)
        PROVE  step' \in [Handlers -> {"idle", "quota", "decide", "commit", "publish", "answer"}]
    BY <1>1, <2>2 DEF FunctionsOK, To
  <2> QED
    BY <2>1, <2>2 DEF Next, Serve, vars, SubmitAPIKey, ClaimAPIKey, ApproveKey, RevokeKey, UpdateKeyQuota, Answer,
                      ReadPending, SetMentorQuota, Decide, Commit, Publish, Abandon
<1>6. task' \in [Handlers -> Task]
  <2>1. CASE task' = task
    BY <1>1, <2>1 DEF FunctionsOK
  <2>2. ASSUME NEW h \in Handlers, NEW t \in Task, task' = [task EXCEPT ![h] = t]
        PROVE  task' \in [Handlers -> Task]
    BY <1>1, <2>2 DEF FunctionsOK
  <2>3. ASSUME NEW h \in Handlers, Done(h)
        PROVE  task' \in [Handlers -> Task]
    BY <1>2, <2>2, <2>3 DEF Done
  <2>4. ASSUME NEW h \in Handlers, SetMentorQuota(h)
        PROVE  task' \in [Handlers -> Task]
    <3>1. task' = [task EXCEPT ![h] = [task[h] EXCEPT !.withQuota = TRUE]] /\ task[h] \in Task
      BY <1>1, <2>4 DEF SetMentorQuota, FunctionsOK
    <3>2. [task[h] EXCEPT !.withQuota = TRUE] \in Task
      BY <3>1 DEF Task
    <3> QED
      BY <2>2, <3>1, <3>2
  <2>5. ASSUME NEW h \in Handlers, NEW k \in Keys, NEW action \in AuditedActions \cup {"submitted"},
               NEW to \in Statuses, TakeUp(h, action, k, to)
        PROVE  task' \in [Handlers -> Task]
    BY <2>2, <2>5, TaskType DEF TakeUp
  <2>6. ASSUME NEW h \in Handlers, NEW k \in Keys, ClaimAPIKey(h, k)
        PROVE  task' \in [Handlers -> Task]
    <3>1. row[k].hash + 1 \in Nat
      BY <1>1 DEF FunctionsOK, Row
    <3>2. "active" \in Statuses
      BY DEF Statuses
    <3> QED
      BY <2>2, <2>6, <3>1, <3>2, TaskType DEF ClaimAPIKey, StoreSecret
  <2>7. ASSUME NEW h \in Handlers, NEW k \in Keys, NEW action \in DOMAIN Decisions,
               ReadPending(h, k, action)
        PROVE  task' \in [Handlers -> Task]
    <3>1. action \in AuditedActions /\ Decisions[action].to \in Statuses
      BY ThreeDecisions DEF AuditedActions, Statuses
    <3> QED
      BY <2>5, <2>7, <3>1 DEF ReadPending
  <2>8. ASSUME NEW h \in Handlers, NEW k \in Keys,
               SubmitAPIKey(h, k) \/ ApproveKey(h, k) \/ RevokeKey(h, k)
        PROVE  task' \in [Handlers -> Task]
    <3>1. {"teacher_approved", "mentor_revoked"} \subseteq AuditedActions
          /\ {"pending_mentor", "approved", "revoked"} \subseteq Statuses
      BY DEF AuditedActions, Statuses
    <3> QED
      BY <2>5, <2>8, <3>1 DEF SubmitAPIKey, ApproveKey, RevokeKey
  <2> QED
    BY <2>1, <2>3, <2>4, <2>6, <2>7, <2>8
       DEF Next, Serve, vars, Answer, Decide, Commit, Publish, Abandon, UpdateKeyQuota
<1>7. handed' \in [Keys -> SUBSET Nat]
  <2>1. CASE handed' = handed
    BY <1>1, <2>1 DEF FunctionsOK
  <2>2. ASSUME NEW h \in Handlers, Answer(h)
        PROVE  handed' \in [Keys -> SUBSET Nat]
    BY <1>1, <2>2 DEF FunctionsOK, Answer
  <2> QED
    BY <2>1, <2>2 DEF Next, Serve, vars, SubmitAPIKey, ClaimAPIKey, ApproveKey, RevokeKey, UpdateKeyQuota,
                      ReadPending, SetMentorQuota, Decide, Commit, Publish, Abandon
<1> QED
  BY <1>3, <1>4, <1>5, <1>6, <1>7 DEF FunctionsOK

-------------------------------------------------------------------------------
(* What happens to a key *)

\* The only ways a key's status changes without an audit, and with one.
Unaudited == {<<"none", "pending_mentor">>, <<"approved", "active">>}
Audits    == {<<"pending_mentor", "mentor_approved", "pending_teacher">>,
              <<"pending_mentor", "mentor_rejected", "rejected">>,
              <<"pending_teacher", "teacher_rejected", "rejected">>,
              <<"pending_teacher", "teacher_approved", "approved">>,
              <<"active", "mentor_revoked", "revoked">>}

\* A statement that writes a row and leaves no audit, and one that does.
PlainStep(k) ==
    /\ audits' = audits /\ adjustments' = adjustments
    /\ <<row[k].status, row'[k].status>> \in Unaudited
    /\ row'[k].mentorQuota = row[k].mentorQuota /\ row'[k].quota = row[k].quota
    /\ row'[k].hash = IF row[k].status = "approved" THEN row[k].hash + 1 ELSE row[k].hash
    /\ \A other \in Keys \ {k} : row'[other] = row[other]
AuditStep(h, k, action) ==
    /\ adjustments' = adjustments
    /\ audits' = [audits EXCEPT ![k] = Append(@, [action |-> action, by |-> h])]
    /\ <<row[k].status, action, row'[k].status>> \in Audits
    /\ \/ row'[k].mentorQuota = row[k].mentorQuota
       \/ row'[k].mentorQuota = h /\ action = "mentor_approved"
    /\ \/ row'[k].quota = row[k].quota
       \/ row'[k].quota = h /\ action = "teacher_approved"
    /\ row'[k].hash = row[k].hash
    /\ \A other \in Keys \ {k} : row'[other] = row[other]

\* A statement that sets the quota of a key in use.
AdjustStep(h, k) ==
    /\ audits' = audits
    /\ adjustments' = [adjustments EXCEPT ![k] = Append(@, h)]
    /\ row[k].status \in {"approved", "active"}
    /\ row'[k].status = row[k].status /\ row'[k].hash = row[k].hash
    /\ row'[k].mentorQuota = row[k].mentorQuota /\ row'[k].quota = h
    /\ \A other \in Keys \ {k} : row'[other] = row[other]

\* Every step is one of these, or changes neither rows nor audits.
LEMMA RowSteps ==
    ASSUME KeyInv, [Next]_vars
    PROVE  \/ UNCHANGED <<row, audits, adjustments>>
           \/ \E k \in Keys : PlainStep(k)
           \/ \E h \in Handlers, k \in Keys : AdjustStep(h, k)
           \/ \E h \in Handlers, k \in Keys, action \in AuditedActions : AuditStep(h, k, action)
<1>1. /\ row \in [Keys -> Row] /\ LocksAreReviews /\ TasksAreDecisions
      /\ \A h \in Handlers : Key(h) \in Keys
  BY DEF KeyInv, TypeOK, Row, Key
<1>2. ASSUME NEW h \in Handlers, NEW k \in Keys, SubmitAPIKey(h, k)
      PROVE  PlainStep(k)
  BY <1>1, <1>2 DEF SubmitAPIKey, PlainStep, Unaudited, Row
<1>3. ASSUME NEW h \in Handlers, NEW k \in Keys, ClaimAPIKey(h, k)
      PROVE  PlainStep(k)
  BY <1>1, <1>3 DEF ClaimAPIKey, StoreSecret, PlainStep, Unaudited, Row
<1>4. ASSUME NEW h \in Handlers, NEW k \in Keys, ApproveKey(h, k)
      PROVE  AuditStep(h, k, "teacher_approved") /\ "teacher_approved" \in AuditedActions
  BY <1>1, <1>4 DEF ApproveKey, Audited, AuditStep, Audits, Row, AuditedActions
<1>5. ASSUME NEW h \in Handlers, NEW k \in Keys, RevokeKey(h, k)
      PROVE  AuditStep(h, k, "mentor_revoked") /\ "mentor_revoked" \in AuditedActions
  BY <1>1, <1>5 DEF RevokeKey, Audited, AuditStep, Audits, Row, AuditedActions
<1>6. ASSUME NEW h \in Handlers, NEW k \in Keys, UpdateKeyQuota(h, k)
      PROVE  AdjustStep(h, k)
  BY <1>1, <1>6 DEF UpdateKeyQuota, AdjustStep, Row
<1>7. ASSUME NEW h \in Handlers, Commit(h)
      PROVE  AuditStep(h, Key(h), task[h].action) /\ task[h].action \in AuditedActions
  <2> DEFINE k == Key(h)
             a == task[h].action
  <2>1. /\ k \in Keys /\ row[k] \in Row /\ step[h] = "commit"
        /\ row' = [row EXCEPT ![k] = [row[k] EXCEPT !.status = task[h].to,
                !.mentorQuota = IF task[h].withQuota THEN h ELSE row[k].mentorQuota]]
        /\ adjustments' = adjustments
        /\ audits' = [audits EXCEPT ![k] = Append(@, [action |-> a, by |-> h])]
    BY <1>1, <1>7 DEF Commit, Audited
  <2>2. /\ a \in {"mentor_approved", "mentor_rejected", "teacher_rejected"}
        /\ task[h].to = Decisions[a].to /\ row[k].status = Decisions[a].from
        /\ task[h].withQuota => a = "mentor_approved"
    BY <1>1, <2>1 DEF TasksAreDecisions, LocksAreReviews
  <2>3. <<row[k].status, a, task[h].to>> \in Audits
    BY <2>2, ThreeDecisions DEF Audits
  <2>4. a \in AuditedActions
    BY <2>2 DEF AuditedActions
  <2> HIDE DEF k, a
  <2>5. /\ row'[k].status = task[h].to /\ row'[k].quota = row[k].quota /\ row'[k].hash = row[k].hash
        /\ row'[k].mentorQuota = IF task[h].withQuota THEN h ELSE row[k].mentorQuota
        /\ \A other \in Keys \ {k} : row'[other] = row[other]
    BY <1>1, <2>1 DEF Row
  <2>6. AuditStep(h, k, a)
    BY <2>1, <2>2, <2>3, <2>5 DEF AuditStep
  <2> QED
    BY <2>4, <2>6 DEF k, a
<1> QED
  BY <1>1, <1>2, <1>3, <1>4, <1>5, <1>6, <1>7
     DEF Next, Serve, vars, Answer, ReadPending, SetMentorQuota, Decide, Publish, Abandon

\* No request changes the type of anything.
LEMMA TypeStep ==
    ASSUME KeyInv, [Next]_vars
    PROVE  TypeOK'
<1>1. FunctionsOK'
  BY FunctionsStep
<1>2. audits' \in [Keys -> Seq([action : AuditedActions, by : Handlers])]
  <2>1. audits \in [Keys -> Seq([action : AuditedActions, by : Handlers])]
    BY DEF KeyInv, TypeOK
  <2>2. ASSUME NEW h \in Handlers, NEW k \in Keys, NEW action \in AuditedActions,
               AuditStep(h, k, action)
        PROVE  audits' \in [Keys -> Seq([action : AuditedActions, by : Handlers])]
    <3> DEFINE A == [action : AuditedActions, by : Handlers]
               a == [action |-> action, by |-> h]
    <3>1. a \in A /\ audits[k] \in Seq(A)
      BY <2>1
    <3>2. Append(audits[k], a) \in Seq(A)
      BY <3>1, AppendProperties
    <3> HIDE DEF a, A
    <3>3. audits' = [audits EXCEPT ![k] = Append(audits[k], a)] /\ audits \in [Keys -> Seq(A)]
      BY <2>1, <2>2 DEF AuditStep, a, A
    <3> QED
      BY <3>2, <3>3 DEF A
  <2> QED
    BY <2>1, <2>2, RowSteps DEF PlainStep, AdjustStep
<1>3. adjustments' \in [Keys -> Seq(Handlers)]
  <2>1. adjustments \in [Keys -> Seq(Handlers)]
    BY DEF KeyInv, TypeOK
  <2>2. ASSUME NEW h \in Handlers, NEW k \in Keys, AdjustStep(h, k)
        PROVE  adjustments' \in [Keys -> Seq(Handlers)]
    <3>1. Append(adjustments[k], h) \in Seq(Handlers)
      BY <2>1, AppendProperties
    <3> QED
      BY <2>1, <2>2, <3>1 DEF AdjustStep
  <2> QED
    BY <2>1, <2>2, RowSteps DEF PlainStep, AuditStep
<1>4. stream' \in Seq([key : Keys \cup {NoKey}, status : Statuses])
  <2>1. stream \in Seq([key : Keys \cup {NoKey}, status : Statuses])
        /\ \A h \in Handlers : Key(h) \in Keys /\ task[h].to \in Statuses
    BY DEF KeyInv, TypeOK, Key
  <2>2. ASSUME NEW h \in Handlers, Publish(h)
        PROVE  stream' \in Seq([key : Keys \cup {NoKey}, status : Statuses])
    <3> DEFINE E == [key : Keys \cup {NoKey}, status : Statuses]
               e == [key |-> Key(h), status |-> task[h].to]
    <3>1. e \in E /\ stream \in Seq(E)
      BY <2>1
    <3>2. Append(stream, e) \in Seq(E)
      BY <3>1, AppendProperties
    <3> HIDE DEF E
    <3> QED
      BY <2>2, <3>1, <3>2 DEF Publish, E
  <2> QED
    BY <2>1, <2>2 DEF Next, Serve, vars, SubmitAPIKey, ClaimAPIKey, ApproveKey, RevokeKey, UpdateKeyQuota, Answer,
                      ReadPending, SetMentorQuota, Decide, Commit, Abandon
<1> QED
  BY <1>1, <1>2, <1>3, <1>4 DEF TypeOK, FunctionsOK, Row, Task

-------------------------------------------------------------------------------
(* The audits tell the status *)

\* What Append makes of a short tuple.
LEMMA AppendTuples ==
    ASSUME NEW S, NEW a \in S, NEW b \in S, NEW c \in S
    PROVE  /\ Append(<<>>, a) = <<a>>
           /\ Append(<<a>>, b) = <<a, b>>
           /\ Append(<<a, b>>, c) = <<a, b, c>>
<1>1. Append(<<>>, a) = <<a>>
  OBVIOUS
<1>2. Append(<<a>>, b) = <<a, b>>
  <2>1. <<a>> \in Seq(S) /\ Len(<<a>>) = 1 /\ <<a, b>> \in Seq(S) /\ Len(<<a, b>>) = 2
    OBVIOUS
  <2>2. Append(<<a>>, b) \in Seq(S) /\ Len(Append(<<a>>, b)) = 2
    BY <2>1, AppendProperties
  <2>3. \A i \in 1..2 : Append(<<a>>, b)[i] = <<a, b>>[i]
    BY <2>1
  <2> QED
    BY <2>1, <2>2, <2>3, SeqEqual
<1>3. Append(<<a, b>>, c) = <<a, b, c>>
  <2>1. /\ <<a, b>> \in Seq(S) /\ Len(<<a, b>>) = 2
        /\ <<a, b, c>> \in Seq(S) /\ Len(<<a, b, c>>) = 3
    OBVIOUS
  <2>2. Append(<<a, b>>, c) \in Seq(S) /\ Len(Append(<<a, b>>, c)) = 3
    BY <2>1, AppendProperties
  <2>3. \A i \in 1..3 : Append(<<a, b>>, c)[i] = <<a, b, c>>[i]
    BY <2>1
  <2> QED
    BY <2>1, <2>2, <2>3, SeqEqual
<1> QED
  BY <1>1, <1>2, <1>3

\* Every way to a status, and one audit more, is a way to the next.
LEMMA StoryGrows ==
    /\ \A s, t : <<s, t>> \in Unaudited => s \in DOMAIN Story /\ t \in DOMAIN Story
                                            /\ Story[s] \subseteq Story[t]
    /\ \A s, a, t : <<s, a, t>> \in Audits =>
            \A x \in Story[s] : Append(x, a) \in Story[t]
<1>1. /\ Append(<<>>, "mentor_approved") = <<"mentor_approved">>
      /\ Append(<<>>, "mentor_rejected") = <<"mentor_rejected">>
      /\ Append(<<"mentor_approved">>, "teacher_rejected") = <<"mentor_approved", "teacher_rejected">>
      /\ Append(<<"mentor_approved">>, "teacher_approved") = <<"mentor_approved", "teacher_approved">>
      /\ Append(<<"mentor_approved", "teacher_approved">>, "mentor_revoked")
            = <<"mentor_approved", "teacher_approved", "mentor_revoked">>
  <2>1. /\ "mentor_approved" \in AuditedActions /\ "mentor_rejected" \in AuditedActions
        /\ "teacher_rejected" \in AuditedActions /\ "teacher_approved" \in AuditedActions
        /\ "mentor_revoked" \in AuditedActions
    BY DEF AuditedActions
  <2> QED
    BY <2>1, AppendTuples
<1>2. /\ Story["none"] = {<<>>} /\ Story["pending_mentor"] = {<<>>}
      /\ Story["pending_teacher"] = {<<"mentor_approved">>}
      /\ Story["approved"] = {<<"mentor_approved", "teacher_approved">>}
      /\ Story["active"] = {<<"mentor_approved", "teacher_approved">>}
      /\ Story["rejected"] = {<<"mentor_rejected">>, <<"mentor_approved", "teacher_rejected">>}
      /\ Story["revoked"] = {<<"mentor_approved", "teacher_approved", "mentor_revoked">>}
  BY DEF Story
<1>3. {"none", "pending_mentor", "approved", "active"} \subseteq DOMAIN Story
  BY DEF Story
<1> QED
  BY <1>1, <1>2, <1>3 DEF Unaudited, Audits

\* An audit's action is the last of its key's.
LEMMA ActionsGrow ==
    ASSUME KeyInv, NEW h \in Handlers, NEW k \in Keys, NEW action \in AuditedActions,
           AuditStep(h, k, action)
    PROVE  /\ Actions(k)' = Append(Actions(k), action)
           /\ \A other \in Keys \ {k} : Actions(other)' = Actions(other)
<1> DEFINE A == [action : AuditedActions, by : Handlers]
           a == [action |-> action, by |-> h]
<1>1. a \in A /\ audits \in [Keys -> Seq(A)] /\ audits[k] \in Seq(A)
  BY DEF KeyInv, TypeOK
<1>2. audits' = [audits EXCEPT ![k] = Append(audits[k], a)]
  BY DEF AuditStep
<1>3. a.action = action
  OBVIOUS
<1> HIDE DEF A, a
<1>4. audits'[k] = Append(audits[k], a) /\ \A other \in Keys \ {k} : audits'[other] = audits[other]
  BY <1>1, <1>2
<1>5. /\ Len(Append(audits[k], a)) = Len(audits[k]) + 1
      /\ \A i \in 1..Len(audits[k]) : Append(audits[k], a)[i] = audits[k][i]
      /\ Append(audits[k], a)[Len(audits[k]) + 1] = a
      /\ Append(audits[k], a) \in Seq(A)
  BY <1>1, AppendProperties
<1>6. Actions(k)' = [i \in 1..(Len(audits[k]) + 1) |-> Append(audits[k], a)[i].action]
  <2>1. DOMAIN Append(audits[k], a) = 1..(Len(audits[k]) + 1)
    BY <1>1, <1>5
  <2> QED
    BY <1>4, <2>1 DEF Actions
<1>7. Actions(k) = [i \in 1..Len(audits[k]) |-> audits[k][i].action] /\ Len(audits[k]) \in Nat
  BY <1>1 DEF Actions
<1>8. Actions(k) \in Seq(AuditedActions) /\ Len(Actions(k)) = Len(audits[k])
  <2>1. ASSUME NEW i \in 1..Len(audits[k])
        PROVE  audits[k][i].action \in AuditedActions
    <3>1. audits[k][i] \in A
      BY <1>1, ElementOfSeq
    <3> QED
      BY <3>1 DEF A
  <2> QED
    BY <1>7, <2>1
<1>9. /\ Append(Actions(k), action) \in Seq(AuditedActions)
      /\ Len(Append(Actions(k), action)) = Len(audits[k]) + 1
      /\ \A i \in 1..Len(audits[k]) : Append(Actions(k), action)[i] = audits[k][i].action
      /\ Append(Actions(k), action)[Len(audits[k]) + 1] = action
  BY <1>7, <1>8, AppendProperties
<1>10. Actions(k)' = Append(Actions(k), action)
  <2>1. ASSUME NEW i \in 1..(Len(audits[k]) + 1)
        PROVE  Actions(k)'[i] = Append(Actions(k), action)[i]
    <3>1. CASE i = Len(audits[k]) + 1
      BY <1>3, <1>5, <1>6, <1>9, <3>1
    <3>2. CASE i \in 1..Len(audits[k])
      BY <1>5, <1>6, <1>9, <3>2
    <3> QED
      BY <1>7, <3>1, <3>2
  <2>2. Append(Actions(k), action) \in [1..(Len(audits[k]) + 1) -> AuditedActions]
    BY <1>9, LenProperties
  <2>3. DOMAIN Actions(k)' = 1..(Len(audits[k]) + 1) /\ Actions(k)' = [i \in DOMAIN Actions(k)' |-> Actions(k)'[i]]
    BY <1>6
  <2> QED
    BY <2>1, <2>2, <2>3
<1> QED
  BY <1>4, <1>10 DEF Actions

\* Every step leaves a key's audits one of the ways to its status.
LEMMA AuditsStep ==
    ASSUME KeyInv, [Next]_vars
    PROVE  AuditsTellStatus'
<1>1. AuditsTellStatus
  BY DEF KeyInv
<1>2. CASE UNCHANGED <<row, audits>>
  BY <1>1, <1>2 DEF AuditsTellStatus, Actions
<1>3. ASSUME NEW h \in Handlers, NEW k \in Keys, AdjustStep(h, k)
      PROVE  AuditsTellStatus'
  BY <1>1, <1>3 DEF AdjustStep, AuditsTellStatus, Actions
<1>4. ASSUME NEW k \in Keys, PlainStep(k)
      PROVE  AuditsTellStatus'
  <2>1. Story[row[k].status] \subseteq Story[row'[k].status]
    BY <1>4, StoryGrows DEF PlainStep
  <2> QED
    BY <1>1, <1>4, <2>1 DEF PlainStep, AuditsTellStatus, Actions
<1>5. ASSUME NEW h \in Handlers, NEW k \in Keys, NEW action \in AuditedActions,
             AuditStep(h, k, action)
      PROVE  AuditsTellStatus'
  <2>1. Append(Actions(k), action) \in Story[row'[k].status]
    BY <1>1, <1>5, StoryGrows DEF AuditStep, AuditsTellStatus
  <2>2. /\ Actions(k)' = Append(Actions(k), action)
        /\ \A other \in Keys \ {k} : Actions(other)' = Actions(other) /\ row'[other] = row[other]
    BY <1>5, ActionsGrow DEF AuditStep
  <2> QED
    BY <1>1, <2>1, <2>2 DEF AuditsTellStatus
<1> QED
  BY <1>2, <1>4, <1>5, <1>3, RowSteps

-------------------------------------------------------------------------------
(* Quotas, secrets and events *)

\* An audit is not lost, and the new one is there.
LEMMA AuditsStay ==
    ASSUME KeyInv, NEW h \in Handlers, NEW k \in Keys, NEW action \in AuditedActions,
           AuditStep(h, k, action)
    PROVE  /\ IsAudited(k, action, h)'
           /\ \A x \in Keys : \A a, g : IsAudited(x, a, g) => IsAudited(x, a, g)'
<1> DEFINE A == [action : AuditedActions, by : Handlers]
           new == [action |-> action, by |-> h]
<1>1. new \in A /\ audits \in [Keys -> Seq(A)] /\ audits[k] \in Seq(A)
  BY DEF KeyInv, TypeOK
<1>2. audits' = [audits EXCEPT ![k] = Append(audits[k], new)]
  BY DEF AuditStep
<1> HIDE DEF A
<1>3. /\ Len(audits[k]) \in Nat /\ DOMAIN audits[k] = 1..Len(audits[k])
      /\ \A i \in 1..Len(audits[k]) : Append(audits[k], new)[i] = audits[k][i]
      /\ Append(audits[k], new)[Len(audits[k]) + 1] = new
      /\ DOMAIN Append(audits[k], new) = 1..(Len(audits[k]) + 1)
  BY <1>1, AppendProperties, LenProperties
<1>4. audits'[k] = Append(audits[k], new) /\ \A x \in Keys \ {k} : audits'[x] = audits[x]
  BY <1>1, <1>2
<1>5. IsAudited(k, action, h)'
  <2>1. Len(audits[k]) + 1 \in DOMAIN audits'[k] /\ audits'[k][Len(audits[k]) + 1] = new
    BY <1>3, <1>4
  <2> QED
    BY <2>1 DEF IsAudited
<1>6. ASSUME NEW x \in Keys, NEW a, NEW g, IsAudited(x, a, g)
      PROVE  IsAudited(x, a, g)'
  <2>1. CASE x # k
    BY <1>4, <1>6, <2>1 DEF IsAudited
  <2>2. CASE x = k
    <3>1. PICK i \in DOMAIN audits[k] : audits[k][i] = [action |-> a, by |-> g]
      BY <1>6, <2>2 DEF IsAudited
    <3>2. i \in DOMAIN audits'[k] /\ audits'[k][i] = [action |-> a, by |-> g]
      BY <1>3, <1>4, <3>1
    <3> QED
      BY <2>2, <3>2 DEF IsAudited
  <2> QED
    BY <2>1, <2>2
<1> QED
  BY <1>5, <1>6

\* Before a teacher's approval there is no audit of one, and from then on there is.
LEMMA TeacherApproves ==
    ASSUME KeyInv, NEW k \in Keys
    PROVE  /\ row[k].status = "pending_teacher" =>
                  \A h \in Handlers : ~IsAudited(k, "teacher_approved", h)
           /\ row[k].status \in {"approved", "active"} =>
                  \E h \in Handlers : IsAudited(k, "teacher_approved", h)
<1>1. /\ audits[k] \in Seq([action : AuditedActions, by : Handlers])
      /\ Actions(k) \in Story[row[k].status]
  BY DEF KeyInv, TypeOK, AuditsTellStatus
<1>2. /\ Len(audits[k]) \in Nat /\ DOMAIN audits[k] = 1..Len(audits[k])
      /\ Actions(k) = [i \in 1..Len(audits[k]) |-> audits[k][i].action]
      /\ \A i \in 1..Len(audits[k]) : audits[k][i] \in [action : AuditedActions, by : Handlers]
  BY <1>1, LenProperties, ElementOfSeq DEF Actions
<1>3. CASE row[k].status = "pending_teacher"
  <2>1. Actions(k) = <<"mentor_approved">>
    BY <1>1, <1>3 DEF Story
  <2>2. \A i \in 1..Len(audits[k]) : i = 1 /\ audits[k][i].action = "mentor_approved"
    <3>1. DOMAIN Actions(k) = 1..1 /\ Actions(k)[1] = "mentor_approved"
      BY <2>1
    <3>2. 1..Len(audits[k]) = 1..1
      BY <1>2, <3>1
    <3> QED
      BY <1>2, <3>1, <3>2
  <2> QED
    BY <1>2, <1>3, <2>2 DEF IsAudited
<1>4. CASE row[k].status \in {"approved", "active"}
  <2>1. Actions(k) = <<"mentor_approved", "teacher_approved">>
    BY <1>1, <1>4 DEF Story
  <2>2. 2 \in 1..Len(audits[k]) /\ audits[k][2].action = "teacher_approved"
    <3>1. DOMAIN Actions(k) = 1..2 /\ Actions(k)[2] = "teacher_approved"
      BY <2>1
    <3>2. 1..Len(audits[k]) = 1..2
      BY <1>2, <3>1
    <3> QED
      BY <1>2, <3>1, <3>2
  <2> DEFINE h == audits[k][2].by
  <2>3. h \in Handlers /\ audits[k][2] = [action |-> "teacher_approved", by |-> h]
    BY <1>2, <2>2
  <2> QED
    BY <1>2, <1>4, <2>2, <2>3 DEF IsAudited
<1> QED
  BY <1>3, <1>4

\* A quota is stored with the audit of who decided it, or with the record of who set it since.
LEMMA QuotasStep ==
    ASSUME KeyInv, [Next]_vars
    PROVE  QuotasAreDecided'
<1>1. QuotasAreDecided /\ adjustments \in [Keys -> Seq(Handlers)]
  BY DEF KeyInv, TypeOK
<1>2. CASE UNCHANGED <<row, audits, adjustments>>
  BY <1>1, <1>2 DEF QuotasAreDecided, IsAudited
<1>3. ASSUME NEW k \in Keys, PlainStep(k)
      PROVE  QuotasAreDecided'
  <2>1. /\ audits' = audits /\ adjustments' = adjustments
        /\ \A x \in Keys : /\ row'[x].mentorQuota = row[x].mentorQuota
                           /\ row'[x].quota = row[x].quota
    BY <1>3 DEF PlainStep
  <2> QED
    BY <1>1, <2>1 DEF QuotasAreDecided, IsAudited
<1>4. ASSUME NEW h \in Handlers, NEW k \in Keys, NEW action \in AuditedActions,
             AuditStep(h, k, action)
      PROVE  QuotasAreDecided'
  <2>1. /\ IsAudited(k, action, h)'
        /\ \A x \in Keys : \A a, g : IsAudited(x, a, g) => IsAudited(x, a, g)'
    BY <1>4, AuditsStay
  <2>2. /\ adjustments' = adjustments
        /\ \A x \in Keys \ {k} : row'[x] = row[x]
        /\ \/ row'[k].mentorQuota = row[k].mentorQuota
           \/ row'[k].mentorQuota = h /\ action = "mentor_approved"
        /\ \/ row'[k].quota = row[k].quota
           \/ row'[k].quota = h /\ action = "teacher_approved"
    BY <1>4 DEF AuditStep
  <2>3. action = "teacher_approved" => adjustments[k] = <<>>
    <3>1. action = "teacher_approved" => row[k].status = "pending_teacher"
      BY <1>4 DEF AuditStep, Audits
    <3> QED
      BY <1>1, <3>1, TeacherApproves DEF QuotasAreDecided
  <2>4. ASSUME NEW x \in Keys
        PROVE  /\ row'[x].mentorQuota # NoOne => IsAudited(x, "mentor_approved", row[x].mentorQuota)'
               /\ adjustments[x] = <<>> /\ row'[x].quota # NoOne =>
                     IsAudited(x, "teacher_approved", row[x].quota)'
               /\ adjustments[x] # <<>> =>
                     /\ \E g \in Handlers : IsAudited(x, "teacher_approved", g)'
                     /\ row'[x].quota = adjustments[x][Len(adjustments[x])]
    <3>1. /\ row[x].mentorQuota # NoOne => IsAudited(x, "mentor_approved", row[x].mentorQuota)
          /\ adjustments[x] = <<>> /\ row[x].quota # NoOne =>
                IsAudited(x, "teacher_approved", row[x].quota)
          /\ adjustments[x] # <<>> =>
                /\ \E g \in Handlers : IsAudited(x, "teacher_approved", g)
                /\ row[x].quota = adjustments[x][Len(adjustments[x])]
      BY <1>1 DEF QuotasAreDecided
    <3>2. row'[x].mentorQuota # NoOne => IsAudited(x, "mentor_approved", row[x].mentorQuota)'
      BY <2>1, <2>2, <3>1 DEF IsAudited
    <3>3. adjustments[x] = <<>> /\ row'[x].quota # NoOne =>
                IsAudited(x, "teacher_approved", row[x].quota)'
      BY <2>1, <2>2, <3>1 DEF IsAudited
    <3>4. adjustments[x] # <<>> => row'[x].quota = row[x].quota
      BY <2>2, <2>3
    <3> QED
      BY <2>1, <3>1, <3>2, <3>3, <3>4
  <2> QED
    BY <2>2, <2>4 DEF QuotasAreDecided, IsAudited
<1>5. ASSUME NEW h \in Handlers, NEW k \in Keys, AdjustStep(h, k)
      PROVE  QuotasAreDecided'
  <2>1. /\ audits' = audits /\ adjustments' = [adjustments EXCEPT ![k] = Append(adjustments[k], h)]
        /\ row'[k].mentorQuota = row[k].mentorQuota /\ row'[k].quota = h
        /\ \A x \in Keys \ {k} : row'[x] = row[x]
    BY <1>5 DEF AdjustStep
  <2>2. \E g \in Handlers : IsAudited(k, "teacher_approved", g)
    BY <1>5, TeacherApproves DEF AdjustStep
  <2>3. adjustments'[k] # <<>> /\ adjustments'[k][Len(adjustments'[k])] = h
    <3>1. adjustments[k] \in Seq(Handlers) /\ adjustments'[k] = Append(adjustments[k], h)
      BY <1>1, <2>1
    <3> QED
      BY <3>1, AppendProperties
  <2>4. \A x \in Keys \ {k} : adjustments'[x] = adjustments[x]
    BY <1>1, <2>1
  <2>5. ASSUME NEW x \in Keys
        PROVE  /\ row'[x].mentorQuota # NoOne => IsAudited(x, "mentor_approved", row'[x].mentorQuota)
               /\ adjustments'[x] = <<>> /\ row'[x].quota # NoOne =>
                     IsAudited(x, "teacher_approved", row'[x].quota)
               /\ adjustments'[x] # <<>> =>
                     /\ \E g \in Handlers : IsAudited(x, "teacher_approved", g)
                     /\ row'[x].quota = adjustments'[x][Len(adjustments'[x])]
    <3>1. CASE x = k
      BY <1>1, <2>1, <2>2, <2>3, <3>1 DEF QuotasAreDecided
    <3>2. CASE x # k
      BY <1>1, <2>1, <2>4, <3>2 DEF QuotasAreDecided
    <3> QED
      BY <3>1, <3>2
  <2>6. audits' = audits
    BY <2>1
  <2> QED
    BY <2>5, <2>6, Zenon DEF QuotasAreDecided, IsAudited
<1> QED
  BY <1>2, <1>3, <1>4, <1>5, RowSteps

\* Who has claimed goes on with its claim, and only a claim begins one.
LEMMA ClaimsGoOn ==
    ASSUME KeyInv, [Next]_vars, NEW h \in Handlers, task'[h].action = "claimed"
    PROVE  \/ task'[h] = task[h]
           \/ \E k \in Keys : ClaimAPIKey(h, k)
<1>1. task \in [Handlers -> Task] /\ TasksAreDecisions
  BY DEF KeyInv, TypeOK, Task
<1>2. NoTask \in Task /\ NoTask.action = "none"
  BY NoTaskFields
<1>3. ASSUME NEW g \in Handlers, NEW action, NEW k, NEW to, TakeUp(g, action, k, to),
             action # "claimed"
      PROVE  task'[h] = task[h]
  BY <1>1, <1>2, <1>3 DEF TakeUp, Task
<1>4. ASSUME NEW g \in Handlers, Done(g)
      PROVE  task'[h] = task[h]
  BY <1>1, <1>2, <1>4 DEF Done
<1>5. ASSUME NEW g \in Handlers, SetMentorQuota(g)
      PROVE  task'[h] = task[h]
  <2>1. task[g].action = "mentor_approved"
    BY <1>1, <1>5 DEF SetMentorQuota, TasksAreDecisions
  <2> QED
    BY <1>1, <1>5, <2>1 DEF SetMentorQuota, Task
<1>6. ASSUME NEW g \in Handlers \ {h}, NEW k \in Keys, ClaimAPIKey(g, k)
      PROVE  task'[h] = task[h]
  BY <1>1, <1>6 DEF ClaimAPIKey, StoreSecret
<1>7. ASSUME NEW g \in Handlers, NEW k \in Keys, NEW action \in DOMAIN Decisions,
             ReadPending(g, k, action)
      PROVE  task'[h] = task[h]
  BY <1>3, <1>7, ThreeDecisions DEF ReadPending
<1>8. ASSUME NEW g \in Handlers, NEW k \in Keys,
             SubmitAPIKey(g, k) \/ ApproveKey(g, k) \/ RevokeKey(g, k)
      PROVE  task'[h] = task[h]
  BY <1>3, <1>8 DEF SubmitAPIKey, ApproveKey, RevokeKey
<1> QED
  BY <1>4, <1>5, <1>6, <1>7, <1>8
     DEF Next, Serve, vars, Answer, Decide, Commit, Publish, Abandon, UpdateKeyQuota

\* A key's secret is stored once, and who has stored it knows it.
LEMMA SecretsStep ==
    ASSUME KeyInv, [Next]_vars
    PROVE  /\ SecretsAreClaimed'
           /\ \A k \in Keys : row[k].hash = 1 => row'[k].hash = 1
<1>1. SecretsAreClaimed /\ row \in [Keys -> Row] /\ task \in [Handlers -> Task]
  BY DEF KeyInv, TypeOK, Row, Task
<1>2. \A k \in Keys : /\ row'[k].hash = IF row'[k].status \in {"active", "revoked"} THEN 1 ELSE 0
                      /\ row[k].hash = 1 => row'[k].hash = 1
  <2>1. CASE UNCHANGED <<row, audits>>
    BY <1>1, <2>1 DEF SecretsAreClaimed
  <2>2. ASSUME NEW h \in Handlers, NEW k \in Keys, AdjustStep(h, k)
        PROVE  /\ row'[k].hash = IF row'[k].status \in {"active", "revoked"} THEN 1 ELSE 0
               /\ row[k].hash = 1 => row'[k].hash = 1
    BY <1>1, <2>2 DEF AdjustStep, SecretsAreClaimed
  <2>3. ASSUME NEW k \in Keys, PlainStep(k)
        PROVE  /\ row'[k].hash = IF row'[k].status \in {"active", "revoked"} THEN 1 ELSE 0
               /\ row[k].hash = 1 => row'[k].hash = 1
    BY <1>1, <2>3 DEF PlainStep, Unaudited, SecretsAreClaimed
  <2>4. ASSUME NEW h \in Handlers, NEW k \in Keys, NEW action \in AuditedActions,
               AuditStep(h, k, action)
        PROVE  /\ row'[k].hash = IF row'[k].status \in {"active", "revoked"} THEN 1 ELSE 0
               /\ row[k].hash = 1 => row'[k].hash = 1
    BY <1>1, <2>4 DEF AuditStep, Audits, SecretsAreClaimed
  <2>5. ASSUME NEW k \in Keys, row'[k] = row[k]
        PROVE  /\ row'[k].hash = IF row'[k].status \in {"active", "revoked"} THEN 1 ELSE 0
               /\ row[k].hash = 1 => row'[k].hash = 1
    BY <1>1, <2>5 DEF SecretsAreClaimed
  <2>6. /\ \A k \in Keys : PlainStep(k) => \A x \in Keys \ {k} : row'[x] = row[x]
        /\ \A h, k, action : AuditStep(h, k, action) => \A x \in Keys \ {k} : row'[x] = row[x]
        /\ \A h, k : AdjustStep(h, k) => \A x \in Keys \ {k} : row'[x] = row[x]
    BY DEF PlainStep, AuditStep, AdjustStep
  <2> QED
    BY <2>1, <2>3, <2>4, <2>5, <2>6, <2>2, RowSteps
<1>3. ASSUME NEW h \in Handlers, task'[h].action = "claimed"
      PROVE  row'[Key(h)'].hash = 1 /\ task'[h].secret = 1
  <2>1. CASE task'[h] = task[h]
    <3>1. Key(h)' = Key(h) /\ Key(h) \in Keys
      BY <1>1, <2>1 DEF Key, Task
    <3> QED
      BY <1>1, <1>2, <1>3, <2>1, <3>1 DEF SecretsAreClaimed
  <2>2. ASSUME NEW k \in Keys, ClaimAPIKey(h, k)
        PROVE  row'[Key(h)'].hash = 1 /\ task'[h].secret = 1
    <3>1. row[k].status = "approved" /\ row[k].hash = 0
      BY <1>1, <2>2 DEF ClaimAPIKey, SecretsAreClaimed
    <3>2. task'[h] = [NoTask EXCEPT !.action = "claimed", !.key = k, !.to = "active", !.secret = 1]
      BY <1>1, <2>2, <3>1 DEF ClaimAPIKey, StoreSecret
    <3>3. row'[k].hash = 1
      BY <1>1, <2>2, <3>1 DEF ClaimAPIKey, StoreSecret, Row
    <3>4. Key(h)' = k /\ task'[h].secret = 1
      BY <3>2, NoTaskFields DEF Key, Task
    <3> QED
      BY <3>3, <3>4
  <2> QED
    BY <1>3, <2>1, <2>2, ClaimsGoOn
<1> QED
  BY <1>2, <1>3 DEF SecretsAreClaimed, Key

\* A status that was reached stays reached: a key never goes back.
LEMMA ReachedStays ==
    ASSUME KeyInv, [Next]_vars, NEW k \in Keys, NEW s \in Statuses, Reached(k, s)
    PROVE  Reached(k, s)'
<1>1. row \in [Keys -> Row] /\ row[k].status \in Statuses
  BY DEF KeyInv, TypeOK, Row
<1>2. CASE row'[k].status = row[k].status
  BY <1>2 DEF Reached
<1>3. /\ \A x \in Keys : PlainStep(x) => \A y \in Keys \ {x} : row'[y] = row[y]
      /\ \A h, x, action : AuditStep(h, x, action) => \A y \in Keys \ {x} : row'[y] = row[y]
      /\ \A h, x : AdjustStep(h, x) => \A y \in Keys : row'[y].status = row[y].status
  BY DEF PlainStep, AuditStep, AdjustStep
<1>4. CASE PlainStep(k) \/ (\E h \in Handlers, action \in AuditedActions : AuditStep(h, k, action))
  <2>1. /\ Stage["none"] = 0 /\ Stage["pending_mentor"] = 1 /\ Stage["pending_teacher"] = 2
        /\ Stage["approved"] = 3 /\ Stage["active"] = 4
        /\ Stage["rejected"] = 5 /\ Stage["revoked"] = 5
    BY DEF Stage
  <2> DEFINE old == row[k].status
             new == row'[k].status
  <2>2. \/ old = "none" /\ new = "pending_mentor"
        \/ old = "approved" /\ new = "active"
        \/ old = "pending_mentor" /\ new \in {"pending_teacher", "rejected"}
        \/ old = "pending_teacher" /\ new \in {"approved", "rejected"}
        \/ old = "active" /\ new = "revoked"
    <3>1. CASE PlainStep(k)
      BY <3>1 DEF PlainStep, Unaudited
    <3>2. ASSUME NEW h \in Handlers, NEW action \in AuditedActions, AuditStep(h, k, action)
          PROVE  <<old, action, new>> \in Audits
      BY <3>2 DEF AuditStep
    <3> HIDE DEF old, new
    <3> QED
      BY <1>4, <3>1, <3>2 DEF Audits, PlainStep, Unaudited, old, new
  <2> HIDE DEF old, new
  <2>3. Stage[new] > Stage[old] /\ Stage[new] \in Int /\ Stage[old] \in Int
    BY <2>1, <2>2
  <2>4. Stage[s] \in Int
    BY <2>1 DEF Statuses
  <2> QED
    BY <2>3, <2>4 DEF Reached, old, new
<1> QED
  BY <1>2, <1>3, <1>4, RowSteps

\* What is about to be published has happened: the statement that made it so came first.
LEMMA TellingStep ==
    ASSUME KeyInv, [Next]_vars
    PROVE  TellingIsTrue'
<1>1. /\ TellingIsTrue /\ row \in [Keys -> Row] /\ task \in [Handlers -> Task]
      /\ \A h \in Handlers : Key(h) \in Keys /\ task[h].to \in Statuses
      /\ DOMAIN step = Handlers
  BY DEF KeyInv, TypeOK, Row, Task, Key
<1> SUFFICES ASSUME NEW h \in Handlers, step'[h] = "publish"
             PROVE  Reached(Key(h), task[h].to)'
  BY DEF TellingIsTrue
<1>2. CASE step[h] = "publish" /\ task'[h] = task[h]
  <2>1. Reached(Key(h), task[h].to)
    BY <1>1, <1>2 DEF TellingIsTrue
  <2>2. PICK k \in Keys, s \in Statuses : k = Key(h) /\ s = task[h].to
    BY <1>1
  <2>3. Reached(k, s)'
    BY <2>1, <2>2, ReachedStays
  <2> QED
    BY <1>2, <2>2, <2>3 DEF Reached, Key
<1>3. ASSUME NEW k \in Keys, NEW to, row'[k].status = to, task'[h].key = k, task'[h].to = to
      PROVE  Reached(Key(h), task[h].to)'
  BY <1>3 DEF Reached, Key
<1>4. ASSUME NEW k \in Keys, SubmitAPIKey(h, k) \/ ClaimAPIKey(h, k) \/ ApproveKey(h, k) \/ RevokeKey(h, k)
      PROVE  \E to : row'[k].status = to /\ task'[h].key = k /\ task'[h].to = to
  <2>1. NoTask \in Task
    BY NoTaskFields
  <2>2. CASE SubmitAPIKey(h, k)
    BY <1>1, <2>1, <2>2 DEF SubmitAPIKey, TakeUp, Row, Task
  <2>3. CASE ClaimAPIKey(h, k)
    BY <1>1, <2>1, <2>3 DEF ClaimAPIKey, StoreSecret, Row, Task
  <2>4. CASE ApproveKey(h, k)
    BY <1>1, <2>1, <2>4 DEF ApproveKey, TakeUp, Row, Task
  <2>5. CASE RevokeKey(h, k)
    BY <1>1, <2>1, <2>5 DEF RevokeKey, TakeUp, Row, Task
  <2> QED
    BY <1>4, <2>2, <2>3, <2>4, <2>5
<1>5. ASSUME Commit(h)
      PROVE  row'[Key(h)].status = task[h].to /\ task' = task
  BY <1>1, <1>5 DEF Commit, Row
<1>6. ASSUME NEW g \in Handlers \ {h},
             \/ Answer(g) \/ SetMentorQuota(g) \/ Decide(g) \/ Commit(g) \/ Publish(g) \/ Abandon(g)
             \/ \E k \in Keys : \/ SubmitAPIKey(g, k) \/ ClaimAPIKey(g, k)
                                \/ ApproveKey(g, k) \/ RevokeKey(g, k)
             \/ \E k \in Keys, action \in DOMAIN Decisions : ReadPending(g, k, action)
      PROVE  step'[h] = step[h] /\ task'[h] = task[h]
  BY <1>1, <1>6 DEF Answer, SetMentorQuota, Decide, Commit, Publish, Abandon, SubmitAPIKey,
                    ClaimAPIKey, StoreSecret, ApproveKey, RevokeKey, ReadPending, TakeUp, To, Done
<1>7. ASSUME \/ Answer(h) \/ SetMentorQuota(h) \/ Decide(h) \/ Publish(h) \/ Abandon(h)
             \/ \E k \in Keys, action \in DOMAIN Decisions : ReadPending(h, k, action)
      PROVE  FALSE
  BY <1>1, <1>7 DEF Answer, SetMentorQuota, Decide, Publish, Abandon, ReadPending, To
<1>8. ASSUME NEW g \in Handlers, NEW k \in Keys, UpdateKeyQuota(g, k)
      PROVE  step' = step /\ task' = task
  BY <1>8 DEF UpdateKeyQuota
<1> QED
  BY <1>1, <1>2, <1>3, <1>4, <1>5, <1>6, <1>7, <1>8 DEF Next, Serve, vars, Key

\* Every event tells of something that has happened.
LEMMA EventsStep ==
    ASSUME KeyInv, [Next]_vars
    PROVE  EventsFollowCommits'
<1> DEFINE E == [key : Keys \cup {NoKey}, status : Statuses]
<1>1. /\ stream \in Seq(E)
      /\ \A i \in DOMAIN stream : \A k \in Keys :
            stream[i].key = k => Reached(k, stream[i].status)
      /\ \A h \in Handlers : /\ Key(h) \in Keys /\ task[h].to \in Statuses
                             /\ step[h] = "publish" => Reached(Key(h), task[h].to)
  BY DEF KeyInv, TypeOK, EventsFollowCommits, TellingIsTrue, Reached, Key
<1>2. ASSUME NEW i \in DOMAIN stream, NEW k \in Keys, stream[i].key = k
      PROVE  \/ row'[k].status = stream[i].status
             \/ Stage[row'[k].status] > Stage[stream[i].status]
  <2>1. stream[i] \in E
    BY <1>1, ElementOfSeq, LenProperties
  <2>2. PICK s \in Statuses : s = stream[i].status
    BY <2>1
  <2>3. Reached(k, s)'
    BY <1>1, <1>2, <2>2, ReachedStays
  <2> QED
    BY <2>2, <2>3 DEF Reached
<1>3. ASSUME stream' = stream
      PROVE  EventsFollowCommits'
  BY <1>2, <1>3 DEF EventsFollowCommits, Reached
<1>4. ASSUME NEW h \in Handlers, Publish(h), stream' # stream
      PROVE  EventsFollowCommits'
  <2> DEFINE e == [key |-> Key(h), status |-> task[h].to]
  <2>1. e \in E /\ stream' = Append(stream, e) /\ row' = row
        /\ Reached(Key(h), task[h].to)
    BY <1>1, <1>4 DEF Publish
  <2>2. \A k \in Keys : e.key = k => Reached(k, e.status)
    BY <2>1
  <2> HIDE DEF e, E
  <2>3. /\ DOMAIN stream' = 1..(Len(stream) + 1) /\ DOMAIN stream = 1..Len(stream)
        /\ \A i \in 1..Len(stream) : stream'[i] = stream[i]
        /\ stream'[Len(stream) + 1] = e /\ Len(stream) \in Nat
    BY <1>1, <2>1, AppendProperties, LenProperties
  <2>4. \A i \in DOMAIN stream' : stream'[i] = e \/ (i \in DOMAIN stream /\ stream'[i] = stream[i])
    BY <2>3
  <2>5. \A i \in DOMAIN stream' : \A k \in Keys :
            stream'[i].key = k => Reached(k, stream'[i].status)
    BY <1>1, <2>2, <2>4
  <2> QED
    BY <2>1, <2>5 DEF EventsFollowCommits, Reached
<1> QED
  BY <1>3, <1>4 DEF Next, Serve, vars, SubmitAPIKey, ClaimAPIKey, ApproveKey, RevokeKey, UpdateKeyQuota, Answer,
                    ReadPending, SetMentorQuota, Decide, Commit, Abandon

\* What is handed out is the secret of a key that has one.
LEMMA HandedStep ==
    ASSUME KeyInv, [Next]_vars
    PROVE  HandedOnce'
<1>1. /\ HandedOnce /\ TasksAreDecisions /\ SecretsAreClaimed
      /\ handed \in [Keys -> SUBSET Nat] /\ \A h \in Handlers : Key(h) \in Keys
  BY DEF KeyInv, HandedOnce, TypeOK, Key
<1>2. \A k \in Keys : row[k].hash = 1 => row'[k].hash = 1
  BY SecretsStep
<1>3. CASE handed' = handed
  BY <1>1, <1>2, <1>3 DEF HandedOnce
<1>4. ASSUME NEW h \in Handlers, Answer(h)
      PROVE  HandedOnce'
  <2>1. /\ task[h].secret = 1 /\ row[Key(h)].hash = 1
        /\ handed' = [handed EXCEPT ![Key(h)] = @ \cup {task[h].secret}]
    BY <1>1, <1>4 DEF Answer, TasksAreDecisions, SecretsAreClaimed
  <2> QED
    BY <1>1, <1>2, <2>1 DEF HandedOnce
<1> QED
  BY <1>3, <1>4
     DEF Next, Serve, vars, SubmitAPIKey, ClaimAPIKey, ApproveKey, RevokeKey, UpdateKeyQuota, ReadPending,
                    SetMentorQuota, Decide, Commit, Publish, Abandon

-------------------------------------------------------------------------------
(* Theorems *)

\* KeyInv holds while there is no key and no request.
LEMMA InitInv == Init => KeyInv
<1> SUFFICES ASSUME Init
             PROVE  KeyInv
  OBVIOUS
<1>1. /\ NoTask \in Task /\ NoTask.action = "none" /\ ~NoTask.withQuota
      /\ Story["none"] = {<<>>}
  BY NoTaskFields DEF Story
<1>2. TypeOK
  BY <1>1 DEF Init, TypeOK, Blank, Statuses, Task
<1>3. TasksAreDecisions /\ LocksAreReviews /\ SecretsAreClaimed /\ TellingIsTrue
  BY <1>1 DEF Init, TasksAreDecisions, LocksAreReviews, SecretsAreClaimed, TellingIsTrue, Blank
<1>4. AuditsTellStatus
  <2>1. ASSUME NEW k \in Keys
        PROVE  Actions(k) = <<>>
    <3>1. DOMAIN audits[k] = {}
      BY DEF Init
    <3>2. Actions(k) = [i \in 1..0 |-> audits[k][i].action]
      BY <3>1 DEF Actions
    <3> QED
      BY <3>2
  <2> QED
    BY <1>1, <2>1 DEF Init, AuditsTellStatus, Blank
<1>5. QuotasAreDecided /\ EventsFollowCommits /\ HandedOnce
  BY DEF Init, QuotasAreDecided, EventsFollowCommits, HandedOnce, Blank
<1> QED
  BY <1>2, <1>3, <1>4, <1>5 DEF KeyInv

\* Every state of the life of the keys satisfies KeyInv.
THEOREM KeyInvariant == Spec => []KeyInv
<1>1. KeyInv /\ [Next]_vars => KeyInv'
  BY TypeStep, TasksStep, LocksStep, SecretsStep, TellingStep, AuditsStep, QuotasStep, EventsStep,
     HandedStep DEF KeyInv
<1> QED
  BY <1>1, InitInv, PTL DEF Spec

\* Rows, audits, tasks and events keep to their domains, for any number of handlers.
THEOREM KeyTypesHold == Spec => []TypeOK
<1>1. KeyInv => TypeOK
  BY DEF KeyInv
<1> QED
  BY <1>1, KeyInvariant, PTL

\* However many mentors and teachers review a key at the same time, one of each decides it.
THEOREM DecidedOnce == Spec => []AuditsTellStatus
<1>1. KeyInv => AuditsTellStatus
  BY DEF KeyInv
<1> QED
  BY <1>1, KeyInvariant, PTL

\* A quota is that of a review which decided, never of one that came too late, or the one a mentor
\* has set last since; and such a change is never lost to an approval.
THEOREM QuotasFollowDecisions == Spec => []QuotasAreDecided
<1>1. KeyInv => QuotasAreDecided
  BY DEF KeyInv
<1> QED
  BY <1>1, KeyInvariant, PTL

\* A student gets one secret of a key at most, and it is the one that is stored.
THEOREM SecretIsOne == Spec => []OneSecret
<1>1. KeyInv => OneSecret
  <2>1. ASSUME KeyInv, NEW k \in Keys
        PROVE  handed[k] \subseteq {row[k].hash} /\ row[k].hash <= 1
    <3>1. row[k].hash \in {0, 1} /\ handed[k] \subseteq {1} /\ (handed[k] # {} => row[k].hash = 1)
      BY <2>1 DEF KeyInv, SecretsAreClaimed, HandedOnce
    <3> QED
      BY <3>1
  <2> QED
    BY <2>1 DEF OneSecret
<1> QED
  BY <1>1, KeyInvariant, PTL

\* No event runs ahead of the commit it tells of.
THEOREM EventsAreTrue == Spec => []EventsFollowCommits
<1>1. KeyInv => EventsFollowCommits
  BY DEF KeyInv
<1> QED
  BY <1>1, KeyInvariant, PTL

-------------------------------------------------------------------------------
(* The way of the events (KeyNotices) *)

\* What the page will have heard, and the last id it will have, after n more events.
HeardAfter(n) == heard \cup {pipe[m] : m \in 1..n}
LastAfter(n)  == IF n = 0 THEN lastEventId ELSE pipe[n]

\* Up to an id, an event of the student after the first one of ids is among them, but when it is
\* gone from the stream or was left behind a full batch.
Complete(ids, last) ==
    \A i \in StudentIds :
        i <= last /\ (\E j \in ids : j <= i) =>
            i \in ids \/ i <= trimmed.student \/ BehindFullBatch(i, ids)

\* The streams are trimmed up to an id.
TrimsExist == trimmed \in [student : Nat, catalog : Nat]

\* An id that is on its way or was heard is that of an event; no id was heard without the last.
IdsExist ==
    /\ pipe \in Seq(DOMAIN stream)
    /\ lastEventId \in 0..Len(stream)
    /\ heard \subseteq DOMAIN stream
    /\ lastEventId = 0 => heard = {}
    /\ server \in [at : {"closed", "top", "waiting"}, last : Nat, from : Nat]

\* The server goes on from the last id it has written, or from none.
ServerFollows ==
    /\ server.at = "closed" => pipe = <<>>
    /\ server.at # "closed" => server.last = LastAfter(Len(pipe))
    /\ server.at = "waiting" => server.from = server.last \/ server.last = 0

\* Wherever the connection breaks, the page has missed nothing before its last id.
PipeIsComplete == \A n \in 0..Len(pipe) : Complete(HeardAfter(n), LastAfter(n))

\* What the page knows is of this system.
PageTypes ==
    /\ shown \in [Keys -> Statuses]
    /\ load \in [Loads -> [at : {"none", "asked", "read", "show"}, changed : Keys \cup {NoKey},
                           got : [Keys -> Statuses]]]
    /\ asking \in Handlers \cup {NoOne}
    /\ secret \in Keys \cup {NoKey}

\* What the page shows, and what it is about to show, has been committed.
PageBehind ==
    \A k \in Keys : Reached(k, shown[k]) /\ \A l \in Loads : Reached(k, load[l].got[k])

\* The secret on the page is the one that is stored for its key, and no other was handed out.
SecretIsStored == secret # NoKey => row[secret].hash = 1 /\ handed[secret] = {1}

\* The inductive invariant of the composition.
NoticesInv ==
    /\ KeyInv
    /\ TrimsExist
    /\ IdsExist
    /\ ServerFollows
    /\ PipeIsComplete
    /\ PageTypes
    /\ PageBehind
    /\ SecretIsStored

\* InOrder puts every id in a place, and smaller ones before greater ones.
LEMMA OrderOfIds ==
    ASSUME NEW ids \in SUBSET Nat, IsFiniteSet(ids)
    PROVE  /\ Cardinality(ids) \in Nat
           /\ InOrder(ids) \in [1..Cardinality(ids) -> ids]
           /\ \A i \in ids : \E n \in 1..Cardinality(ids) : InOrder(ids)[n] = i
           /\ \A m, n \in 1..Cardinality(ids) : InOrder(ids)[m] < InOrder(ids)[n] => m < n
<1> DEFINE N == Cardinality(ids)
           UpTo(i) == {j \in ids : j <= i}
           rank == [i \in ids |-> Cardinality(UpTo(i))]
<1>1. N \in Nat
  BY FS_CardinalityType
<1>2. ASSUME NEW i \in ids
      PROVE  IsFiniteSet(UpTo(i)) /\ Cardinality(UpTo(i)) \in 1..N
  <2>1. UpTo(i) \subseteq ids /\ i \in UpTo(i)
    OBVIOUS
  <2> HIDE DEF UpTo
  <2>2. IsFiniteSet(UpTo(i)) /\ Cardinality(UpTo(i)) <= N
    BY <2>1, FS_Subset
  <2>3. Cardinality(UpTo(i)) \in Nat
    BY <2>2, FS_CardinalityType
  <2>4. Cardinality(UpTo(i)) # 0
    BY <2>1, <2>2, FS_EmptySet
  <2> QED
    BY <1>1, <2>2, <2>3, <2>4
<1>3. ASSUME NEW i \in ids, NEW k \in ids, i < k
      PROVE  Cardinality(UpTo(i)) < Cardinality(UpTo(k))
  <2>1. UpTo(i) \subseteq UpTo(k) /\ k \in UpTo(k) /\ k \notin UpTo(i)
    <3>1. i \in Nat /\ k \in Nat /\ k <= k /\ ~(k <= i)
      BY <1>3
    <3>2. ASSUME NEW j \in UpTo(i)
          PROVE  j \in UpTo(k)
      <4>1. j \in ids /\ j \in Nat /\ j <= i
        OBVIOUS
      <4>2. j <= k
        BY <1>3, <3>1, <4>1
      <4> QED
        BY <4>1, <4>2
    <3> QED
      BY <3>1, <3>2
  <2> HIDE DEF UpTo
  <2>2. Cardinality(UpTo(i)) <= Cardinality(UpTo(k)) /\ Cardinality(UpTo(i)) # Cardinality(UpTo(k))
    BY <1>2, <2>1, FS_Subset
  <2>3. Cardinality(UpTo(i)) \in Nat /\ Cardinality(UpTo(k)) \in Nat
    BY <1>1, <1>2
  <2> QED
    BY <2>2, <2>3
<1>4. rank \in [ids -> 1..N] /\ \A i, k \in ids : rank[i] = rank[k] => i = k
  <2> HIDE DEF UpTo
  <2>1. rank \in [ids -> 1..N]
    BY <1>2
  <2>2. ASSUME NEW i \in ids, NEW k \in ids, rank[i] = rank[k], i # k
        PROVE  FALSE
    <3>1. i < k \/ k < i
      BY <2>2
    <3>2. Cardinality(UpTo(i)) \in Nat /\ Cardinality(UpTo(k)) \in Nat
      BY <1>1, <1>2
    <3> QED
      BY <1>3, <2>2, <3>1, <3>2
  <2> QED
    BY <2>1, <2>2
<1>5. \A n \in 1..N : \E i \in ids : rank[i] = n
  <2>1. rank \in Injection(ids, 1..N)
    BY <1>4, Fun_IsInj
  <2>2. IsFiniteSet(1..N) /\ Cardinality(1..N) = N
    BY <1>1, FS_Interval
  <2>3. rank \in Surjection(ids, 1..N)
    BY <2>1, <2>2, FS_Injection
  <2> QED
    BY <2>3 DEF Surjection
<1>6. ASSUME NEW n \in 1..N
      PROVE  InOrder(ids)[n] \in ids /\ rank[InOrder(ids)[n]] = n
  BY <1>5 DEF InOrder
<1>7. InOrder(ids) \in [1..N -> ids]
  BY <1>6 DEF InOrder
<1>8. ASSUME NEW i \in ids
      PROVE  \E n \in 1..N : InOrder(ids)[n] = i
  <2>1. rank[i] \in 1..N
    BY <1>4
  <2> HIDE DEF rank
  <2> QED
    BY <1>4, <1>6, <2>1
<1>9. ASSUME NEW m \in 1..N, NEW n \in 1..N, InOrder(ids)[m] < InOrder(ids)[n]
      PROVE  m < n
  BY <1>3, <1>6, <1>9
<1> QED
  BY <1>1, <1>7, <1>8, <1>9

\* Places in the stream are numbers, and there are finitely many.
LEMMA StreamIds ==
    ASSUME KeyInv
    PROVE  /\ Len(stream) \in Nat /\ DOMAIN stream = 1..Len(stream)
           /\ StudentIds \in SUBSET Nat /\ CatalogIds \in SUBSET Nat
           /\ IsFiniteSet(StudentIds) /\ IsFiniteSet(CatalogIds)
<1>1. Len(stream) \in Nat /\ DOMAIN stream = 1..Len(stream)
  BY LenProperties DEF KeyInv, TypeOK
<1>2. IsFiniteSet(1..Len(stream))
  BY <1>1, FS_Interval
<1> QED
  BY <1>1, <1>2, FS_Subset DEF StudentIds, CatalogIds

\* COUNT takes the first of the ids: all before one that is taken are, and it takes as many of
\* the first ids as of all.
LEMMA OldestIds ==
    ASSUME NEW ids \in SUBSET Nat, IsFiniteSet(ids)
    PROVE  /\ Oldest(ids) \subseteq ids
           /\ \A s \in Oldest(ids) : \A i \in ids : i < s => i \in Oldest(ids)
           /\ \A i \in ids \ Oldest(ids) :
                LET first == {s \in ids : s <= i} IN
                i \in first \ Oldest(first) /\ Oldest(first) \subseteq Oldest(ids)
<1> DEFINE Before(i) == {j \in ids : j < i}
<1>1. Oldest(ids) \subseteq ids
  BY DEF Oldest
<1>2. ASSUME NEW s \in Oldest(ids), NEW i \in ids, i < s
      PROVE  i \in Oldest(ids)
  <2>1. Before(i) \subseteq Before(s) /\ Before(s) \subseteq ids
    <3>1. s \in Nat /\ i \in Nat
      BY <1>1
    <3>2. ASSUME NEW j \in ids, j < i
          PROVE  j < s
      <4>1. j \in Nat
        OBVIOUS
      <4> QED
        BY <1>2, <3>1, <3>2, <4>1
    <3> QED
      BY <3>2
  <2>2. Cardinality(Before(s)) < Count
    BY DEF Oldest
  <2> HIDE DEF Before
  <2>3. IsFiniteSet(Before(s))
    BY <2>1, FS_Subset
  <2>4. /\ Cardinality(Before(i)) \in Nat /\ Cardinality(Before(s)) \in Nat
        /\ Cardinality(Before(i)) <= Cardinality(Before(s))
    BY <2>1, <2>3, FS_Subset, FS_CardinalityType
  <2>5. Cardinality(Before(i)) < Count
    BY <2>2, <2>4, NoticesAssumption
  <2> QED
    BY <2>5 DEF Oldest, Before
<1>3. ASSUME NEW i \in ids \ Oldest(ids)
      PROVE  LET first == {s \in ids : s <= i} IN
             i \in first \ Oldest(first) /\ Oldest(first) \subseteq Oldest(ids)
  <2> DEFINE first == {s \in ids : s <= i}
  <2>1. i \in first /\ i \in Nat /\ first \subseteq ids
    OBVIOUS
  <2>2. ASSUME NEW s \in first
        PROVE  {j \in first : j < s} = Before(s)
    <3>1. s \in Nat /\ s <= i
      OBVIOUS
    <3>2. ASSUME NEW j \in ids, j < s
          PROVE  j \in first
      BY <2>1, <3>1, <3>2
    <3> QED
      BY <2>1, <3>2
  <2>3. \A s \in first : s \in Oldest(first) <=> s \in Oldest(ids)
    <3> HIDE DEF first
    <3>1. \A s \in first : {j \in first : j < s} = {j \in ids : j < s}
      BY <2>2
    <3> QED
      BY <2>1, <3>1 DEF Oldest
  <2>4. Oldest(first) \subseteq first
    BY DEF Oldest
  <2> QED
    BY <2>1, <2>3, <2>4
<1> QED
  BY <1>1, <1>2, <1>3

\* Who was left behind among some ids is left behind among others that are the same up to it, and
\* when more was told.
LEMMA LeftBehindStays ==
    ASSUME NEW i \in Nat, NEW ids, NEW others, NEW told, NEW more, told \subseteq more,
           \A s : s <= i => (s \in ids <=> s \in others),
           LeftBehind(i, ids, told)
    PROVE  LeftBehind(i, others, more)
<1>1. PICK from \in 0..i :
        LET unread == {s \in ids : from < s /\ s <= i} IN
        i \in unread \ Oldest(unread) /\ Oldest(unread) \subseteq told
  BY DEF LeftBehind
<1>2. {s \in ids : from < s /\ s <= i} = {s \in others : from < s /\ s <= i}
  OBVIOUS
<1> QED
  BY <1>1, <1>2 DEF LeftBehind

\* So it is with an event behind a full batch, when more is heard.
LEMMA BehindStays ==
    ASSUME NEW i \in Nat, NEW told, NEW more, told \subseteq more, BehindFullBatch(i, told)
    PROVE  BehindFullBatch(i, more)
BY LeftBehindStays DEF BehindFullBatch

\* A batch is of what came after an id, and holds before each of its events all of the
\* student's in between that are not gone or left behind a full batch.
LEMMA BatchIsComplete ==
    ASSUME KeyInv, TrimsExist, NEW from \in Nat
    PROVE  /\ Batch(from) \in Seq(DOMAIN stream)
           /\ \A n \in 1..Len(Batch(from)) :
                /\ Batch(from)[n] > from
                /\ \A i \in StudentIds : from < i /\ i <= Batch(from)[n] =>
                        \/ \E m \in 1..n : Batch(from)[m] = i
                        \/ i <= trimmed.student
                        \/ BehindFullBatch(i, {Batch(from)[m] : m \in 1..n})
<1> DEFINE Unread == {i \in StudentIds : i > from /\ i > trimmed.student}
           New == {i \in CatalogIds : i > from /\ i > trimmed.catalog}
           S == Oldest(Unread)
           C == Oldest(New)
<1>1. /\ Unread \in SUBSET Nat /\ New \in SUBSET Nat /\ IsFiniteSet(Unread) /\ IsFiniteSet(New)
      /\ Unread \subseteq StudentIds /\ New \subseteq CatalogIds
      /\ \A i \in Unread \cup New : i > from
      /\ \A i \in StudentIds : i > from => i \in Unread \/ i <= trimmed.student
      /\ StudentIds \subseteq DOMAIN stream /\ CatalogIds \subseteq DOMAIN stream
      /\ StudentIds \cap CatalogIds = {}
      /\ StudentIds \subseteq Nat
  <2>1. /\ StudentIds \in SUBSET Nat /\ CatalogIds \in SUBSET Nat
        /\ IsFiniteSet(StudentIds) /\ IsFiniteSet(CatalogIds)
    BY StreamIds
  <2>2. trimmed.student \in Nat
    BY DEF TrimsExist
  <2>3. /\ Unread \subseteq StudentIds /\ New \subseteq CatalogIds
        /\ \A i \in Unread \cup New : i > from
        /\ \A i \in StudentIds : i > from => i \in Unread \/ i <= trimmed.student
    BY <2>1, <2>2
  <2>4. /\ StudentIds \subseteq DOMAIN stream /\ CatalogIds \subseteq DOMAIN stream
        /\ StudentIds \cap CatalogIds = {}
    BY DEF StudentIds, CatalogIds
  <2> HIDE DEF Unread, New
  <2>5. IsFiniteSet(Unread) /\ IsFiniteSet(New)
    BY <2>1, <2>3, FS_Subset
  <2> QED
    BY <2>1, <2>3, <2>4, <2>5
<1>2. /\ S \subseteq Unread /\ C \subseteq New
      /\ S \in SUBSET Nat /\ C \in SUBSET Nat /\ IsFiniteSet(S) /\ IsFiniteSet(C)
  <2> HIDE DEF Unread, New
  <2>1. S \subseteq Unread /\ C \subseteq New
    BY <1>1, OldestIds
  <2> HIDE DEF S, C
  <2> QED
    BY <1>1, <2>1, FS_Subset
<1>3. Batch(from) = InOrder(S) \o InOrder(C)
  BY DEF Batch, StudentPart, CatalogPart
<1>4. \A i \in Unread \ S : LeftBehind(i, StudentIds, S)
  <2> SUFFICES ASSUME NEW i \in Unread \ S
               PROVE  LeftBehind(i, StudentIds, S)
    OBVIOUS
  <2> DEFINE first == {s \in Unread : s <= i}
             begin == IF trimmed.student > from THEN trimmed.student ELSE from
             unread == {s \in StudentIds : begin < s /\ s <= i}
  <2>1. i \in first \ Oldest(first) /\ Oldest(first) \subseteq S
    <3> HIDE DEF Unread
    <3> QED
      BY <1>1, OldestIds
  <2>2. trimmed.student \in Nat /\ i \in Nat /\ i > from /\ i > trimmed.student
    BY <1>1 DEF TrimsExist
  <2>3. begin \in 0..i
    BY <2>2
  <2>4. first = unread
    BY <1>1, <2>2
  <2> HIDE DEF first, begin, S, Unread
  <2> QED
    BY <2>1, <2>3, <2>4 DEF LeftBehind
<1> HIDE DEF S, C, Unread, New
<1>5. /\ Cardinality(S) \in Nat /\ InOrder(S) \in [1..Cardinality(S) -> S]
      /\ Cardinality(C) \in Nat /\ InOrder(C) \in [1..Cardinality(C) -> C]
  BY <1>2, OrderOfIds
<1>6. /\ InOrder(S) \in Seq(S) /\ Len(InOrder(S)) = Cardinality(S)
      /\ InOrder(C) \in Seq(C) /\ Len(InOrder(C)) = Cardinality(C)
  BY <1>5, SeqDef, LenProperties
<1>7. S \subseteq DOMAIN stream /\ C \subseteq DOMAIN stream
  BY <1>1, <1>2
<1>8. InOrder(S) \in Seq(DOMAIN stream) /\ InOrder(C) \in Seq(DOMAIN stream)
  BY <1>6, <1>7
<1>9. /\ Batch(from) \in Seq(DOMAIN stream)
      /\ Len(Batch(from)) = Cardinality(S) + Cardinality(C)
      /\ \A n \in 1..(Cardinality(S) + Cardinality(C)) :
            Batch(from)[n] = IF n <= Cardinality(S) THEN InOrder(S)[n]
                                                    ELSE InOrder(C)[n - Cardinality(S)]
  <2> DEFINE a == InOrder(S)
             b == InOrder(C)
  <2>1. /\ a \in Seq(DOMAIN stream) /\ b \in Seq(DOMAIN stream)
        /\ Len(a) = Cardinality(S) /\ Len(b) = Cardinality(C)
    BY <1>6, <1>8
  <2>2. Batch(from) = a \o b
    BY <1>3
  <2> HIDE DEF a, b
  <2>3. /\ a \o b \in Seq(DOMAIN stream)
        /\ Len(a \o b) = Len(a) + Len(b)
        /\ \A i \in 1..(Len(a) + Len(b)) :
              (a \o b)[i] = IF i <= Len(a) THEN a[i] ELSE b[i - Len(a)]
    BY <2>1, ConcatProperties
  <2>4. /\ Batch(from) \in Seq(DOMAIN stream)
        /\ Len(Batch(from)) = Cardinality(S) + Cardinality(C)
        /\ \A n \in 1..(Cardinality(S) + Cardinality(C)) :
              Batch(from)[n] = IF n <= Cardinality(S) THEN a[n] ELSE b[n - Cardinality(S)]
    BY <2>1, <2>2, <2>3
  <2> QED
    BY <2>4 DEF a, b
<1>10. /\ \A i \in S : \E m \in 1..Cardinality(S) : InOrder(S)[m] = i
       /\ \A m, n \in 1..Cardinality(S) : InOrder(S)[m] < InOrder(S)[n] => m < n
  BY <1>2, OrderOfIds
<1>11. ASSUME NEW n \in 1..Len(Batch(from))
       PROVE  \/ n \in 1..Cardinality(S) /\ Batch(from)[n] = InOrder(S)[n] /\ Batch(from)[n] \in S
              \/ n > Cardinality(S) /\ Batch(from)[n] \in C
  <2>1. CASE n <= Cardinality(S)
    BY <1>5, <1>9, <2>1
  <2>2. CASE n > Cardinality(S)
    <3>1. n - Cardinality(S) \in 1..Cardinality(C)
      BY <1>5, <1>9, <2>2
    <3> QED
      BY <1>5, <1>9, <2>2, <3>1
  <2> QED
    BY <1>5, <2>1, <2>2
<1>12. ASSUME NEW n \in 1..Len(Batch(from))
       PROVE  Batch(from)[n] > from
  BY <1>1, <1>2, <1>11
<1>13. ASSUME NEW n \in 1..Len(Batch(from)), NEW i \in S, i <= Batch(from)[n]
       PROVE  \E m \in 1..n : Batch(from)[m] = i
  <2>1. PICK m \in 1..Cardinality(S) : InOrder(S)[m] = i
    BY <1>10
  <2>2. Batch(from)[m] = i
    BY <1>5, <1>9, <2>1
  <2>3. n \in Nat /\ Cardinality(S) \in Nat /\ i \in Nat
    BY <1>2, <1>5, <1>9
  <2>4. CASE n \in 1..Cardinality(S) /\ Batch(from)[n] = InOrder(S)[n] /\ Batch(from)[n] \in S
    <3>1. Batch(from)[n] \in Nat
      BY <1>2, <2>4
    <3>2. CASE i = Batch(from)[n]
      BY <2>3, <3>2
    <3>3. CASE i < Batch(from)[n]
      <4>1. m < n
        BY <1>10, <2>1, <2>4, <3>3
      <4> QED
        BY <2>1, <2>2, <2>3, <4>1
    <3> QED
      BY <1>13, <2>3, <3>1, <3>2, <3>3
  <2>5. CASE n > Cardinality(S)
    BY <2>1, <2>2, <2>3, <2>5
  <2> QED
    BY <1>11, <2>4, <2>5
<1>14. ASSUME NEW n \in 1..Len(Batch(from)), NEW i \in Unread \ S, i <= Batch(from)[n]
       PROVE  BehindFullBatch(i, {Batch(from)[m] : m \in 1..n})
  <2> DEFINE told == {Batch(from)[m] : m \in 1..n}
  <2>1. i \in Nat /\ Batch(from)[n] \in Nat /\ n \in Nat /\ Cardinality(S) \in Nat
    <3>1. Batch(from)[n] \in S \cup C /\ i \in Nat
      BY <1>1, <1>11
    <3>2. n \in Nat /\ Cardinality(S) \in Nat
      BY <1>5, <1>9
    <3> QED
      BY <1>2, <3>1, <3>2
  <2>2. n > Cardinality(S) /\ Batch(from)[n] \in C
    <3>1. SUFFICES ASSUME Batch(from)[n] \in S
                   PROVE  FALSE
      BY <1>11
    <3>2. i < Batch(from)[n]
      BY <1>14, <2>1, <3>1
    <3> QED
      BY <1>1, <3>1, <3>2, OldestIds DEF S
  <2>3. S \subseteq told
    <3>1. ASSUME NEW s \in S
          PROVE  s \in told
      <4>1. PICK m \in 1..Cardinality(S) : InOrder(S)[m] = s
        BY <1>10
      <4>2. m \in 1..n /\ Batch(from)[m] = s
        BY <1>5, <1>9, <2>1, <2>2, <4>1
      <4> QED
        BY <4>2
    <3> QED
      BY <3>1
  <2>4. Batch(from)[n] \in told \cap CatalogIds /\ Batch(from)[n] > i
    <3>1. Batch(from)[n] \in CatalogIds /\ i \notin CatalogIds
      BY <1>1, <1>2, <2>2
    <3>2. n \in 1..n
      BY <2>1
    <3> QED
      BY <1>14, <2>1, <3>1, <3>2
  <2> HIDE DEF told
  <2>5. LeftBehind(i, StudentIds, told)
    BY <1>4, <2>1, <2>3, LeftBehindStays
  <2>6. BehindFullBatch(i, told)
    BY <2>4, <2>5 DEF BehindFullBatch
  <2> QED
    BY <2>6 DEF told
<1>15. ASSUME NEW n \in 1..Len(Batch(from)), NEW i \in StudentIds, from < i, i <= Batch(from)[n]
       PROVE  \/ \E m \in 1..n : Batch(from)[m] = i
              \/ i <= trimmed.student
              \/ BehindFullBatch(i, {Batch(from)[m] : m \in 1..n})
  <2>1. i \in Unread \/ i <= trimmed.student
    BY <1>1, <1>15
  <2> QED
    BY <1>13, <1>14, <1>15, <2>1
<1> QED
  BY <1>9, <1>12, <1>15

-------------------------------------------------------------------------------
(* Every step of the composition keeps what the handlers rely on *)

Event == [key : Keys \cup {NoKey}, status : Statuses]

\* A step of the composition is one of the handlers, or one of the catalog.
LEMMA LifecycleSteps ==
    ASSUME KeyInv, PageTypes, [NoticesNext]_allVars
    PROVE  \/ [Next]_vars /\ (stream' = stream \/ \E h \in Handlers : Publish(h))
           \/ CatalogChanges
<1>1. CASE Reader \/ UNCHANGED allVars
  BY <1>1 DEF Reader, ServerReads, ServerDelivers, Heartbeat, Drop, Connect, Hear, vars, allVars
<1>2. CASE Page
  <2>1. \/ UNCHANGED vars
        \/ \E h \in Handlers : Answer(h) \/ \E k \in Keys : ClaimAPIKey(h, k)
    <3>1. ASSUME NEW l \in Loads, LoadRead(l) \/ LoadArrives(l) \/ ShowArrives(l)
          PROVE  UNCHANGED vars
      BY <3>1 DEF LoadRead, LoadArrives, ShowArrives
    <3>2. ASSUME NEW h \in Handlers, NEW k \in Keys, AskForSecret(h, k)
          PROVE  ClaimAPIKey(h, k)
      BY <3>2 DEF AskForSecret
    <3>3. ASSUME NEW h \in Handlers, SecretArrives(h)
          PROVE  Answer(h)
      BY <3>3 DEF SecretArrives
    <3>4. ASSUME ClaimFails \/ CopySecret \/ \E confirmed \in BOOLEAN : CloseSecret(confirmed)
          PROVE  UNCHANGED vars
      BY <3>4 DEF ClaimFails, CopySecret, CloseSecret
    <3> QED
      BY <1>2, <3>1, <3>2, <3>3, <3>4 DEF Page
  <2> QED
    BY <2>1 DEF vars, Next, Answer, ClaimAPIKey
<1>3. ASSUME NEW h \in Handlers, Serve(h)
      PROVE  [Next]_vars /\ (stream' = stream \/ Publish(h))
  BY <1>3 DEF Next, Serve, SubmitAPIKey, ApproveKey, RevokeKey, UpdateKeyQuota, ReadPending,
              SetMentorQuota, Decide, Commit, Abandon
<1>4. CASE asking # NoOne /\ (Publish(asking) \/ Abandon(asking))
  <2>1. asking \in Handlers
    BY <1>4 DEF PageTypes
  <2> QED
    BY <1>3, <1>4, <2>1 DEF Serve
<1> QED
  BY <1>1, <1>2, <1>3, <1>4 DEF NoticesNext

\* An event is only added to those there are.
LEMMA StreamGrows ==
    ASSUME KeyInv, PageTypes, [NoticesNext]_allVars
    PROVE  \/ stream' = stream
           \/ \E e \in Event :
                /\ stream' = Append(stream, e)
                /\ Len(stream') = Len(stream) + 1
                /\ DOMAIN stream' = 1..(Len(stream) + 1)
                /\ stream'[Len(stream) + 1] = e
                /\ \A i \in DOMAIN stream : stream'[i] = stream[i]
                /\ e = CatalogEvent \/ \E h \in Handlers : Publish(h)
<1>1. stream \in Seq(Event) /\ DOMAIN stream = 1..Len(stream)
  BY LenProperties DEF KeyInv, TypeOK, Event
<1>2. ASSUME NEW e \in Event, stream' = Append(stream, e)
      PROVE  /\ Len(stream') = Len(stream) + 1
             /\ DOMAIN stream' = 1..(Len(stream) + 1)
             /\ stream'[Len(stream) + 1] = e
             /\ \A i \in DOMAIN stream : stream'[i] = stream[i]
  BY <1>1, <1>2, AppendProperties, LenProperties
<1>3. CatalogEvent \in Event
  BY DEF CatalogEvent, Event, Statuses
<1>4. \A h \in Handlers : [key |-> Key(h), status |-> task[h].to] \in Event
  BY DEF KeyInv, TypeOK, Key, Event
<1>5. CASE CatalogChanges
  BY <1>2, <1>3, <1>5 DEF CatalogChanges
<1>6. ASSUME NEW h \in Handlers, Publish(h), stream' # stream
      PROVE  \E e \in Event : stream' = Append(stream, e)
  BY <1>4, <1>6 DEF Publish
<1> QED
  BY <1>2, <1>5, <1>6, LifecycleSteps

\* So what was there stays, in its place.
LEMMA StreamStays ==
    ASSUME KeyInv, PageTypes, [NoticesNext]_allVars
    PROVE  /\ Len(stream) \in Nat /\ Len(stream') \in Nat /\ Len(stream) <= Len(stream')
           /\ DOMAIN stream = 1..Len(stream) /\ DOMAIN stream' = 1..Len(stream')
           /\ \A i \in DOMAIN stream : i \in StudentIds' <=> i \in StudentIds
           /\ \A i \in StudentIds' : i <= Len(stream) => i \in StudentIds
           /\ CatalogIds \subseteq CatalogIds'
<1>1. Len(stream) \in Nat /\ DOMAIN stream = 1..Len(stream)
  BY LenProperties DEF KeyInv, TypeOK
<1>2. /\ Len(stream') \in Nat /\ Len(stream) <= Len(stream')
      /\ DOMAIN stream' = 1..Len(stream')
      /\ \A i \in DOMAIN stream : stream'[i] = stream[i]
  BY <1>1, StreamGrows
<1>3. /\ \A i \in DOMAIN stream : i \in StudentIds' <=> i \in StudentIds
      /\ CatalogIds \subseteq CatalogIds'
  <2>1. DOMAIN stream \subseteq DOMAIN stream'
    BY <1>1, <1>2
  <2> QED
    BY <1>2, <2>1 DEF StudentIds, CatalogIds, CatalogEvent
<1>4. \A i \in StudentIds' : i \in 1..Len(stream')
  BY <1>2 DEF StudentIds
<1> QED
  BY <1>1, <1>2, <1>3, <1>4

\* What is trimmed stays so, and a stream is trimmed only when an event is added.
LEMMA TrimStep ==
    ASSUME KeyInv, PageTypes, TrimsExist, [NoticesNext]_allVars
    PROVE  TrimsExist' /\ trimmed.student <= trimmed'.student
<1>1. CASE UNCHANGED trimmed
  BY <1>1 DEF TrimsExist
<1>2. ASSUME NEW ids \in SUBSET Nat, NEW gone \in Nat
      PROVE  \A i \in Removable(ids, gone) : i \in Nat /\ gone <= i
  BY DEF Removable
<1>3. /\ StudentIds' \in SUBSET Nat /\ CatalogIds' \in SUBSET Nat
      /\ trimmed.student \in Nat /\ trimmed.catalog \in Nat
  <2>1. DOMAIN stream' = 1..Len(stream') /\ Len(stream') \in Nat
    BY StreamStays
  <2> QED
    BY <2>1 DEF StudentIds, CatalogIds, TrimsExist
<1>4. CASE CatalogChanges
  <2>1. PICK i \in Removable(CatalogIds', trimmed.catalog) : trimmed' = [trimmed EXCEPT !.catalog = i]
    BY <1>4 DEF CatalogChanges
  <2>2. i \in Nat
    BY <1>2, <1>3, <2>1
  <2> QED
    BY <2>1, <2>2 DEF TrimsExist
<1>5. CASE Trim
  <2>1. ASSUME NEW i \in Removable(StudentIds', trimmed.student),
               trimmed' = [trimmed EXCEPT !.student = i]
        PROVE  TrimsExist' /\ trimmed.student <= trimmed'.student
    <3>1. i \in Nat /\ trimmed.student <= i
      BY <1>2, <1>3, <2>1
    <3> QED
      BY <2>1, <3>1 DEF TrimsExist
  <2> QED
    BY <1>1, <1>5, <2>1 DEF Trim
<1>6. CASE Reader
  BY <1>1, <1>6 DEF Reader, ServerReads, ServerDelivers, Heartbeat, Drop, Connect, Hear
<1>7. CASE Page
  BY <1>1, <1>7 DEF Page, LoadRead, LoadArrives, ShowArrives, AskForSecret, SecretArrives,
                    ClaimFails, CopySecret, CloseSecret
<1> QED
  BY <1>1, <1>4, <1>5, <1>6, <1>7 DEF NoticesNext, allVars

\* The handlers rely on no more than they did without the page.
LEMMA LifecycleStep ==
    ASSUME KeyInv, PageTypes, [NoticesNext]_allVars
    PROVE  KeyInv'
<1>1. CASE [Next]_vars
  BY <1>1, TypeStep, TasksStep, LocksStep, SecretsStep, TellingStep, AuditsStep, QuotasStep,
     EventsStep, HandedStep DEF KeyInv
<1>2. CASE CatalogChanges
  <2>1. UNCHANGED <<row, audits, adjustments, lock, step, task, handed>> /\ stream' = Append(stream, CatalogEvent)
    BY <1>2 DEF CatalogChanges
  <2>2. CatalogEvent \in Event /\ stream \in Seq(Event)
    BY DEF CatalogEvent, Event, Statuses, KeyInv, TypeOK
  <2>3. stream' \in Seq(Event)
    BY <2>1, <2>2, AppendProperties
  <2>4. EventsFollowCommits'
    <3>1. ASSUME NEW i \in DOMAIN stream', NEW k \in Keys, stream'[i].key = k
          PROVE  i \in DOMAIN stream /\ stream'[i] = stream[i]
      <4>1. /\ DOMAIN stream' = 1..(Len(stream) + 1) /\ DOMAIN stream = 1..Len(stream)
            /\ \A n \in 1..Len(stream) : stream'[n] = stream[n]
            /\ stream'[Len(stream) + 1] = CatalogEvent /\ Len(stream) \in Nat
        BY <2>1, <2>2, AppendProperties, LenProperties
      <4>2. CatalogEvent.key # k
        BY KeysAssumption DEF CatalogEvent
      <4> QED
        BY <3>1, <4>1, <4>2
    <3> QED
      BY <2>1, <3>1 DEF KeyInv, EventsFollowCommits
  <2>5. /\ TypeOK' /\ TasksAreDecisions' /\ LocksAreReviews' /\ SecretsAreClaimed'
        /\ TellingIsTrue' /\ AuditsTellStatus' /\ QuotasAreDecided' /\ HandedOnce'
    <3>1. TypeOK' /\ TasksAreDecisions'
      BY <2>1, <2>3 DEF KeyInv, TypeOK, TasksAreDecisions, Event
    <3>2. LocksAreReviews' /\ SecretsAreClaimed' /\ TellingIsTrue' /\ HandedOnce'
      BY <2>1 DEF KeyInv, LocksAreReviews, SecretsAreClaimed, TellingIsTrue, HandedOnce, Key, Reached
    <3>3. AuditsTellStatus' /\ QuotasAreDecided'
      BY <2>1 DEF KeyInv, AuditsTellStatus, QuotasAreDecided, Actions, IsAudited
    <3> QED
      BY <3>1, <3>2, <3>3
  <2> QED
    BY <2>4, <2>5 DEF KeyInv
<1> QED
  BY <1>1, <1>2, LifecycleSteps

-------------------------------------------------------------------------------
(* No step of the feed leaves an event out *)

\* A longer stream takes nothing from what is on its way.
LEMMA FeedStays ==
    ASSUME KeyInv, TrimsExist, IdsExist, PipeIsComplete, PageTypes, [NoticesNext]_allVars,
           UNCHANGED <<pipe, lastEventId, heard>>
    PROVE  /\ pipe' \in Seq(DOMAIN stream') /\ lastEventId' \in 0..Len(stream')
           /\ heard' \subseteq DOMAIN stream' /\ (lastEventId' = 0 => heard' = {})
           /\ PipeIsComplete'
<1>1. /\ Len(stream) \in Nat /\ Len(stream') \in Nat /\ Len(stream) <= Len(stream')
      /\ DOMAIN stream = 1..Len(stream) /\ DOMAIN stream' = 1..Len(stream')
      /\ \A i \in StudentIds' : i <= Len(stream) => i \in StudentIds
      /\ \A i \in DOMAIN stream : i \in StudentIds' <=> i \in StudentIds
      /\ CatalogIds \subseteq CatalogIds'
  BY StreamStays
<1>2. DOMAIN stream \subseteq DOMAIN stream' /\ 0..Len(stream) \subseteq 0..Len(stream')
  BY <1>1
<1>3. /\ pipe \in Seq(DOMAIN stream) /\ lastEventId \in 0..Len(stream)
      /\ heard \subseteq DOMAIN stream /\ (lastEventId = 0 => heard = {})
  BY DEF IdsExist
<1>4. pipe \in Seq(DOMAIN stream')
  BY <1>2, <1>3, SeqDef
<1>5. ASSUME NEW n \in 0..Len(pipe), NEW i \in StudentIds', i <= LastAfter(n),
             \E j \in HeardAfter(n) : j <= i
      PROVE  \/ i \in HeardAfter(n)
             \/ i <= trimmed'.student
             \/ /\ LeftBehind(i, StudentIds', HeardAfter(n))
                /\ \E c \in HeardAfter(n) \cap CatalogIds' : c > i
  <2>1. LastAfter(n) \in 0..Len(stream)
    BY <1>1, <1>3, ElementOfSeq, LenProperties DEF LastAfter
  <2>2. i \in StudentIds /\ i \in 1..Len(stream)
    <3>1. i \in 1..Len(stream')
      BY <1>1 DEF StudentIds
    <3> QED
      BY <1>1, <1>5, <2>1, <3>1
  <2>3. i \in HeardAfter(n) \/ i <= trimmed.student \/ BehindFullBatch(i, HeardAfter(n))
    BY <1>5, <2>2 DEF PipeIsComplete, Complete
  <2>4. trimmed.student <= trimmed'.student /\ trimmed.student \in Nat /\ trimmed'.student \in Nat
    BY TrimStep DEF TrimsExist
  <2>5. \A s : s <= i => (s \in StudentIds <=> s \in StudentIds')
    <3>1. \A s \in StudentIds \cup StudentIds' : s <= i => s \in 1..Len(stream)
      <4>1. StudentIds \subseteq 1..Len(stream) /\ StudentIds' \subseteq 1..Len(stream')
        BY <1>1 DEF StudentIds
      <4> QED
        BY <1>1, <2>2, <4>1
    <3> QED
      BY <1>1, <3>1
  <2>6. CASE BehindFullBatch(i, HeardAfter(n))
    <3>1. LeftBehind(i, StudentIds, HeardAfter(n)) /\ \E c \in HeardAfter(n) \cap CatalogIds : c > i
      BY <2>6 DEF BehindFullBatch
    <3>2. LeftBehind(i, StudentIds', HeardAfter(n))
      BY <2>2, <2>5, <3>1, LeftBehindStays
    <3> QED
      BY <1>1, <3>1, <3>2
  <2> QED
    BY <2>2, <2>3, <2>4, <2>6
<1>6. ASSUME NEW n \in 0..Len(pipe)
      PROVE  HeardAfter(n)' = HeardAfter(n) /\ LastAfter(n)' = LastAfter(n)
  BY DEF HeardAfter, LastAfter
<1>7. PipeIsComplete'
  BY <1>5, <1>6 DEF PipeIsComplete, Complete, BehindFullBatch
<1> QED
  BY <1>2, <1>3, <1>4, <1>7

\* What the server writes continues, without a gap, what it has written before.
LEMMA DeliverStep ==
    ASSUME KeyInv, TrimsExist, IdsExist, ServerFollows, PipeIsComplete, ServerDelivers
    PROVE  IdsExist' /\ ServerFollows' /\ PipeIsComplete'
<1> DEFINE b == Batch(server.from)
           L == Len(pipe)
           N == Len(b)
<1>1. /\ pipe \in Seq(DOMAIN stream) /\ lastEventId \in 0..Len(stream)
      /\ heard \subseteq DOMAIN stream /\ (lastEventId = 0 => heard = {})
      /\ server \in [at : {"closed", "top", "waiting"}, last : Nat, from : Nat]
  BY DEF IdsExist
<1>2. /\ b # <<>> /\ pipe' = pipe \o b /\ server.at = "waiting"
      /\ server' = [server EXCEPT !.at = "top", !.last = b[N], !.from = 0]
      /\ UNCHANGED <<lastEventId, heard, stream, trimmed>>
  BY DEF ServerDelivers, vars
<1>3. /\ server.last = LastAfter(L)
      /\ server.from = server.last \/ server.last = 0
  BY <1>2 DEF ServerFollows
<1>4. /\ b \in Seq(DOMAIN stream)
      /\ \A n \in 1..N : /\ b[n] > server.from
                         /\ \A i \in StudentIds : server.from < i /\ i <= b[n] =>
                                \/ \E m \in 1..n : b[m] = i
                                \/ i <= trimmed.student
                                \/ BehindFullBatch(i, {b[m] : m \in 1..n})
  BY <1>1, BatchIsComplete
<1>5. /\ DOMAIN stream = 1..Len(stream) /\ Len(stream) \in Nat
      /\ StudentIds \subseteq DOMAIN stream
  BY StreamIds DEF StudentIds
<1> HIDE DEF b
<1>6. /\ L \in Nat /\ N \in Nat /\ N # 0
      /\ \A n \in 1..L : pipe[n] \in 1..Len(stream)
      /\ \A n \in 1..N : b[n] \in 1..Len(stream)
  BY <1>1, <1>2, <1>4, <1>5, LenProperties, ElementOfSeq, EmptySeq
<1>7. /\ pipe \o b \in Seq(DOMAIN stream) /\ Len(pipe \o b) = L + N
      /\ \A n \in 1..(L + N) : (pipe \o b)[n] = IF n <= L THEN pipe[n] ELSE b[n - L]
  BY <1>1, <1>4, ConcatProperties
<1>8. IdsExist'
  <2>1. b[N] \in Nat
    BY <1>6
  <2> QED
    BY <1>1, <1>2, <1>7, <2>1 DEF IdsExist
<1>9. ServerFollows'
  <2>1. L + N # 0 /\ L + N \in 1..(L + N) /\ ~(L + N <= L) /\ L + N - L = N
    BY <1>6
  <2>2. pipe'[L + N] = b[N] /\ Len(pipe') = L + N
    BY <1>2, <1>7, <2>1
  <2>3. server'.at = "top" /\ server'.last = b[N]
    BY <1>1, <1>2
  <2> QED
    BY <2>1, <2>2, <2>3 DEF ServerFollows, LastAfter
<1>10. ASSUME NEW n \in 0..L
       PROVE  HeardAfter(n)' = HeardAfter(n) /\ LastAfter(n)' = LastAfter(n)
  <2>1. \A m \in 1..n : pipe'[m] = pipe[m]
    BY <1>2, <1>6, <1>7
  <2>2. {pipe'[m] : m \in 1..n} = {pipe[m] : m \in 1..n}
    BY <2>1
  <2>3. n # 0 => n \in 1..n
    OBVIOUS
  <2> QED
    BY <1>2, <2>1, <2>2, <2>3 DEF HeardAfter, LastAfter
<1>11. ASSUME NEW n \in 1..(L + N), ~(n <= L)
       PROVE  /\ HeardAfter(n)' = HeardAfter(L) \cup {b[m] : m \in 1..(n - L)}
              /\ LastAfter(n)' = b[n - L]
  <2> DEFINE k == n - L
  <2>1. k \in 1..N /\ n = L + k /\ n # 0
    BY <1>6, <1>11
  <2>2. \A m \in 1..L : pipe'[m] = pipe[m] /\ m \in 1..n
    BY <1>2, <1>6, <1>7, <2>1
  <2>3. ASSUME NEW m \in 1..k
        PROVE  L + m \in 1..n /\ pipe'[L + m] = b[m]
    <3>1. L + m \in 1..n /\ L + m \in 1..(L + N) /\ ~(L + m <= L) /\ (L + m) - L = m
      BY <1>6, <2>1
    <3> QED
      BY <1>2, <1>7, <3>1
  <2>4. \A m \in 1..n : m \in 1..L \/ (m - L \in 1..k /\ m = L + (m - L))
    BY <1>6, <2>1
  <2> HIDE DEF k, L
  <2>5. ASSUME NEW x
        PROVE  x \in {pipe'[m] : m \in 1..n}
                 <=> x \in {pipe[m] : m \in 1..L} \/ x \in {b[m] : m \in 1..k}
    <3>1. ASSUME NEW m \in 1..n
          PROVE  \/ m \in 1..L /\ pipe'[m] = pipe[m]
                 \/ m - L \in 1..k /\ pipe'[m] = b[m - L]
      BY <2>2, <2>3, <2>4
    <3>2. ASSUME x \in {pipe'[m] : m \in 1..n}
          PROVE  x \in {pipe[m] : m \in 1..L} \/ x \in {b[m] : m \in 1..k}
      BY <3>1, <3>2
    <3>3. ASSUME x \in {pipe[m] : m \in 1..L}
          PROVE  x \in {pipe'[m] : m \in 1..n}
      BY <2>2, <3>3
    <3>4. ASSUME x \in {b[m] : m \in 1..k}
          PROVE  x \in {pipe'[m] : m \in 1..n}
      BY <2>3, <3>4
    <3> QED
      BY <3>2, <3>3, <3>4
  <2>6. {pipe'[m] : m \in 1..n} = {pipe[m] : m \in 1..L} \cup {b[m] : m \in 1..k}
    BY <2>5
  <2>7. k \in 1..k /\ pipe'[n] = b[k]
    BY <2>1, <2>3
  <2> QED
    BY <1>2, <2>1, <2>6, <2>7 DEF HeardAfter, LastAfter, k
<1>12. ASSUME NEW n \in 0..(L + N), NEW i \in StudentIds, i <= LastAfter(n)',
              NEW j \in HeardAfter(n)', j <= i
       PROVE  \/ i \in HeardAfter(n)'
              \/ i <= trimmed.student
              \/ BehindFullBatch(i, HeardAfter(n)')
  <2>1. CASE n \in 0..L
    BY <1>10, <1>12, <2>1 DEF PipeIsComplete, Complete
  <2>2. CASE n \notin 0..L
    <3> DEFINE k == n - L
    <3>1. k \in 1..N /\ n \in 1..(L + N) /\ ~(n <= L)
      BY <1>6, <2>2
    <3>2. /\ HeardAfter(n)' = HeardAfter(L) \cup {b[m] : m \in 1..k}
          /\ LastAfter(n)' = b[k]
      BY <1>11, <3>1
    <3> HIDE DEF k
    <3>3. i \in Nat /\ server.from \in Nat
      BY <1>1, <1>5
    <3> DEFINE new == {b[m] : m \in 1..k}
    <3>4. CASE server.from < i
      <4>1. \/ \E m \in 1..k : b[m] = i
            \/ i <= trimmed.student
            \/ BehindFullBatch(i, new)
        BY <1>4, <1>12, <3>1, <3>2, <3>4
      <4>2. new \subseteq HeardAfter(n)'
        BY <3>2
      <4> HIDE DEF new
      <4>3. CASE BehindFullBatch(i, new)
        BY <3>3, <4>2, <4>3, BehindStays
      <4>4. CASE \E m \in 1..k : b[m] = i
        BY <3>2, <4>4
      <4> QED
        BY <4>1, <4>3, <4>4
    <3>5. CASE i <= server.from
      <4>1. j \in HeardAfter(L)
        <5>1. \A m \in 1..k : m \in 1..N
          BY <1>6, <3>1
        <5>2. ASSUME NEW m \in 1..k
              PROVE  b[m] # j
          <6>1. b[m] > server.from /\ b[m] \in Nat
            BY <1>4, <1>6, <5>1
          <6> QED
            BY <1>12, <3>3, <3>5, <6>1
        <5> QED
          BY <1>12, <3>2, <5>2
      <4>2. server.last # 0
        <5>1. SUFFICES ASSUME LastAfter(L) = 0 PROVE FALSE
          BY <1>3
        <5>2. L = 0
          BY <1>6, <5>1 DEF LastAfter
        <5>3. HeardAfter(L) = {}
          BY <1>1, <5>1, <5>2 DEF LastAfter, HeardAfter
        <5> QED
          BY <4>1, <5>3
      <4>3. i <= LastAfter(L)
        BY <1>3, <3>5, <4>2
      <4>4. L \in 0..L
        BY <1>6
      <4>5. \/ i \in HeardAfter(L)
            \/ i <= trimmed.student
            \/ BehindFullBatch(i, HeardAfter(L))
        BY <1>12, <4>1, <4>3, <4>4 DEF PipeIsComplete, Complete
      <4>6. HeardAfter(L) \subseteq HeardAfter(n)'
        BY <3>2
      <4> QED
        BY <3>3, <4>5, <4>6, BehindStays
    <3> QED
      BY <3>3, <3>4, <3>5
  <2> QED
    BY <2>1, <2>2
<1>13. PipeIsComplete'
  <2>1. Len(pipe') = L + N /\ StudentIds' = StudentIds /\ CatalogIds' = CatalogIds
    BY <1>2, <1>7 DEF StudentIds, CatalogIds
  <2> QED
    BY <1>2, <1>12, <2>1 DEF PipeIsComplete, Complete, BehindFullBatch
<1> QED
  BY <1>8, <1>9, <1>13

\* What the page reads of the feed is what it was going to.
LEMMA HearStep ==
    ASSUME KeyInv, IdsExist, ServerFollows, PipeIsComplete, Hear
    PROVE  IdsExist' /\ ServerFollows' /\ PipeIsComplete'
<1> DEFINE L == Len(pipe)
<1>1. /\ pipe \in Seq(DOMAIN stream) /\ lastEventId \in 0..Len(stream)
      /\ heard \subseteq DOMAIN stream
      /\ server \in [at : {"closed", "top", "waiting"}, last : Nat, from : Nat]
  BY DEF IdsExist
<1>2. /\ pipe # <<>> /\ pipe' = Tail(pipe)
      /\ lastEventId' = Head(pipe) /\ heard' = heard \cup {Head(pipe)}
      /\ UNCHANGED <<server, stream, trimmed>>
  BY DEF Hear, vars
<1>3. DOMAIN stream = 1..Len(stream) /\ Len(stream) \in Nat
  BY StreamIds
<1>4. /\ L \in Nat \ {0} /\ Head(pipe) = pipe[1] /\ pipe[1] \in DOMAIN stream
      /\ pipe' \in Seq(DOMAIN stream) /\ Len(pipe') = L - 1
      /\ \A n \in 1..(L - 1) : pipe'[n] = pipe[n + 1]
  <2>1. L \in Nat \ {0} /\ 1 \in 1..L
    BY <1>1, <1>2, EmptySeq
  <2> QED
    BY <1>1, <1>2, <2>1, HeadTailProperties, ElementOfSeq
<1>5. IdsExist'
  BY <1>1, <1>2, <1>3, <1>4 DEF IdsExist
<1>6. ASSUME NEW n \in 0..(L - 1)
      PROVE  HeardAfter(n)' = HeardAfter(n + 1) /\ LastAfter(n)' = LastAfter(n + 1)
  <2>1. /\ \A m \in 1..n : pipe'[m] = pipe[m + 1] /\ m + 1 \in 1..(n + 1)
        /\ \A m \in 1..(n + 1) : m = 1 \/ (m - 1 \in 1..n /\ m = (m - 1) + 1)
        /\ 1 \in 1..(n + 1) /\ n \in Nat /\ n + 1 # 0
    BY <1>4
  <2>2. ASSUME NEW x
        PROVE  x \in {pipe[m] : m \in 1..(n + 1)} <=> x = pipe[1] \/ x \in {pipe'[m] : m \in 1..n}
    <3>1. ASSUME x \in {pipe[m] : m \in 1..(n + 1)}
          PROVE  x = pipe[1] \/ x \in {pipe'[m] : m \in 1..n}
      <4>1. PICK m \in 1..(n + 1) : x = pipe[m]
        BY <3>1
      <4>2. CASE m - 1 \in 1..n /\ m = (m - 1) + 1
        <5>1. pipe'[m - 1] = x
          BY <2>1, <4>1, <4>2
        <5> QED
          BY <4>2, <5>1
      <4> QED
        BY <2>1, <4>1, <4>2
    <3>2. ASSUME x \in {pipe'[m] : m \in 1..n}
          PROVE  x \in {pipe[m] : m \in 1..(n + 1)}
      BY <2>1, <3>2
    <3> QED
      BY <2>1, <3>1, <3>2
  <2>3. {pipe[m] : m \in 1..(n + 1)} = {pipe[1]} \cup {pipe'[m] : m \in 1..n}
    BY <2>2
  <2>4. HeardAfter(n)' = HeardAfter(n + 1)
    BY <1>2, <1>4, <2>3 DEF HeardAfter
  <2>5. n # 0 => n \in 1..n
    BY <2>1
  <2>6. LastAfter(n)' = LastAfter(n + 1)
    <3>1. CASE n = 0
      BY <1>2, <1>4, <3>1 DEF LastAfter
    <3>2. CASE n # 0
      BY <2>1, <2>5, <3>2 DEF LastAfter
    <3> QED
      BY <3>1, <3>2
  <2> QED
    BY <2>4, <2>6
<1>7. ServerFollows'
  <2>1. server.at # "closed"
    BY <1>2 DEF ServerFollows
  <2>2. L - 1 \in 0..(L - 1) /\ (L - 1) + 1 = L
    BY <1>4
  <2>3. LastAfter(Len(pipe))' = LastAfter(L)
    <3>1. CASE L = 1
      BY <1>2, <1>4, <3>1 DEF LastAfter
    <3>2. CASE L # 1
      <4>1. L - 1 \in 1..(L - 1)
        BY <1>4, <3>2
      <4> QED
        BY <1>4, <2>2, <4>1 DEF LastAfter
    <3> QED
      BY <3>1, <3>2
  <2> QED
    BY <1>2, <2>1, <2>3 DEF ServerFollows
<1>8. PipeIsComplete'
  <2>1. ASSUME NEW n \in 0..(L - 1), NEW i \in StudentIds, i <= LastAfter(n)',
               \E j \in HeardAfter(n)' : j <= i
        PROVE  \/ i \in HeardAfter(n)'
               \/ i <= trimmed.student
               \/ BehindFullBatch(i, HeardAfter(n)')
    <3>1. n + 1 \in 0..L
      BY <1>4
    <3> QED
      BY <1>6, <2>1, <3>1 DEF PipeIsComplete, Complete
  <2>2. StudentIds' = StudentIds /\ CatalogIds' = CatalogIds
    BY <1>2 DEF StudentIds, CatalogIds
  <2> QED
    BY <1>2, <1>4, <2>1, <2>2 DEF PipeIsComplete, Complete, BehindFullBatch
<1> QED
  BY <1>5, <1>7, <1>8

\* Every step of the server, the network and the page keeps the feed complete.
LEMMA FeedStep ==
    ASSUME KeyInv, TrimsExist, IdsExist, ServerFollows, PipeIsComplete, PageTypes,
           [NoticesNext]_allVars
    PROVE  IdsExist' /\ ServerFollows' /\ PipeIsComplete'
<1>1. /\ server \in [at : {"closed", "top", "waiting"}, last : Nat, from : Nat]
      /\ lastEventId \in Nat /\ Len(stream) \in Nat
  BY StreamIds DEF IdsExist
<1>2. CASE UNCHANGED feed
  <2>1. UNCHANGED <<server, pipe, lastEventId, heard>>
    BY <1>2 DEF feed
  <2> QED
    BY <1>1, <2>1, FeedStays DEF IdsExist, ServerFollows, LastAfter
<1>3. ASSUME UNCHANGED <<pipe, lastEventId, heard>>,
             server' \in [at : {"top", "waiting"}, last : Nat, from : Nat],
             server'.last = LastAfter(Len(pipe)),
             server'.at = "waiting" => server'.from = server'.last \/ server'.last = 0
      PROVE  IdsExist' /\ ServerFollows' /\ PipeIsComplete'
  <2>1. LastAfter(Len(pipe))' = LastAfter(Len(pipe))
    BY <1>3 DEF LastAfter
  <2>2. server'.at # "closed"
    BY <1>3
  <2>3. ServerFollows'
    BY <1>3, <2>1, <2>2 DEF ServerFollows
  <2> QED
    BY <1>3, <2>3, FeedStays DEF IdsExist
<1>4. CASE ServerReads
  <2>1. /\ UNCHANGED <<pipe, lastEventId, heard>> /\ server.at = "top"
        /\ server' = [server EXCEPT !.at = "waiting", !.from = Begins]
    BY <1>4 DEF ServerReads
  <2>2. Begins \in Nat /\ (Begins = server.last \/ server.last = 0)
    BY <1>1 DEF Begins
  <2>3. server.last = LastAfter(Len(pipe))
    BY <2>1 DEF ServerFollows
  <2> QED
    BY <1>1, <1>3, <2>1, <2>2, <2>3
<1>5. CASE Heartbeat
  <2>1. /\ UNCHANGED <<pipe, lastEventId, heard>> /\ server.at = "waiting"
        /\ server' = [server EXCEPT !.at = "top", !.from = 0]
    BY <1>5 DEF Heartbeat
  <2>2. server.last = LastAfter(Len(pipe))
    BY <2>1 DEF ServerFollows
  <2> QED
    BY <1>1, <1>3, <2>1, <2>2
<1>6. CASE Connect
  <2>1. /\ UNCHANGED <<pipe, lastEventId, heard>> /\ server.at = "closed"
        /\ server' = [at |-> "top", last |-> lastEventId, from |-> 0]
    BY <1>6 DEF Connect
  <2>2. lastEventId = LastAfter(Len(pipe))
    BY <2>1, EmptySeq DEF ServerFollows, LastAfter
  <2> QED
    BY <1>1, <1>3, <2>1, <2>2
<1>7. CASE Drop
  <2>1. /\ server' = [at |-> "closed", last |-> 0, from |-> 0] /\ pipe' = <<>>
        /\ UNCHANGED <<lastEventId, heard, stream, trimmed>>
    BY <1>7 DEF Drop, vars
  <2>2. Len(pipe') = 0 /\ pipe' \in Seq(DOMAIN stream)
    BY <2>1, EmptySeq
  <2>3. IdsExist' /\ ServerFollows'
    BY <2>1, <2>2 DEF IdsExist, ServerFollows
  <2>4. HeardAfter(0)' = HeardAfter(0) /\ LastAfter(0)' = LastAfter(0)
    BY <2>1 DEF HeardAfter, LastAfter
  <2>5. StudentIds' = StudentIds /\ CatalogIds' = CatalogIds
    BY <2>1 DEF StudentIds, CatalogIds
  <2>6. 0 \in 0..Len(pipe) /\ \A n \in 0..Len(pipe') : n = 0
    BY <2>2, LenProperties DEF IdsExist
  <2>7. PipeIsComplete'
    BY <2>1, <2>4, <2>5, <2>6 DEF PipeIsComplete, Complete, BehindFullBatch
  <2> QED
    BY <2>3, <2>7
<1>8. Reader \/ UNCHANGED feed
  <2>1. ASSUME Page
        PROVE  UNCHANGED feed
    <3>1. ASSUME NEW l \in Loads, LoadRead(l) \/ LoadArrives(l) \/ ShowArrives(l)
          PROVE  UNCHANGED feed
      BY <3>1 DEF LoadRead, LoadArrives, ShowArrives
    <3>2. ASSUME NEW h \in Handlers,
                 (\E k \in Keys : AskForSecret(h, k)) \/ SecretArrives(h)
          PROVE  UNCHANGED feed
      BY <3>2 DEF AskForSecret, SecretArrives
    <3>3. ASSUME ClaimFails \/ CopySecret \/ \E confirmed \in BOOLEAN : CloseSecret(confirmed)
          PROVE  UNCHANGED feed
      BY <3>3 DEF ClaimFails, CopySecret, CloseSecret
    <3> QED
      BY <2>1, <3>1, <3>2, <3>3 DEF Page
  <2>2. CatalogChanges => UNCHANGED feed
    BY DEF CatalogChanges
  <2> QED
    BY <2>1, <2>2 DEF NoticesNext, allVars
<1> QED
  BY <1>2, <1>4, <1>5, <1>6, <1>7, <1>8, DeliverStep, HearStep DEF Reader

-------------------------------------------------------------------------------
(* What the page shows *)

LoadRecord == [at : {"none", "asked", "read", "show"}, changed : Keys \cup {NoKey},
               got : [Keys -> Statuses]]

\* A page that has read nothing shows every key as not there, which none is behind.
LEMMA NothingRead ==
    ASSUME KeyInv
    PROVE  /\ NoLoad \in LoadRecord
           /\ \A k \in Keys : NoLoad.got[k] = "none" /\ Reached(k, "none")
<1>1. \A k \in Keys : row[k].status \in Statuses
  BY DEF KeyInv, TypeOK
<1>2. \A k \in Keys : Reached(k, "none")
  <2>1. \A s \in Statuses : s = "none" \/ Stage[s] > Stage["none"]
    BY DEF Stage, Statuses
  <2>2. ASSUME NEW k \in Keys
        PROVE  Reached(k, "none")
    <3>1. PICK s \in Statuses : s = row[k].status
      BY <1>1
    <3>2. s = "none" \/ Stage[s] > Stage["none"]
      BY <2>1
    <3> QED
      BY <3>1, <3>2 DEF Reached
  <2> QED
    BY <2>2
<1>3. NoLoad \in LoadRecord /\ \A k \in Keys : NoLoad.got[k] = "none"
  BY DEF NoLoad, LoadRecord, Statuses
<1> QED
  BY <1>2, <1>3

\* A read that is asked for has nothing yet.
LEMMA StartLoadStep ==
    ASSUME KeyInv, NEW changed \in Keys \cup {NoKey}, StartLoad(changed)
    PROVE  \E l \in Loads : \E r \in LoadRecord :
               load' = [load EXCEPT ![l] = r] /\ \A k \in Keys : Reached(k, r.got[k])
<1> DEFINE r == [NoLoad EXCEPT !.at = "asked", !.changed = changed]
<1>1. PICK l \in Loads : load' = [load EXCEPT ![l] = r]
  BY DEF StartLoad
<1>2. r \in LoadRecord /\ r.got = NoLoad.got
  BY NothingRead DEF LoadRecord
<1> HIDE DEF r
<1>3. ASSUME NEW k \in Keys
      PROVE  Reached(k, r.got[k])
  <2>1. r.got[k] = "none" /\ Reached(k, "none")
    BY <1>2, NothingRead
  <2> QED
    BY <2>1
<1> QED
  BY <1>1, <1>2, <1>3

\* What a step may do to the page: nothing but what is behind the rows gets there.
LEMMA PageSteps ==
    ASSUME NoticesInv, [NoticesNext]_allVars
    PROVE  /\ shown' = shown \/ \E l \in Loads : shown' = load[l].got
           /\ \/ load' = load
              \/ \E l \in Loads : \E r \in LoadRecord :
                    load' = [load EXCEPT ![l] = r] /\ \A k \in Keys : Reached(k, r.got[k])
           /\ asking' \in Handlers \cup {NoOne}
           /\ \/ secret' \in {secret, NoKey}
              \/ \E h \in Handlers : task[h].action = "claimed" /\ Answer(h) /\ secret' = Key(h)
<1> DEFINE Got == \E l \in Loads : \E r \in LoadRecord :
                    load' = [load EXCEPT ![l] = r] /\ \A k \in Keys : Reached(k, r.got[k])
           Real == \E h \in Handlers : task[h].action = "claimed" /\ Answer(h) /\ secret' = Key(h)
<1>1. /\ load \in [Loads -> LoadRecord] /\ asking \in Handlers \cup {NoOne} /\ KeyInv
      /\ \A k \in Keys : \A l \in Loads : Reached(k, load[l].got[k])
      /\ \A h \in Handlers : Key(h) \in Keys /\ (step[h] = "answer" => task[h].action = "claimed")
  BY DEF NoticesInv, PageTypes, PageBehind, LoadRecord, KeyInv, TypeOK, TasksAreDecisions, Key
<1>2. CASE UNCHANGED <<page, asking>>
  BY <1>1, <1>2 DEF page
<1>3. ASSUME NEW l \in Loads, LoadRead(l)
      PROVE  UNCHANGED <<shown, asking, secret>> /\ Got
  <2> DEFINE r == [load[l] EXCEPT !.at = "read", !.got = [k \in Keys |-> row[k].status]]
  <2>1. load' = [load EXCEPT ![l] = r] /\ UNCHANGED <<shown, asking, secret>>
    <3> DEFINE got == [k \in Keys |-> row[k].status]
    <3>1. load' = [load EXCEPT ![l].at = "read", ![l].got = got]
      BY <1>3 DEF LoadRead
    <3> HIDE DEF got
    <3>2. load' = [load EXCEPT ![l] = [load[l] EXCEPT !.at = "read", !.got = got]]
      BY <1>1, <3>1
    <3> QED
      BY <1>3, <3>2 DEF LoadRead, got
  <2>2. [k \in Keys |-> row[k].status] \in [Keys -> Statuses] /\ load[l] \in LoadRecord
    BY <1>1 DEF KeyInv, TypeOK
  <2>3. r \in LoadRecord /\ r.got = [k \in Keys |-> row[k].status]
    <3> DEFINE got == [k \in Keys |-> row[k].status]
    <3> HIDE DEF got
    <3>1. [load[l] EXCEPT !.at = "read", !.got = got] \in LoadRecord
      BY <2>2 DEF LoadRecord, got
    <3>2. [load[l] EXCEPT !.at = "read", !.got = got].got = got
      BY <2>2 DEF LoadRecord
    <3> QED
      BY <3>1, <3>2 DEF got
  <2> HIDE DEF r
  <2>4. \A k \in Keys : Reached(k, r.got[k])
    BY <2>3 DEF Reached
  <2> QED
    BY <2>1, <2>3, <2>4
<1>4. ASSUME NEW l \in Loads, LoadArrives(l)
      PROVE  UNCHANGED <<asking, secret>> /\ shown' = load[l].got /\ Got
  <2> DEFINE r == IF load[l].changed = NoKey THEN NoLoad
                  ELSE [NoLoad EXCEPT !.at = "show", !.changed = load[l].changed]
  <2>1. load' = [load EXCEPT ![l] = r] /\ UNCHANGED <<asking, secret>> /\ shown' = load[l].got
    BY <1>4 DEF LoadArrives
  <2>2. r \in LoadRecord /\ r.got = NoLoad.got
    BY <1>1, NothingRead DEF LoadRecord
  <2> HIDE DEF r
  <2>3. \A k \in Keys : Reached(k, r.got[k])
    BY <1>1, <2>2, NothingRead
  <2> QED
    BY <2>1, <2>2, <2>3
<1>5. ASSUME NEW l \in Loads, ShowArrives(l)
      PROVE  UNCHANGED <<shown, asking>> /\ secret' = NoKey /\ Got
  <2>1. load' = [load EXCEPT ![l] = NoLoad] /\ UNCHANGED <<shown, asking>> /\ secret' = NoKey
    BY <1>5 DEF ShowArrives
  <2>2. NoLoad \in LoadRecord /\ \A k \in Keys : Reached(k, NoLoad.got[k])
    BY <1>1, NothingRead
  <2> QED
    BY <2>1, <2>2
<1>6. CASE Connect
  <2>1. StartLoad(NoKey) /\ UNCHANGED <<shown, secret, asking>>
    BY <1>6 DEF Connect
  <2>2. Got
    BY <1>1, <2>1, StartLoadStep
  <2> QED
    BY <1>1, <2>1, <2>2
<1>7. CASE Hear
  <2>1. PICK changed \in {stream[Head(pipe)].key, NoKey} : StartLoad(changed)
    BY <1>7 DEF Hear
  <2>2. UNCHANGED <<shown, secret, asking>> /\ pipe # <<>>
    BY <1>7 DEF Hear
  <2>3. stream[Head(pipe)] \in Event
    <3>1. stream \in Seq(Event) /\ pipe \in Seq(DOMAIN stream)
      BY <1>1 DEF KeyInv, TypeOK, Event, NoticesInv, IdsExist
    <3>2. Head(pipe) \in 1..Len(stream)
      BY <2>2, <3>1, HeadTailProperties, LenProperties
    <3> QED
      BY <3>1, <3>2, ElementOfSeq
  <2>4. changed \in Keys \cup {NoKey}
    BY <2>1, <2>3 DEF Event
  <2>5. Got
    BY <1>1, <2>1, <2>4, StartLoadStep
  <2> QED
    BY <1>1, <2>2, <2>5
<1>8. ASSUME NEW h \in Handlers, SecretArrives(h)
      PROVE  UNCHANGED shown /\ asking' = NoOne /\ Got /\ Real
  <2>1. /\ Answer(h) /\ secret' = Key(h) /\ StartLoad(NoKey) /\ asking' = NoOne
        /\ UNCHANGED shown /\ task[h].action = "claimed"
    BY <1>1, <1>8 DEF SecretArrives, Answer
  <2>2. Got
    BY <1>1, <2>1, StartLoadStep
  <2> QED
    BY <2>1, <2>2
<1>9. ASSUME \/ ClaimFails \/ CopySecret
             \/ \E confirmed \in BOOLEAN : CloseSecret(confirmed)
             \/ \E h \in Handlers : \E k \in Keys : AskForSecret(h, k)
      PROVE  /\ UNCHANGED <<shown, load>> /\ secret' \in {secret, NoKey}
             /\ asking' \in Handlers \cup {NoOne}
  BY <1>1, <1>9 DEF ClaimFails, CopySecret, CloseSecret, AskForSecret, page
<1>10. CASE CatalogChanges \/ ServerReads \/ ServerDelivers \/ Heartbeat \/ Drop
  <2>1. UNCHANGED <<page, asking>>
    BY <1>10 DEF CatalogChanges, ServerReads, ServerDelivers, Heartbeat, Drop
  <2> QED
    BY <1>2, <2>1
<1>11. CASE Page
  <2> HIDE DEF Got, Real
  <2>1. CASE \E l \in Loads : LoadRead(l) \/ LoadArrives(l) \/ ShowArrives(l)
    BY <1>1, <1>3, <1>4, <1>5, <2>1 DEF Got
  <2>2. CASE \E h \in Handlers : SecretArrives(h)
    BY <1>8, <2>2 DEF Got, Real
  <2> QED
    BY <1>9, <1>11, <2>1, <2>2 DEF Page
<1>12. CASE UNCHANGED allVars \/ UNCHANGED <<feed, page, asking>>
  BY <1>2, <1>12 DEF allVars
<1> QED
  BY <1>6, <1>7, <1>10, <1>11, <1>12 DEF NoticesNext, Reader

\* The page stays behind, and its secret stays the one that is stored.
LEMMA PageStep ==
    ASSUME NoticesInv, [NoticesNext]_allVars
    PROVE  PageTypes' /\ PageBehind' /\ SecretIsStored'
<1>1. /\ KeyInv /\ PageTypes /\ PageBehind /\ SecretIsStored /\ KeyInv'
      /\ shown \in [Keys -> Statuses] /\ load \in [Loads -> LoadRecord]
  BY LifecycleStep DEF NoticesInv, PageTypes, LoadRecord
<1>2. ASSUME NEW k \in Keys, NEW s \in Statuses, Reached(k, s)
      PROVE  row'[k].status = s \/ Stage[row'[k].status] > Stage[s]
  <2>1. CASE CatalogChanges
    BY <1>2, <2>1 DEF CatalogChanges, Reached
  <2>2. CASE [Next]_vars
    BY <1>1, <1>2, <2>2, ReachedStays DEF Reached
  <2> QED
    BY <1>1, <2>1, <2>2, LifecycleSteps
<1>3. \A k \in Keys : Reached(k, shown[k]) /\ \A l \in Loads : Reached(k, load[l].got[k])
  BY <1>1 DEF PageBehind
<1>4. /\ shown' \in [Keys -> Statuses]
      /\ \A k \in Keys : Reached(k, shown'[k])
  <2>1. CASE shown' = shown
    BY <1>1, <1>3, <2>1
  <2>2. ASSUME NEW l \in Loads, shown' = load[l].got
        PROVE  shown' \in [Keys -> Statuses] /\ \A k \in Keys : Reached(k, shown'[k])
    BY <1>1, <1>3, <2>2 DEF LoadRecord
  <2> QED
    BY <2>1, <2>2, PageSteps
<1>5. /\ load' \in [Loads -> LoadRecord]
      /\ \A k \in Keys : \A l \in Loads : Reached(k, load'[l].got[k])
  <2>1. CASE load' = load
    BY <1>1, <1>3, <2>1
  <2>2. ASSUME NEW l \in Loads, NEW r \in LoadRecord, load' = [load EXCEPT ![l] = r],
               \A k \in Keys : Reached(k, r.got[k])
        PROVE  /\ load' \in [Loads -> LoadRecord]
               /\ \A k \in Keys : \A x \in Loads : Reached(k, load'[x].got[k])
    BY <1>1, <1>3, <2>2
  <2> QED
    BY <2>1, <2>2, PageSteps
<1>6. PageBehind'
  <2>1. ASSUME NEW k \in Keys
        PROVE  \/ row'[k].status = shown'[k]
               \/ Stage[row'[k].status] > Stage[shown'[k]]
    BY <1>2, <1>4
  <2>2. ASSUME NEW k \in Keys, NEW l \in Loads
        PROVE  \/ row'[k].status = load'[l].got[k]
               \/ Stage[row'[k].status] > Stage[load'[l].got[k]]
    <3>1. load'[l].got[k] \in Statuses /\ Reached(k, load'[l].got[k])
      BY <1>5 DEF LoadRecord
    <3> QED
      BY <1>2, <3>1
  <2> QED
    BY <2>1, <2>2 DEF PageBehind, Reached
<1>7. PageTypes' /\ SecretIsStored'
  <2>1. \A k \in Keys : row[k].hash = 1 => row'[k].hash = 1
    <3>1. CASE CatalogChanges
      BY <3>1 DEF CatalogChanges
    <3> QED
      BY <1>1, <3>1, SecretsStep, LifecycleSteps
  <2>2. \A k \in Keys : handed[k] = {1} => handed'[k] = {1}
    <3>1. handed' = handed \/ \E h \in Handlers : Answer(h)
      <4>1. CASE CatalogChanges
        BY <4>1 DEF CatalogChanges
      <4>2. CASE [Next]_vars
        BY <4>2 DEF Next, vars, Serve, SubmitAPIKey, ClaimAPIKey, ApproveKey, RevokeKey, UpdateKeyQuota,
                    ReadPending, SetMentorQuota, Decide, Commit, Publish, Abandon
      <4> QED
        BY <1>1, <4>1, <4>2, LifecycleSteps
    <3>2. \A k \in Keys : handed'[k] \subseteq {1}
      BY <1>1 DEF KeyInv, HandedOnce
    <3>3. handed \in [Keys -> SUBSET Nat] /\ \A h \in Handlers : Key(h) \in Keys
      BY <1>1 DEF KeyInv, TypeOK, Key
    <3>4. ASSUME NEW h \in Handlers, Answer(h), NEW k \in Keys, handed[k] = {1}
          PROVE  handed'[k] = {1}
      <4>1. handed[k] \subseteq handed'[k]
        BY <3>3, <3>4 DEF Answer
      <4> QED
        BY <3>2, <3>4, <4>1
    <3> QED
      BY <3>1, <3>4
  <2>3. ASSUME NEW h \in Handlers, task[h].action = "claimed", Answer(h), secret' = Key(h)
        PROVE  secret' \in Keys /\ row'[secret'].hash = 1 /\ handed'[secret'] = {1}
    <3>1. /\ Key(h) \in Keys /\ row[Key(h)].hash = 1 /\ task[h].secret = 1
          /\ handed \in [Keys -> SUBSET Nat] /\ handed[Key(h)] \subseteq {1}
      BY <1>1, <2>3 DEF KeyInv, TypeOK, SecretsAreClaimed, HandedOnce, Key
    <3>2. handed'[Key(h)] = handed[Key(h)] \cup {1} /\ row' = row
      BY <2>3, <3>1 DEF Answer
    <3> QED
      BY <2>3, <3>1, <3>2
  <2>4. secret \in Keys \cup {NoKey}
    BY <1>1 DEF PageTypes
  <2>5. CASE secret' \in {secret, NoKey}
    <3>1. SecretIsStored'
      BY <1>1, <2>1, <2>2, <2>4, <2>5 DEF SecretIsStored
    <3> QED
      BY <1>4, <1>5, <2>4, <2>5, <3>1, PageSteps DEF PageTypes, LoadRecord
  <2>6. CASE \E h \in Handlers : task[h].action = "claimed" /\ Answer(h) /\ secret' = Key(h)
    BY <1>4, <1>5, <2>3, <2>6, PageSteps DEF PageTypes, LoadRecord, SecretIsStored
  <2> QED
    BY <2>5, <2>6, PageSteps
<1> QED
  BY <1>6, <1>7

-------------------------------------------------------------------------------
(* Theorems of the composition *)

\* Before the first connection the page knows nothing.
LEMMA NoticesInitInv == NoticesInit => NoticesInv
<1> SUFFICES ASSUME NoticesInit
             PROVE  NoticesInv
  OBVIOUS
<1>1. KeyInv
  BY InitInv DEF NoticesInit
<1>2. /\ server = [at |-> "closed", last |-> 0, from |-> 0] /\ pipe = <<>> /\ lastEventId = 0
      /\ heard = {} /\ shown = [k \in Keys |-> "none"] /\ load = [l \in Loads |-> NoLoad]
      /\ asking = NoOne /\ secret = NoKey
  BY DEF NoticesInit
<1>3. Len(stream) \in Nat /\ pipe \in Seq(DOMAIN stream) /\ Len(pipe) = 0
  BY <1>1, <1>2, StreamIds, EmptySeq
<1>4. IdsExist /\ ServerFollows /\ TrimsExist
  BY <1>2, <1>3 DEF IdsExist, ServerFollows, TrimsExist, NoticesInit
<1>5. PipeIsComplete
  <2>1. HeardAfter(0) = {}
    BY <1>2 DEF HeardAfter
  <2> QED
    BY <1>3, <2>1 DEF PipeIsComplete, Complete
<1>6. PageTypes
  BY <1>1, <1>2, NothingRead DEF PageTypes, LoadRecord, Statuses
<1>7. PageBehind
  <2>1. ASSUME NEW k \in Keys
        PROVE  Reached(k, shown[k]) /\ \A l \in Loads : Reached(k, load[l].got[k])
    <3>1. NoLoad.got[k] = "none" /\ Reached(k, "none")
      BY <1>1, NothingRead
    <3>2. shown[k] = "none" /\ \A l \in Loads : load[l].got[k] = "none"
      BY <1>2, <3>1
    <3> QED
      BY <3>1, <3>2
  <2> QED
    BY <2>1 DEF PageBehind
<1>8. SecretIsStored
  BY <1>2 DEF SecretIsStored
<1> QED
  BY <1>1, <1>4, <1>5, <1>6, <1>7, <1>8 DEF NoticesInv

\* What the handlers, the feed and the page rely on, always, however they interleave.
THEOREM NoticesInvariant == NoticesSpec => []NoticesInv
<1>1. NoticesInv /\ [NoticesNext]_allVars => NoticesInv'
  BY LifecycleStep, TrimStep, FeedStep, PageStep DEF NoticesInv
<1> QED
  BY <1>1, NoticesInitInv, PTL DEF NoticesSpec

\* However often the connection breaks, a page that has heard one event of its student hears all
\* that follow, but for those the stream is trimmed of and those left behind a full batch.
THEOREM NothingIsSkipped == NoticesSpec => []NothingSkipped
<1>1. NoticesInv => NothingSkipped
  <2>1. ASSUME NoticesInv
        PROVE  Complete(heard, lastEventId)
    <3>1. 0 \in 0..Len(pipe)
      BY <2>1, LenProperties DEF NoticesInv, IdsExist
    <3>2. HeardAfter(0) = heard /\ LastAfter(0) = lastEventId
      BY DEF HeardAfter, LastAfter
    <3> QED
      BY <2>1, <3>1, <3>2 DEF NoticesInv, PipeIsComplete
  <2> QED
    BY <2>1 DEF NothingSkipped, Complete
<1> QED
  BY <1>1, NoticesInvariant, PTL

\* In whatever order its reads are answered, the page shows only what has been committed, and its
\* secret is the one that the gateway accepts for that key.
THEOREM PageIsHonest == NoticesSpec => [](PageBehind /\ SecretIsStored)
<1>1. NoticesInv => PageBehind /\ SecretIsStored
  BY DEF NoticesInv
<1> QED
  BY <1>1, NoticesInvariant, PTL

\* With the page, the events and the broken connections around it, a key is still decided once,
\* claimed once and told of truthfully.
THEOREM LifecycleIsKept ==
    NoticesSpec => [](TypeOK /\ AuditsTellStatus /\ QuotasAreDecided /\ EventsFollowCommits)
<1>1. NoticesInv => TypeOK /\ AuditsTellStatus /\ QuotasAreDecided /\ EventsFollowCommits
  BY DEF NoticesInv, KeyInv
<1> QED
  BY <1>1, NoticesInvariant, PTL

===============================================================================
