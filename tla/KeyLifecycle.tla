---------------------------- MODULE KeyLifecycle ----------------------------
(***************************************************************************)
(* The way of an API key from its application to its end: SubmitAPIKey and  *)
(* ClaimAPIKey (internal/controlplane/student.go), ReviewKeyAsMentor and    *)
(* RevokeKeyAsMentor (mentor.go), ReviewKeyAsTeacher (teacher.go), with the *)
(* transactions of internal/usage/store.go that two of them call.           *)
(*                                                                         *)
(* Handlers serve requests of mentors, teachers and the student at the same *)
(* time.  A review reads the status without a lock and decides later, with  *)
(* an UPDATE that takes the row's lock and looks at the status again; what  *)
(* a transaction has written is its own until it commits.  The status is    *)
(* published to the student's event stream after the commit, by another     *)
(* statement that may fail or never come.                                   *)
(*                                                                         *)
(* Credits are left to CreditLedger.  A quota goes by the name of the       *)
(* handler that set it, the secret of a key by a number.  An actor who is   *)
(* not responsible, or a value out of range, is refused before anything is  *)
(* written: that request is a stutter here.  MaxAdjustments bounds what is  *)
(* not bounded in the code: how often the quota of a key is set again.      *)
(***************************************************************************)
EXTENDS Integers, Sequences

CONSTANTS
    Keys,       \* the rows of api_keys one student may create, all of one name
    Handlers,   \* what serves requests at one time
    NoOne,      \* no handler
    NoKey,      \* no key: the one an event of the catalog is of
    MaxAdjustments, \* how often the quota of a key is set after its approval
    Faults      \* what a run lets go wrong: "request", "redis"

ASSUME KeysAssumption == Keys # {} /\ NoOne \notin Handlers /\ NoKey \notin Keys
ASSUME AdjustmentsAssumption == MaxAdjustments \in Nat

VARIABLES
    row,        \* api_keys, as committed
    audits,     \* api_key_audits of each key, in order
    adjustments,\* quota_adjustment_audits of each key: who set its quota after the approval
    lock,       \* the transaction that has written the row and not ended
    step,       \* where a handler is
    task,       \* the decision it makes, and of which key
    stream,     \* the events of the student, and of the catalog, as published
    handed      \* the secrets given to the student, for each key

vars == <<row, audits, adjustments, lock, step, task, stream, handed>>

Statuses == {"none", "pending_mentor", "pending_teacher", "approved", "active",
             "rejected", "revoked"}

\* Mutant: a status by the name the page gives to the progress of a key.
DecisionsByProgress ==
    [mentor_approved  |-> [from |-> "pending_mentor",  to |-> "teacher_review"],
     mentor_rejected  |-> [from |-> "pending_mentor",  to |-> "rejected"],
     teacher_rejected |-> [from |-> "pending_teacher", to |-> "rejected"]]

\* What a review may decide: the status it takes, the status it gives, the audit it leaves.
Decisions ==
    [mentor_approved  |-> [from |-> "pending_mentor",  to |-> "pending_teacher"],
     mentor_rejected  |-> [from |-> "pending_mentor",  to |-> "rejected"],
     teacher_rejected |-> [from |-> "pending_teacher", to |-> "rejected"]]

\* api_keys_owner_name_live: the rows among which a name is unique.
Live == {"pending_mentor", "pending_teacher", "approved", "active"}

Blank == [status |-> "none", mentorQuota |-> NoOne, quota |-> NoOne, hash |-> 0]

\* A handler that is idle has no task.
NoTask == [action |-> "none", key |-> CHOOSE k \in Keys : TRUE, to |-> "none",
           withQuota |-> FALSE, secret |-> 0]

Init ==
    /\ row = [k \in Keys |-> Blank]
    /\ audits = [k \in Keys |-> <<>>]
    /\ adjustments = [k \in Keys |-> <<>>]
    /\ lock = [k \in Keys |-> NoOne]
    /\ step = [h \in Handlers |-> "idle"]
    /\ task = [h \in Handlers |-> NoTask]
    /\ stream = <<>>
    /\ handed = [k \in Keys |-> {}]

-------------------------------------------------------------------------------
(* What the handlers share. *)

Key(h) == task[h].key

\* The handler's next statement is at step s.
To(h, s) == step' = [step EXCEPT ![h] = s]

\* The handler takes up a request that ends in the given action and status.
TakeUp(h, action, k, to) ==
    /\ step[h] = "idle"
    /\ task' = [task EXCEPT ![h] = [NoTask EXCEPT !.action = action, !.key = k, !.to = to]]

Done(h) == task' = [task EXCEPT ![h] = NoTask]

\* A statement that writes the row waits for the transaction that has.
MayWrite(h, k) == lock[k] \in {NoOne, h}

Audited(k, action, h) ==
    audits' = [audits EXCEPT ![k] = Append(@, [action |-> action, by |-> h])]

\* A transaction ends: its lock is free.
Unlock(h) == lock' = [k \in Keys |-> IF lock[k] = h THEN NoOne ELSE lock[k]]

-------------------------------------------------------------------------------
(* The student applies and claims. *)

\* SubmitAPIKey: one transaction, whose only conflict is the name.
SubmitAPIKey(h, k) ==
    /\ row[k].status = "none"
    /\ \A other \in Keys : row[other].status \notin Live
    /\ TakeUp(h, "submitted", k, "pending_mentor")
    /\ To(h, "publish")
    /\ row' = [row EXCEPT ![k].status = "pending_mentor"]
    /\ UNCHANGED <<audits, adjustments, lock, stream, handed>>

\* NewAPIKey, and the UPDATE that stores its hash.
StoreSecret(h, k) ==
    LET secret == row[k].hash + 1 IN
    /\ step[h] = "idle"
    /\ task' = [task EXCEPT ![h] = [NoTask EXCEPT !.action = "claimed", !.key = k,
                                                 !.to = "active", !.secret = secret]]
    /\ row' = [row EXCEPT ![k].status = "active", ![k].hash = secret]

\* Mutant: a claim that finds the key by its id and owner alone.
ClaimAnyKey(h, k) ==
    /\ row[k].status \in {"approved", "active"}
    /\ MayWrite(h, k)
    /\ StoreSecret(h, k)
    /\ To(h, "publish")
    /\ UNCHANGED <<audits, adjustments, lock, stream, handed>>

\* ClaimAPIKey: one UPDATE, which commits by itself.  The secret is in the answer alone.
ClaimAPIKey(h, k) ==
    /\ row[k].status = "approved"
    /\ MayWrite(h, k)
    /\ StoreSecret(h, k)
    /\ To(h, "publish")
    /\ UNCHANGED <<audits, adjustments, lock, stream, handed>>

\* The answer to a claim, with the secret whose hash the claim has stored.
Answer(h) ==
    /\ step[h] = "answer"
    /\ To(h, "idle")
    /\ Done(h)
    /\ handed' = [handed EXCEPT ![Key(h)] = @ \cup {task[h].secret}]
    /\ UNCHANGED <<row, audits, adjustments, lock, stream>>

-------------------------------------------------------------------------------
(* The reviews. *)

\* The status is read without a lock.
ReadPending(h, k, action) ==
    /\ row[k].status = Decisions[action].from
    /\ TakeUp(h, action, k, Decisions[action].to)
    /\ \/ To(h, "decide")
       \/ action = "mentor_approved" /\ To(h, "quota")
    /\ UNCHANGED <<row, audits, adjustments, lock, stream, handed>>

\* Mutant: the mentor's quota is stored outside the transaction.
SetMentorQuotaAtOnce(h) ==
    /\ step[h] = "quota"
    /\ MayWrite(h, Key(h))
    /\ To(h, "decide")
    /\ row' = [row EXCEPT ![Key(h)].mentorQuota = h]
    /\ UNCHANGED <<audits, adjustments, lock, task, stream, handed>>

\* ReviewKeyAsMentor stores the mentor's quota by the key's id, whatever its status is now.
SetMentorQuota(h) ==
    /\ step[h] = "quota"
    /\ MayWrite(h, Key(h))
    /\ To(h, "decide")
    /\ lock' = [lock EXCEPT ![Key(h)] = h]
    /\ task' = [task EXCEPT ![h].withQuota = TRUE]
    /\ UNCHANGED <<row, audits, adjustments, stream, handed>>

\* Mutant: the decision is published before it is committed.
DecideAndTell(h) ==
    /\ step[h] = "decide"
    /\ MayWrite(h, Key(h))
    /\ IF row[Key(h)].status = Decisions[task[h].action].from
       THEN /\ To(h, "commit")
            /\ lock' = [lock EXCEPT ![Key(h)] = h]
            /\ stream' = Append(stream, [key |-> Key(h), status |-> task[h].to])
            /\ UNCHANGED task
       ELSE /\ To(h, "idle") /\ Unlock(h) /\ Done(h) /\ UNCHANGED stream
    /\ UNCHANGED <<row, audits, adjustments, handed>>

\* Mutant: the UPDATE asks for the id alone.
DecideAnyway(h) ==
    /\ step[h] = "decide"
    /\ MayWrite(h, Key(h))
    /\ To(h, "commit")
    /\ lock' = [lock EXCEPT ![Key(h)] = h]
    /\ UNCHANGED <<row, audits, adjustments, task, stream, handed>>

\* The UPDATE of the status, which finds the row as it was read or the review ends.
Decide(h) ==
    /\ step[h] = "decide"
    /\ MayWrite(h, Key(h))
    /\ IF row[Key(h)].status = Decisions[task[h].action].from
       THEN /\ To(h, "commit")
            /\ lock' = [lock EXCEPT ![Key(h)] = h]
            /\ UNCHANGED task
       ELSE To(h, "idle") /\ Unlock(h) /\ Done(h)
    /\ UNCHANGED <<row, audits, adjustments, stream, handed>>

\* The audit, and the commit.
Commit(h) ==
    /\ step[h] = "commit"
    /\ To(h, "publish")
    /\ row' = [row EXCEPT ![Key(h)].status = task[h].to,
                          ![Key(h)].mentorQuota = IF task[h].withQuota THEN h ELSE @]
    /\ Audited(Key(h), task[h].action, h)
    /\ Unlock(h)
    /\ UNCHANGED <<adjustments, task, stream, handed>>

\* ApproveKey: it locks the project and the key before it looks at the status.
ApproveKey(h, k) ==
    /\ row[k].status = "pending_teacher"
    /\ MayWrite(h, k)
    /\ TakeUp(h, "teacher_approved", k, "approved")
    /\ To(h, "publish")
    /\ row' = [row EXCEPT ![k].status = "approved", ![k].quota = h]
    /\ Audited(k, "teacher_approved", h)
    /\ UNCHANGED <<adjustments, lock, stream, handed>>

\* RevokeKey, locked in the same way.
RevokeKey(h, k) ==
    /\ row[k].status = "active"
    /\ MayWrite(h, k)
    /\ TakeUp(h, "mentor_revoked", k, "revoked")
    /\ To(h, "publish")
    /\ row' = [row EXCEPT ![k].status = "revoked"]
    /\ Audited(k, "mentor_revoked", h)
    /\ UNCHANGED <<adjustments, lock, stream, handed>>

\* UpdateKeyQuota of a mentor: another quota for a key in use, recorded, and not published.
UpdateKeyQuota(h, k) ==
    /\ step[h] = "idle"
    /\ row[k].status \in {"approved", "active"}
    /\ MayWrite(h, k)
    /\ Len(adjustments[k]) < MaxAdjustments
    /\ row' = [row EXCEPT ![k].quota = h]
    /\ adjustments' = [adjustments EXCEPT ![k] = Append(@, h)]
    /\ UNCHANGED <<audits, lock, step, task, stream, handed>>

-------------------------------------------------------------------------------
(* After the commit, and what goes wrong. *)

\* publishKeyStatus.  Its error is ignored; a claim has still to be answered.
Publish(h) ==
    /\ step[h] = "publish"
    /\ IF task[h].action = "claimed"
       THEN To(h, "answer") /\ UNCHANGED task
       ELSE To(h, "idle") /\ Done(h)
    /\ \/ stream' = Append(stream, [key |-> Key(h), status |-> task[h].to])
       \/ "redis" \in Faults /\ UNCHANGED stream
    /\ UNCHANGED <<row, audits, adjustments, lock, handed>>

\* A statement fails, the client leaves or the process dies: the transaction is rolled back,
\* and what should have followed a commit does not.
Abandon(h) ==
    /\ "request" \in Faults
    /\ step[h] # "idle"
    /\ To(h, "idle")
    /\ Done(h)
    /\ Unlock(h)
    /\ UNCHANGED <<row, audits, adjustments, stream, handed>>

Serve(h) ==
    \/ \E k \in Keys :
        \/ SubmitAPIKey(h, k)
        \/ \E action \in DOMAIN Decisions : ReadPending(h, k, action)
        \/ ApproveKey(h, k)
        \/ RevokeKey(h, k)
        \/ UpdateKeyQuota(h, k)
    \/ SetMentorQuota(h)
    \/ Decide(h)
    \/ Commit(h)
    \/ Publish(h)
    \/ Abandon(h)

Next == \E h \in Handlers : Serve(h) \/ Answer(h) \/ \E k \in Keys : ClaimAPIKey(h, k)

Spec == Init /\ [][Next]_vars

-------------------------------------------------------------------------------
(* Properties. *)

AuditedActions == {"mentor_approved", "mentor_rejected", "teacher_approved",
                   "teacher_rejected", "mentor_revoked"}

TypeOK ==
    /\ row \in [Keys -> [status : Statuses, mentorQuota : Handlers \cup {NoOne},
                         quota : Handlers \cup {NoOne}, hash : Nat]]
    /\ audits \in [Keys -> Seq([action : AuditedActions, by : Handlers])]
    /\ adjustments \in [Keys -> Seq(Handlers)]
    /\ lock \in [Keys -> Handlers \cup {NoOne}]
    /\ step \in [Handlers -> {"idle", "quota", "decide", "commit", "publish", "answer"}]
    /\ task \in [Handlers -> [action : AuditedActions \cup {"none", "submitted", "claimed"},
                              key : Keys, to : Statuses, withQuota : BOOLEAN, secret : Nat]]
    /\ stream \in Seq([key : Keys \cup {NoKey}, status : Statuses])
    /\ handed \in [Keys -> SUBSET Nat]

Actions(k) == [i \in DOMAIN audits[k] |-> audits[k][i].action]

\* The audits that lead to each status, docs/DATABASE.md:270-285.
Story ==
    [none            |-> {<<>>},
     pending_mentor  |-> {<<>>},
     pending_teacher |-> {<<"mentor_approved">>},
     approved        |-> {<<"mentor_approved", "teacher_approved">>},
     active          |-> {<<"mentor_approved", "teacher_approved">>},
     rejected        |-> {<<"mentor_rejected">>, <<"mentor_approved", "teacher_rejected">>},
     revoked         |-> {<<"mentor_approved", "teacher_approved", "mentor_revoked">>}]

\* A key is decided by one mentor and then by one teacher, however many review it at the same
\* time: its audits are one of the ways to its status (the guarded UPDATEs, mentor.go:255-264).
AuditsTellStatus == \A k \in Keys : Actions(k) \in Story[row[k].status]

IsAudited(k, action, h) == \E i \in DOMAIN audits[k] : audits[k][i] = [action |-> action, by |-> h]

\* The mentor's quota of a key is that of the mentor who approved it, not of one whose review came
\* too late (mentor.go:251 stores the quota before the status is looked at again); its own quota is
\* that of the teacher who approved it, or of the mentor who set it last since, and an approval
\* that comes late never takes such a change back (store.go:253, 337).
QuotasAreDecided ==
    \A k \in Keys :
        /\ row[k].mentorQuota # NoOne => IsAudited(k, "mentor_approved", row[k].mentorQuota)
        /\ adjustments[k] = <<>> /\ row[k].quota # NoOne =>
               IsAudited(k, "teacher_approved", row[k].quota)
        /\ adjustments[k] # <<>> =>
               /\ \E h \in Handlers : IsAudited(k, "teacher_approved", h)
               /\ row[k].quota = adjustments[k][Len(adjustments[k])]

\* A student is given one secret of a key at most, and it is the one the gateway accepts
\* (student.go:298-308; docs/API_DOCUMENTATION.md:267).
OneSecret == \A k \in Keys : handed[k] \subseteq {row[k].hash} /\ row[k].hash <= 1

\* How far a key has come.
Stage == [none |-> 0, pending_mentor |-> 1, pending_teacher |-> 2, approved |-> 3,
          active |-> 4, rejected |-> 5, revoked |-> 5]

\* An event tells of a change that is committed, so that a page which reads the keys when it
\* hears one sees at least that change (service.go:196, docs/API_DOCUMENTATION.md:196).
EventsFollowCommits ==
    \A i \in DOMAIN stream : \A k \in Keys :
        stream[i].key = k =>
            \/ row[k].status = stream[i].status
            \/ Stage[row[k].status] > Stage[stream[i].status]

===============================================================================
