----------------------------- MODULE CreditLedger -----------------------------
(***************************************************************************)
(* The monthly credit ledger of internal/usage/store.go.                    *)
(*                                                                         *)
(* Every gateway call reserves the credits of its model in two buckets, the *)
(* one of its API key and the one of its project, for one Shanghai month;   *)
(* it is settled later by whoever comes first: the gateway worker that      *)
(* made it (Finalize), the maintenance process that finds its lease expired *)
(* (RecoverExpired), or the mentor who revokes the key (RevokeKey).         *)
(* Teachers and mentors change the quotas meanwhile, and the maintenance    *)
(* process creates the buckets of a new month (EnsureCurrentBuckets).       *)
(*                                                                         *)
(* The transactions that begin with SELECT ... FOR UPDATE on the project    *)
(* (Reserve, ApproveKey, UpdateKeyQuota, UpdateProjectQuota, RevokeKey) are  *)
(* serial for a project, and Finalize takes the rows it shares with them one *)
(* lock at a time, so the writes of each transaction are one action.  What   *)
(* it reads earlier is not: the list of RecoverExpired, the snapshots of    *)
(* EnsureCurrentBuckets, the month of Reserve (read before its locks) and   *)
(* the month of the quota operations (read under the project's lock) are    *)
(* read in one step and used in a later one, and midnight may be between.   *)
(***************************************************************************)
EXTENDS Integers, CreditSums

CONSTANTS
    Projects,       \* projects.id
    Keys,           \* api_keys.id
    Calls,          \* gateway_calls.id: every call that is ever reserved
    ProjectOf,      \* api_keys.project_id
    KeyOf,          \* gateway_calls.api_key_id
    CreditOf,       \* gateway_calls.multiplier_milli, frozen at the reservation
    Prompted,       \* the calls whose request body holds a prompt to monitor
    Quotas,         \* the monthly quotas that are entered
    LastMonth,      \* bound: the clock stops at this month
    MaxResponses,   \* bound: upstream responses (MarkSent) per call
    RecoveryBatch   \* LIMIT of RecoverExpired's query

ASSUME LedgerAssumption ==
    /\ IsFiniteSet(Keys)
    /\ IsFiniteSet(Calls)
    /\ ProjectOf \in [Keys -> Projects]
    /\ KeyOf \in [Calls -> Keys]
    /\ CreditOf \in [Calls -> Nat]
    /\ Prompted \subseteq Calls
    /\ Quotas \subseteq Nat
    /\ LastMonth \in Nat
    /\ MaxResponses \in Nat
    /\ RecoveryBatch \in Nat \ {0}

Months == 0..LastMonth

VARIABLES
    month,          \* Month(time.Now())
    keyStatus,      \* api_keys.status
    keyQuota,       \* api_keys.monthly_credit_quota_milli (0 while NULL)
    projectQuota,   \* projects.monthly_credit_quota_milli
    projectBucket,  \* project_month_credit_buckets, by project and month
    keyBucket,      \* api_key_month_credit_buckets, by key and month
    cube,           \* monthly_usage_cube, by key and month
    callState,      \* gateway_calls.billing_state; "unused": no row yet
    callMonth,      \* gateway_calls.month
    lease,          \* gateway_calls.lease_expires_at
    input,          \* monitored_inputs of the call
    worker,         \* the goroutine that serves the call
    responses,      \* upstream responses its worker has seen
    recovering,     \* the list of a RecoverExpired in progress
    ensure,         \* an EnsureCurrentBuckets transaction in progress
    opMonth,        \* the month that the quota operation has read which midnight has found
                    \* holding a project's lock
    overtaken,      \* the projects whose quotas such an operation has changed in a month before
                    \* ensure's, since ensure has read them
    outdated        \* history: <<project, month>> of the buckets made from such a reading

opVars    == <<opMonth, overtaken, outdated>>
callVars  == <<callState, callMonth, lease, input>>
bookVars  == <<projectBucket, keyBucket, cube>>
quotaVars == <<keyStatus, keyQuota, projectQuota>>
runVars   == <<worker, responses, recovering, ensure, opVars>>
vars      == <<month, callVars, bookVars, quotaVars, runVars>>

-------------------------------------------------------------------------------
(* Rows *)

ProjectBucket == [open : BOOLEAN, quota : Nat, allocated : Nat,
                  charged : Nat, pending : Nat]
KeyBucket     == [open : BOOLEAN, quota : Nat, charged : Nat, pending : Nat]
CubeRow       == [milli : Nat, paid : Nat, free : Nat]

NoProjectBucket == [open |-> FALSE, quota |-> 0, allocated |-> 0,
                    charged |-> 0, pending |-> 0]
NoKeyBucket     == [open |-> FALSE, quota |-> 0, charged |-> 0, pending |-> 0]
NoCubeRow       == [milli |-> 0, paid |-> 0, free |-> 0]

Larger(x, y) == IF x >= y THEN x ELSE y

Live(k)     == keyStatus[k] \in {"approved", "active"}
LiveKeys(p) == {k \in Keys : ProjectOf[k] = p /\ Live(k)}
LiveQuota(p) == SumOver(keyQuota, LiveKeys(p))

\* Mutants: a revocation that leaves calls in flight to maintenance, and one whose query
\* has lost its billing_state condition.
NonePending(k) == {}
AllOf(k) == {c \in Calls : KeyOf[c] = k /\ callState[c] # "unused"}

PendingOf(k) == {c \in Calls : KeyOf[c] = k /\ callState[c] = "pending"}

\* Mutant: a call is only recovered if no upstream ever answered it.
OverdueUnsent == {c \in Calls : /\ callState[c] = "pending" /\ lease[c] = "expired"
                                /\ responses[c] = 0}

Overdue == {c \in Calls : callState[c] = "pending" /\ lease[c] = "expired"}

\* Mutant: a new month's bucket begins with nothing allocated.
OpenedUnallocated(p, m) ==
    IF projectBucket[p][m].open
    THEN projectBucket[p][m]
    ELSE [open |-> TRUE, quota |-> projectQuota[p], allocated |-> 0,
          charged |-> 0, pending |-> 0]

\* INSERT ... ON CONFLICT DO NOTHING followed by SELECT ... FOR UPDATE.
OpenedProjectBucket(p, m) ==
    IF projectBucket[p][m].open
    THEN projectBucket[p][m]
    ELSE [open |-> TRUE, quota |-> projectQuota[p], allocated |-> LiveQuota(p),
          charged |-> 0, pending |-> 0]

OpenedKeyBucket(k, m) ==
    IF keyBucket[k][m].open
    THEN keyBucket[k][m]
    ELSE [open |-> TRUE, quota |-> keyQuota[k], charged |-> 0, pending |-> 0]

\* Reserve's, Finalize's and RevokeKey's updates of either bucket.
Held(b, credit)     == [b EXCEPT !.pending = @ + credit]
Moved(b, credit)    == [b EXCEPT !.pending = @ - credit, !.charged = @ + credit]
Released(b, credit) == [b EXCEPT !.pending = @ - credit]

\* Mutant: calls in flight are not counted against the quota.
AdmitsCharged(b, credit) == credit > 0 => b.charged < b.quota

\* A call of a paid model needs a bucket that is not used up; a free one needs nothing.
Admits(b, credit) == credit > 0 => b.charged + b.pending < b.quota

\* Finalize's guarded form: WHERE pending_milli >= $1, whose row count is not read.
Settled(b, credit, success) ==
    IF b.pending < credit THEN b
    ELSE IF success THEN Moved(b, credit) ELSE Released(b, credit)

\* The upsert of monthly_usage_cube, for the calls in S.
Counted(row, S) ==
    [milli |-> row.milli + SumOver(CreditOf, S),
     paid  |-> row.paid + Cardinality({c \in S : CreditOf[c] > 0}),
     free  |-> row.free + Cardinality({c \in S : CreditOf[c] = 0})]

\* Projects whose rows an EnsureCurrentBuckets transaction has locked: it has inserted
\* their bucket and holds the foreign key's lock on the project until it commits.
LockedByEnsure == IF ensure.phase = "inserted" THEN ensure.missing ELSE {}

\* No quota operation holds the project since an earlier month.
Free == -1

\* The month of the quota operation that holds the project, or of the next one.
Now(p) == IF opMonth[p] = Free THEN month ELSE opMonth[p]

Lockable(p) == p \notin LockedByEnsure /\ opMonth[p] = Free

-------------------------------------------------------------------------------
(* Initial state: keys wait for the teacher, no bucket exists yet *)

NoEnsure == [phase |-> "idle"]

Init ==
    /\ month = 0
    /\ keyStatus = [k \in Keys |-> "pending_teacher"]
    /\ keyQuota = [k \in Keys |-> 0]
    /\ projectQuota \in [Projects -> Quotas]
    /\ projectBucket = [p \in Projects |-> [m \in Months |-> NoProjectBucket]]
    /\ keyBucket = [k \in Keys |-> [m \in Months |-> NoKeyBucket]]
    /\ cube = [k \in Keys |-> [m \in Months |-> NoCubeRow]]
    /\ callState = [c \in Calls |-> "unused"]
    /\ callMonth = [c \in Calls |-> 0]
    /\ lease = [c \in Calls |-> "none"]
    /\ input = [c \in Calls |-> "none"]
    /\ worker = [c \in Calls |-> "idle"]
    /\ responses = [c \in Calls |-> 0]
    /\ recovering = {}
    /\ ensure = NoEnsure
    /\ opMonth = [p \in Projects |-> Free]
    /\ overtaken = {}
    /\ outdated = {}

-------------------------------------------------------------------------------
(* The clock *)

\* Midnight finds a quota operation under way in the projects of S: it has locked its project,
\* has read the month, and has not committed.
NextMonth(S) ==
    /\ month < LastMonth
    /\ month' = month + 1
    /\ \A p \in S : Lockable(p)
    /\ opMonth' = [p \in Projects |-> IF p \in S THEN month ELSE opMonth[p]]
    /\ UNCHANGED <<callVars, bookVars, quotaVars, worker, responses, recovering, ensure,
                   overtaken, outdated>>

\* Thirty minutes without a response: the lease and RecoverExpired's margin are over.
LeaseRunsOut(c) ==
    /\ lease[c] = "live"
    /\ lease' = [lease EXCEPT ![c] = "expired"]
    /\ UNCHANGED <<month, callState, callMonth, input, bookVars, quotaVars, runVars>>

-------------------------------------------------------------------------------
(* Keys and quotas *)

\* Mutant: the foreign key of an inserted bucket does not lock the project.
WorksUnlocked(p, m) == m = Now(p)

\* ApproveKey, UpdateKeyQuota, UpdateProjectQuota and RevokeKey lock the project and then read
\* the month they work in: the current one, or the one before the midnight that found them
\* under way.
Works(p, m) == p \notin LockedByEnsure /\ m = Now(p)

\* Its commit frees the project.
Commits(p) == opMonth' = [opMonth EXCEPT ![p] = Free]

\* An operation that midnight has found under way is refused, or fails.
RollBack(p) ==
    /\ opMonth[p] # Free
    /\ Commits(p)
    /\ UNCHANGED <<month, callVars, bookVars, quotaVars, worker, responses, recovering,
                   ensure, overtaken, outdated>>

\* A quota of p changes in month m: an EnsureCurrentBuckets that has read the quotas for a
\* later month, and waits for p, has read old ones.
Overtakes(p, m) ==
    /\ overtaken' = IF ensure.phase = "scanned" /\ m < ensure.month
                    THEN overtaken \cup {p} ELSE overtaken
    /\ outdated' = outdated

\* The teacher's final review; q is validated and the models are found ready.
ApproveKey(k, q, m) ==
    LET p == ProjectOf[k]
        b == OpenedProjectBucket(p, m)
    IN  /\ Works(p, m)
        /\ keyStatus[k] = "pending_teacher"
        /\ b.allocated + q <= b.quota
        /\ keyStatus' = [keyStatus EXCEPT ![k] = "approved"]
        /\ keyQuota' = [keyQuota EXCEPT ![k] = q]
        /\ projectBucket' = [projectBucket EXCEPT ![p][m] = [b EXCEPT !.allocated = @ + q]]
        /\ keyBucket' = [keyBucket EXCEPT ![k][m] = [@ EXCEPT !.open = TRUE, !.quota = q]]
        /\ Commits(p) /\ Overtakes(p, m)
        /\ UNCHANGED <<month, projectQuota, cube, callVars, worker, responses, recovering,
                       ensure>>

\* The student claims the key: UPDATE ... WHERE status = 'approved'.
ClaimKey(k) ==
    /\ keyStatus[k] = "approved"
    /\ keyStatus' = [keyStatus EXCEPT ![k] = "active"]
    /\ UNCHANGED <<month, keyQuota, projectQuota, bookVars, callVars, runVars>>

\* The column's CHECK (allocated_milli >= 0) refuses what an outdated bucket cannot give back.
UpdateKeyQuota(k, q, m) ==
    LET p == ProjectOf[k]
        b == OpenedProjectBucket(p, m)
        d == OpenedKeyBucket(k, m)
    IN  /\ Works(p, m)
        /\ Live(k)
        /\ q >= d.charged + d.pending
        /\ b.allocated + q <= b.quota + keyQuota[k]
        /\ b.allocated + q >= keyQuota[k]
        /\ keyQuota' = [keyQuota EXCEPT ![k] = q]
        /\ projectBucket' = [projectBucket EXCEPT ![p][m] =
                                [b EXCEPT !.allocated = (@ + q) - keyQuota[k]]]
        /\ keyBucket' = [keyBucket EXCEPT ![k][m] = [d EXCEPT !.quota = q]]
        /\ Commits(p) /\ Overtakes(p, m)
        /\ UNCHANGED <<month, keyStatus, projectQuota, cube, callVars, worker, responses,
                       recovering, ensure>>

\* Mutant: a key commits its project to what it has used only.
CommitmentUsed(k, m) == keyBucket[k][m].charged + keyBucket[k][m].pending

\* What a key commits its project to in a month.
CommitmentOf(k, m) ==
    LET d == keyBucket[k][m]
    IN  IF Live(k)
        THEN Larger(IF d.open THEN d.quota ELSE keyQuota[k], d.charged + d.pending)
        ELSE IF keyStatus[k] = "revoked" THEN d.charged ELSE 0

Commitment(p, m) ==
    SumOver([k \in Keys |-> CommitmentOf(k, m)], {k \in Keys : ProjectOf[k] = p})

\* Mutant: the bucket's UPDATE has lost its month.
UpdateProjectQuotaAlways(p, q, m) ==
    /\ Works(p, m)
    /\ q >= Commitment(p, m)
    /\ projectQuota' = [projectQuota EXCEPT ![p] = q]
    /\ projectBucket' = [projectBucket EXCEPT ![p] =
                            [x \in Months |-> [projectBucket[p][x] EXCEPT !.quota = q]]]
    /\ Commits(p) /\ Overtakes(p, m)
    /\ UNCHANGED <<month, keyStatus, keyQuota, keyBucket, cube, callVars, worker, responses,
                   recovering, ensure>>

UpdateProjectQuota(p, q, m) ==
    /\ Works(p, m)
    /\ q >= Commitment(p, m)
    /\ projectQuota' = [projectQuota EXCEPT ![p] = q]
    /\ projectBucket' = [projectBucket EXCEPT ![p][m] =
                            [OpenedProjectBucket(p, m) EXCEPT !.quota = q]]
    /\ Commits(p) /\ Overtakes(p, m)
    /\ UNCHANGED <<month, keyStatus, keyQuota, keyBucket, cube, callVars, worker, responses,
                   recovering, ensure>>

\* Calls in flight are charged, each in its own month; then the key's bucket of month m, if
\* there is one, gives back what it did not use.
RevokeKey(k, m) ==
    LET p           == ProjectOf[k]
        Swept(x)    == {c \in PendingOf(k) : callMonth[c] = x}
        Credit(x)   == SumOver(CreditOf, Swept(x))
        settled     == [x \in Months |-> Moved(keyBucket[k][x], Credit(x))]
        mine        == settled[m]
        Freed(b, x) == IF x = m /\ mine.open
                       THEN [b EXCEPT !.allocated = Larger(@ + mine.charged, mine.quota)
                                                    - mine.quota]
                       ELSE b
    IN  /\ Works(p, m)
        /\ keyStatus[k] = "active"
        /\ callState' = [c \in Calls |-> IF c \in PendingOf(k) THEN "charged" ELSE callState[c]]
        /\ lease' = [c \in Calls |-> IF c \in PendingOf(k) THEN "none" ELSE lease[c]]
        /\ input' = [c \in Calls |-> IF c \in PendingOf(k) /\ input[c] # "none"
                                     THEN "visible" ELSE input[c]]
        /\ keyBucket' = [keyBucket EXCEPT ![k] = settled]
        /\ projectBucket' = [projectBucket EXCEPT ![p] =
                [x \in Months |-> Freed(Moved(projectBucket[p][x], Credit(x)), x)]]
        /\ cube' = [cube EXCEPT ![k] = [x \in Months |-> Counted(cube[k][x], Swept(x))]]
        /\ keyStatus' = [keyStatus EXCEPT ![k] = "revoked"]
        /\ Commits(p)
        /\ UNCHANGED <<month, keyQuota, projectQuota, callMonth, worker, responses, recovering,
                       ensure, overtaken, outdated>>

-------------------------------------------------------------------------------
(* Calls *)

\* m is the month Reserve read before it waited for its locks.
Reserve(c, m) ==
    LET k == KeyOf[c]
        p == ProjectOf[k]
        b == OpenedProjectBucket(p, m)
        d == OpenedKeyBucket(k, m)
    IN  /\ m \in {month - 1, month} \cap Months
        /\ Lockable(p)
        /\ callState[c] = "unused"
        /\ keyStatus[k] = "active"
        /\ Admits(d, CreditOf[c]) /\ Admits(b, CreditOf[c])
        /\ callState' = [callState EXCEPT ![c] = "pending"]
        /\ callMonth' = [callMonth EXCEPT ![c] = m]
        /\ lease' = [lease EXCEPT ![c] = "live"]
        /\ input' = [input EXCEPT ![c] = IF c \in Prompted THEN "hidden" ELSE "none"]
        /\ projectBucket' = [projectBucket EXCEPT ![p][m] = Held(b, CreditOf[c])]
        /\ keyBucket' = [keyBucket EXCEPT ![k][m] = Held(d, CreditOf[c])]
        /\ worker' = [worker EXCEPT ![c] = "running"]
        /\ UNCHANGED <<month, cube, quotaVars, responses, recovering, ensure, opVars>>

\* An upstream answered, whatever its status: the lease starts again.
MarkSent(c) ==
    /\ worker[c] = "running"
    /\ responses[c] < MaxResponses
    /\ responses' = [responses EXCEPT ![c] = @ + 1]
    /\ lease' = [lease EXCEPT ![c] = IF callState[c] = "pending" THEN "live" ELSE @]
    /\ UNCHANGED <<month, callState, callMonth, input, bookVars, quotaVars,
                   worker, recovering, ensure, opVars>>

\* Mutant: the call's UPDATE has lost its billing_state = 'pending'.
FinalizeAlways(c, success) ==
    LET k == KeyOf[c]
        p == ProjectOf[k]
        m == callMonth[c]
    IN  /\ callMonth' = callMonth
        /\ callState' = [callState EXCEPT ![c] = IF success THEN "charged" ELSE "failed"]
        /\ lease' = [lease EXCEPT ![c] = "none"]
        /\ input' = [input EXCEPT ![c] = IF success /\ @ # "none" THEN "visible" ELSE "none"]
        /\ projectBucket' = [projectBucket EXCEPT ![p][m] = Settled(@, CreditOf[c], success)]
        /\ keyBucket' = [keyBucket EXCEPT ![k][m] = Settled(@, CreditOf[c], success)]
        /\ cube' = [cube EXCEPT ![k][m] = IF success THEN Counted(@, {c}) ELSE @]

\* The transaction of Finalize, without its caller's own state.
Finalize(c, success) ==
    LET k == KeyOf[c]
        p == ProjectOf[k]
        m == callMonth[c]
    IN  /\ callMonth' = callMonth
        /\ IF callState[c] # "pending"
           THEN UNCHANGED <<callState, lease, input, bookVars>>
           ELSE /\ callState' = [callState EXCEPT ![c] = IF success THEN "charged" ELSE "failed"]
                /\ lease' = [lease EXCEPT ![c] = "none"]
                /\ input' = [input EXCEPT ![c] =
                                IF success /\ @ # "none" THEN "visible" ELSE "none"]
                /\ projectBucket' = [projectBucket EXCEPT ![p][m] =
                                        Settled(@, CreditOf[c], success)]
                /\ keyBucket' = [keyBucket EXCEPT ![k][m] = Settled(@, CreditOf[c], success)]
                /\ cube' = [cube EXCEPT ![k][m] = IF success THEN Counted(@, {c}) ELSE @]

\* The worker reports what it knows of the call; success is the upstream's.
WorkerFinalize(c, success) ==
    /\ worker[c] = "running"
    /\ Finalize(c, success)
    /\ worker' = [worker EXCEPT ![c] = "gone"]
    /\ UNCHANGED <<month, quotaVars, responses, recovering, ensure, opVars>>

\* The process dies, the client's context is cancelled before Finalize, or Finalize
\* fails: nobody reports the call.
WorkerLost(c) ==
    /\ worker[c] = "running"
    /\ worker' = [worker EXCEPT ![c] = "gone"]
    /\ UNCHANGED <<month, callVars, bookVars, quotaVars, responses, recovering, ensure, opVars>>

-------------------------------------------------------------------------------
(* The maintenance process *)

\* The query of RecoverExpired: at most RecoveryBatch calls, read without a lock.
RecoverScan(S) ==
    /\ recovering = {}
    /\ S \subseteq Overdue
    /\ S # {}
    /\ \/ Cardinality(S) = RecoveryBatch
       \/ S = Overdue /\ Cardinality(S) <= RecoveryBatch
    /\ recovering' = S
    /\ UNCHANGED <<month, callVars, bookVars, quotaVars, worker, responses, ensure, opVars>>

\* One turn of RecoverExpired's loop.
RecoverCall(c) ==
    /\ c \in recovering
    /\ Finalize(c, TRUE)
    /\ recovering' = recovering \ {c}
    /\ UNCHANGED <<month, quotaVars, worker, responses, ensure, opVars>>

\* A failing Finalize ends the loop; so does the end of the process.
RecoverAbort ==
    /\ recovering # {}
    /\ recovering' = {}
    /\ UNCHANGED <<month, callVars, bookVars, quotaVars, worker, responses, ensure, opVars>>

\* EnsureCurrentBuckets begins: the snapshot of its first statement, for the month m that was
\* read before.  The maintenance process runs it, and so does every read of the current
\* month's usage.
EnsureScan(m) ==
    /\ m \in {month - 1, month} \cap Months
    /\ ensure.phase = "idle"
    /\ ensure' = [phase     |-> "scanned",
                  month     |-> m,
                  quota     |-> projectQuota,
                  allocated |-> [p \in Projects |-> LiveQuota(p)]]
    /\ overtaken' = {}
    /\ UNCHANGED <<month, callVars, bookVars, quotaVars, worker, responses, recovering,
                   opMonth, outdated>>

\* The first statement's insertion, which waits for the lock of each project it has inserted
\* a bucket of (the foreign key) and takes it, and the snapshot of the second statement.
EnsureInsert ==
    /\ ensure.phase = "scanned"
    /\ \A p \in Projects : ~projectBucket[p][ensure.month].open => opMonth[p] = Free
    /\ ensure' = [phase     |-> "inserted",
                  month     |-> ensure.month,
                  quota     |-> ensure.quota,
                  allocated |-> ensure.allocated,
                  missing   |-> {p \in Projects : ~projectBucket[p][ensure.month].open},
                  live      |-> {k \in Keys : Live(k)},
                  keyQuota  |-> keyQuota]
    /\ UNCHANGED <<month, callVars, bookVars, quotaVars, worker, responses, recovering, opVars>>

\* The second statement's insertion, and the commit of both.
EnsureCommit ==
    /\ ensure.phase = "inserted"
    /\ projectBucket' = [p \in Projects |-> [m \in Months |->
            IF p \in ensure.missing /\ m = ensure.month
            THEN [open |-> TRUE, quota |-> ensure.quota[p],
                  allocated |-> ensure.allocated[p], charged |-> 0, pending |-> 0]
            ELSE projectBucket[p][m]]]
    /\ keyBucket' = [k \in Keys |-> [m \in Months |->
            IF k \in ensure.live /\ m = ensure.month /\ ~keyBucket[k][m].open
            THEN [open |-> TRUE, quota |-> ensure.keyQuota[k], charged |-> 0, pending |-> 0]
            ELSE keyBucket[k][m]]]
    /\ outdated' = outdated \cup {<<p, ensure.month>> : p \in ensure.missing \cap overtaken}
    /\ ensure' = NoEnsure
    /\ overtaken' = {}
    /\ UNCHANGED <<month, cube, callVars, quotaVars, worker, responses, recovering, opMonth>>

\* An error, a deadlock or a disconnect rolls the transaction back.
EnsureRollback ==
    /\ ensure.phase # "idle"
    /\ ensure' = NoEnsure
    /\ overtaken' = {}
    /\ UNCHANGED <<month, callVars, bookVars, quotaVars, worker, responses, recovering,
                   opMonth, outdated>>

-------------------------------------------------------------------------------
Next ==
    \/ \E S \in SUBSET Projects : NextMonth(S)
    \/ \E p \in Projects : RollBack(p)
    \/ \E k \in Keys, q \in Quotas, m \in Months : ApproveKey(k, q, m) \/ UpdateKeyQuota(k, q, m)
    \/ \E k \in Keys : ClaimKey(k)
    \/ \E k \in Keys, m \in Months : RevokeKey(k, m)
    \/ \E p \in Projects, q \in Quotas, m \in Months : UpdateProjectQuota(p, q, m)
    \/ \E c \in Calls, m \in Months : Reserve(c, m)
    \/ \E c \in Calls : LeaseRunsOut(c) \/ MarkSent(c) \/ WorkerLost(c) \/ RecoverCall(c)
    \/ \E c \in Calls, success \in BOOLEAN : WorkerFinalize(c, success)
    \/ \E S \in SUBSET Calls : RecoverScan(S)
    \/ RecoverAbort
    \/ \E m \in Months : EnsureScan(m)
    \/ EnsureInsert \/ EnsureCommit \/ EnsureRollback

Spec == Init /\ [][Next]_vars

(***************************************************************************)
(* Time passes, the maintenance process runs every minute (cmd/maintenance) *)
(* and no call's settlement fails for ever: a failing Finalize ends the     *)
(* loop (RecoverAbort), and the next minute tries again.  Nothing is assumed*)
(* of the workers, of the users or of the other maintenance step.           *)
(***************************************************************************)
Fairness ==
    /\ WF_vars(\E S \in SUBSET Calls : RecoverScan(S))
    /\ \A c \in Calls : WF_vars(LeaseRunsOut(c)) /\ SF_vars(RecoverCall(c))

FairSpec == Spec /\ Fairness

-------------------------------------------------------------------------------
(* Types *)

EnsureStates ==
    LET scanned  == [phase : {"scanned"}, month : Months, quota : [Projects -> Nat],
                     allocated : [Projects -> Nat]]
        inserted == [phase : {"inserted"}, month : Months, quota : [Projects -> Nat],
                     allocated : [Projects -> Nat], missing : SUBSET Projects,
                     live : SUBSET Keys, keyQuota : [Keys -> Nat]]
    IN  {NoEnsure} \cup scanned \cup inserted

\* No bucket counter goes below zero (the CHECK constraints of the migration, which only an
\* outdated bucket's allocation needs), and every column keeps to its domain.
TypeOK ==
    /\ month \in Months
    /\ keyStatus \in [Keys -> {"pending_teacher", "approved", "active", "revoked"}]
    /\ keyQuota \in [Keys -> Nat]
    /\ projectQuota \in [Projects -> Nat]
    /\ projectBucket \in [Projects -> [Months -> ProjectBucket]]
    /\ keyBucket \in [Keys -> [Months -> KeyBucket]]
    /\ cube \in [Keys -> [Months -> CubeRow]]
    /\ callState \in [Calls -> {"unused", "pending", "charged", "failed"}]
    /\ callMonth \in [Calls -> Months]
    /\ lease \in [Calls -> {"none", "live", "expired"}]
    /\ input \in [Calls -> {"none", "hidden", "visible"}]
    /\ worker \in [Calls -> {"idle", "running", "gone"}]
    /\ responses \in [Calls -> 0..MaxResponses]
    /\ recovering \subseteq Calls
    /\ ensure \in EnsureStates
    /\ opMonth \in [Projects -> Months \cup {Free}]
    /\ overtaken \subseteq Projects
    /\ outdated \subseteq Projects \X Months

-------------------------------------------------------------------------------
(* What makes the ledger correct *)

KeyCalls(k, m, states) ==
    {c \in Calls : KeyOf[c] = k /\ callMonth[c] = m /\ callState[c] \in states}
ProjectCalls(p, m, states) ==
    {c \in Calls : ProjectOf[KeyOf[c]] = p /\ callMonth[c] = m /\ callState[c] \in states}

\* A bucket's counters are the sums of its calls: nothing is reserved or charged that no
\* call accounts for, whoever settled the call and in whichever month that happened.
BucketsMatchCalls ==
    /\ \A k \in Keys, m \in Months :
        /\ keyBucket[k][m].pending = SumOver(CreditOf, KeyCalls(k, m, {"pending"}))
        /\ keyBucket[k][m].charged = SumOver(CreditOf, KeyCalls(k, m, {"charged"}))
    /\ \A p \in Projects, m \in Months :
        /\ projectBucket[p][m].pending = SumOver(CreditOf, ProjectCalls(p, m, {"pending"}))
        /\ projectBucket[p][m].charged = SumOver(CreditOf, ProjectCalls(p, m, {"charged"}))

\* The usage cube, written by Finalize and by RevokeKey, counts every charged call once.
CubeMatchesCalls ==
    \A k \in Keys, m \in Months :
        cube[k][m] = Counted(NoCubeRow, KeyCalls(k, m, {"charged"}))

\* A key is not revoked under a call: RevokeKey settles what is in flight, and a Reserve
\* that waits behind it finds the key inactive.
PendingCallHasActiveKey ==
    \A c \in Calls : callState[c] = "pending" => keyStatus[KeyOf[c]] = "active"

\* Mentors read a prompt exactly when its call was charged; a failed call's is deleted.
PromptFollowsBilling ==
    \A c \in Calls :
        /\ input[c] = "hidden" <=> c \in Prompted /\ callState[c] = "pending"
        /\ input[c] = "visible" <=> c \in Prompted /\ callState[c] = "charged"

\* A bucket that is over its quota is over it by one call, the last that was admitted:
\* without that call it is below.  Admission reads charged + pending, calls in flight
\* included, and no quota is lowered under what is used.
OverageIsOneCall ==
    LET OneOver(b, S) ==
            b.charged + b.pending > b.quota =>
                \E c \in S : (b.charged + b.pending) - CreditOf[c] < b.quota
    IN  /\ \A k \in Keys, m \in Months :
            OneOver(keyBucket[k][m], KeyCalls(k, m, {"pending", "charged"}))
        /\ \A p \in Projects, m \in Months :
            OneOver(projectBucket[p][m], ProjectCalls(p, m, {"pending", "charged"}))

\* A quota operation that reads its month before midnight and commits after it is not seen by
\* the EnsureCurrentBuckets that has read the quotas for the new month in between and waits
\* for it: the bucket then made is outdated.  The three properties below say that this is
\* the only way in which allocations and quotas part.

\* The quotas of a project's live keys fit in the project's own, across approvals, quota
\* changes of either kind, revocations and the turn of the month, in a project none of
\* whose buckets was outdated when it was made.
LiveQuotasFit ==
    \A p \in Projects :
        (\A m \in Months : <<p, m>> \notin outdated) => LiveQuota(p) <= projectQuota[p]

RevokedCharge(p, m) ==
    SumOver([k \in Keys |-> keyBucket[k][m].charged],
            {k \in Keys : ProjectOf[k] = p /\ keyStatus[k] = "revoked"})

\* The current bucket, unless it was outdated when it was made, never allocates less than the
\* quotas of the live keys and what the revoked keys spent this month: ApproveKey and
\* UpdateKeyQuota, which trust it, cannot hand out a quota twice.
AllocationCovers ==
    \A p \in Projects :
        projectBucket[p][month].open /\ <<p, month>> \notin outdated =>
            projectBucket[p][month].allocated >= LiveQuota(p) + RevokedCharge(p, month)

\* The current bucket of a live key holds its current quota, whoever created it and when; so
\* does a project's, unless it was outdated when it was made.
BucketsFollowQuotas ==
    /\ \A p \in Projects :
        projectBucket[p][month].open /\ <<p, month>> \notin outdated =>
            projectBucket[p][month].quota = projectQuota[p]
    /\ \A k \in Keys :
        keyBucket[k][month].open /\ Live(k) => keyBucket[k][month].quota = keyQuota[k]

\* A call is settled once: no late answer, second recovery or revocation changes how.
SettledOnce ==
    [][\A c \in Calls :
          callState[c] \in {"charged", "failed"} =>
              callState'[c] = callState[c] /\ callMonth'[c] = callMonth[c]]_vars

\* Once a project has the bucket of a later month, its buckets and those of its keys for the
\* earlier ones keep their quotas and their allocation, even from an operation that read its
\* month before midnight; late settlements only move their pending credits.
PastMonthsKeepQuotas ==
    [][\A p \in Projects, n \in Months : projectBucket[p][n].open =>
          \A m \in 0..(n - 1) :
             /\ projectBucket[p][m].open =>
                    /\ projectBucket'[p][m].quota = projectBucket[p][m].quota
                    /\ projectBucket'[p][m].allocated = projectBucket[p][m].allocated
             /\ \A k \in Keys : ProjectOf[k] = p /\ keyBucket[k][m].open =>
                    keyBucket'[k][m].quota = keyBucket[k][m].quota]_vars

\* The ledger's side of CallContract, for each call: its worker reports once, and recoveries
\* and revocations only ever charge a call that is pending.
Contract(c) == INSTANCE CallContract WITH worker <- worker[c], callState <- callState[c]

CallsKeepContract ==
    /\ \A c \in Calls : Contract(c)!Init
    /\ [][\A c \in Calls : [Contract(c)!Next]_<<worker[c], callState[c]>>]_vars

\* Every reserved call is settled at last, even when its worker dies.
EveryCallSettles ==
    \A c \in Calls : callState[c] = "pending" ~> callState[c] \in {"charged", "failed"}

\* What the ledger promises its users, whatever happens to workers and to maintenance:
\* BillingPromise, whose total is what the keys' buckets have charged.
Promise == INSTANCE BillingPromise WITH
    outcome <- callState,
    billedIn <- callMonth,
    total <- [k \in Keys |-> [m \in Months |-> keyBucket[k][m].charged]]

BillsOnce == Promise!Spec

===============================================================================
