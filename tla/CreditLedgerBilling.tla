-------------------------- MODULE CreditLedgerBilling -------------------------
(***************************************************************************)
(* What the ledger promises over time: a call is settled once, past months  *)
(* keep their quotas, the ledger implements BillingPromise, and a bucket is  *)
(* over its quota by one call at most.                                      *)
(***************************************************************************)
EXTENDS CreditLedgerProofs

-------------------------------------------------------------------------------
(* A call is settled once *)

\* The steps that move a call's outcome or month; all others leave both alone.
LEMMA CallMoves ==
    ASSUME [Next]_vars
    PROVE  \/ UNCHANGED <<callState, callMonth>>
           \/ \E k \in Keys, m \in Months : RevokeKey(k, m)
           \/ \E c \in Calls, m \in Months : Reserve(c, m)
           \/ \E c \in Calls, success \in BOOLEAN : Finalize(c, success)
<1>1. QuietStep \/ EnsureCommit \/ (\E p \in Projects : RollBack(p))
      \/ (\E S \in SUBSET Projects : NextMonth(S)) \/ (\E k \in Keys : ClaimKey(k))
      => UNCHANGED <<callState, callMonth>>
  BY DEF QuietStep, EnsureCommit, RollBack, NextMonth, ClaimKey, callVars
<1>2. ASSUME NEW k \in Keys, NEW q \in Quotas, NEW m \in Months,
             ApproveKey(k, q, m) \/ UpdateKeyQuota(k, q, m)
      PROVE  UNCHANGED <<callState, callMonth>>
  BY <1>2 DEF ApproveKey, UpdateKeyQuota, callVars
<1>3. ASSUME NEW p \in Projects, NEW q \in Quotas, NEW m \in Months,
             UpdateProjectQuota(p, q, m)
      PROVE  UNCHANGED <<callState, callMonth>>
  BY <1>3 DEF UpdateProjectQuota, callVars
<1> QED
  BY <1>1, <1>2, <1>3, LedgerCases

\* No step changes the outcome or the month of a settled call.
LEMMA SettledStep ==
    ASSUME LedgerInv, [Next]_vars, NEW c \in Calls, callState[c] \in {"charged", "failed"}
    PROVE  callState'[c] = callState[c] /\ callMonth'[c] = callMonth[c]
<1>1. TypeOK
  BY DEF LedgerInv
<1>2. CASE UNCHANGED <<callState, callMonth>>
  BY <1>2
<1>3. ASSUME NEW k \in Keys, NEW m \in Months, RevokeKey(k, m)
      PROVE  callState'[c] = callState[c] /\ callMonth'[c] = callMonth[c]
  BY <1>3 DEF RevokeKey, PendingOf
<1>4. ASSUME NEW d \in Calls, NEW m \in Months, Reserve(d, m)
      PROVE  callState'[c] = callState[c] /\ callMonth'[c] = callMonth[c]
  <2>1. /\ callState[d] = "unused"
        /\ callState' = [callState EXCEPT ![d] = "pending"]
        /\ callMonth' = [callMonth EXCEPT ![d] = m]
    BY <1>4 DEF Reserve
  <2> QED
    BY <1>1, <2>1 DEF TypeOK
<1>5. ASSUME NEW d \in Calls, NEW success \in BOOLEAN, Finalize(d, success)
      PROVE  callState'[c] = callState[c] /\ callMonth'[c] = callMonth[c]
  BY <1>1, <1>5 DEF Finalize, TypeOK
<1> QED
  BY <1>2, <1>3, <1>4, <1>5, CallMoves

\* A late answer, a second recovery or a revocation never changes how a call was settled.
THEOREM CallsSettleOnce == Spec => SettledOnce
<1>1. LedgerInv /\ [Next]_vars =>
        [\A c \in Calls : callState[c] \in {"charged", "failed"} =>
              callState'[c] = callState[c] /\ callMonth'[c] = callMonth[c]]_vars
  BY SettledStep
<1> QED
  BY <1>1, LedgerInvariant, PTL DEF Spec, SettledOnce

-------------------------------------------------------------------------------
(* Every call keeps CallContract *)

\* The steps of the users' quotas and of the clock, and those of EnsureCurrentBuckets.
QuotaStep ==
    \/ \E k \in Keys, q \in Quotas, m \in Months : ApproveKey(k, q, m) \/ UpdateKeyQuota(k, q, m)
    \/ \E k \in Keys : ClaimKey(k)
    \/ \E p \in Projects, q \in Quotas, m \in Months : UpdateProjectQuota(p, q, m)

UpkeepStep ==
    \/ \E S \in SUBSET Projects : NextMonth(S)
    \/ \E p \in Projects : RollBack(p)
    \/ \E m \in Months : EnsureScan(m)
    \/ EnsureInsert \/ EnsureCommit \/ EnsureRollback

\* Neither touches a call or who settles it.
LEMMA QuotaStepAside ==
    ASSUME QuotaStep
    PROVE  UNCHANGED <<callState, lease, recovering, worker>>
<1>1. ASSUME NEW k \in Keys, NEW q \in Quotas, NEW m \in Months,
             ApproveKey(k, q, m) \/ UpdateKeyQuota(k, q, m)
      PROVE  UNCHANGED <<callState, lease, recovering, worker>>
  BY <1>1 DEF ApproveKey, UpdateKeyQuota, callVars
<1>2. ASSUME NEW p \in Projects, NEW q \in Quotas, NEW m \in Months,
             UpdateProjectQuota(p, q, m)
      PROVE  UNCHANGED <<callState, lease, recovering, worker>>
  BY <1>2 DEF UpdateProjectQuota, callVars
<1>3. ASSUME NEW k \in Keys, ClaimKey(k)
      PROVE  UNCHANGED <<callState, lease, recovering, worker>>
  BY <1>3 DEF ClaimKey, callVars, runVars
<1> QED
  BY <1>1, <1>2, <1>3 DEF QuotaStep

LEMMA UpkeepStepAside ==
    ASSUME UpkeepStep
    PROVE  UNCHANGED <<callState, lease, recovering, worker>>
BY DEF UpkeepStep, NextMonth, RollBack, EnsureScan, EnsureInsert, EnsureCommit,
       EnsureRollback, callVars

\* The other steps are those of the calls.
LEMMA KindsOfStep ==
    ASSUME [Next]_vars
    PROVE  \/ UNCHANGED vars \/ QuotaStep \/ UpkeepStep \/ RecoverAbort
           \/ \E k \in Keys, m \in Months : RevokeKey(k, m)
           \/ \E c \in Calls, m \in Months : Reserve(c, m)
           \/ \E c \in Calls : LeaseRunsOut(c) \/ MarkSent(c) \/ WorkerLost(c) \/ RecoverCall(c)
           \/ \E c \in Calls, success \in BOOLEAN : WorkerFinalize(c, success)
           \/ \E S \in SUBSET Calls : RecoverScan(S)
BY DEF Next, QuotaStep, UpkeepStep

\* A worker is born with its reservation.
WorkersServeCalls == \A c \in Calls : callState[c] = "unused" => worker[c] = "idle"

\* The steps that move a call or its worker; all others leave both alone.
LEMMA CallCases ==
    ASSUME [Next]_vars
    PROVE  \/ UNCHANGED <<callState, worker>>
           \/ \E k \in Keys, m \in Months : RevokeKey(k, m)
           \/ \E c \in Calls, m \in Months : Reserve(c, m)
           \/ \E c \in Calls : WorkerLost(c) \/ RecoverCall(c)
           \/ \E c \in Calls, success \in BOOLEAN : WorkerFinalize(c, success)
<1>1. QuotaStep \/ UpkeepStep => UNCHANGED <<callState, lease, recovering, worker>>
  BY QuotaStepAside, UpkeepStepAside
<1>2. \/ UNCHANGED vars \/ RecoverAbort
      \/ (\E c \in Calls : LeaseRunsOut(c) \/ MarkSent(c))
      \/ (\E S \in SUBSET Calls : RecoverScan(S))
      => UNCHANGED <<callState, worker>>
  BY DEF vars, callVars, runVars, RecoverAbort, LeaseRunsOut, MarkSent, RecoverScan
<1> QED
  BY <1>1, <1>2, KindsOfStep

\* Each step of the ledger is, for every call, one of the contract's or leaves it alone.
LEMMA ContractStep ==
    ASSUME LedgerInv, WorkersServeCalls, [Next]_vars, NEW c \in Calls
    PROVE  [Contract(c)!Next]_<<worker[c], callState[c]>>
<1>1. /\ callState \in [Calls -> {"unused", "pending", "charged", "failed"}]
      /\ worker \in [Calls -> {"idle", "running", "gone"}]
      /\ callState[c] = "unused" => worker[c] = "idle"
  BY DEF LedgerInv, TypeOK, WorkersServeCalls
<1>2. ASSUME NEW d \in Calls, NEW m \in Months, Reserve(d, m)
      PROVE  [Contract(c)!Next]_<<worker[c], callState[c]>>
  <2>1. /\ callState[d] = "unused"
        /\ callState' = [callState EXCEPT ![d] = "pending"]
        /\ worker' = [worker EXCEPT ![d] = "running"]
    BY <1>2 DEF Reserve
  <2> QED
    BY <1>1, <2>1 DEF Contract!Next, Contract!Reserve
<1>3. ASSUME NEW d \in Calls, NEW success \in BOOLEAN, WorkerFinalize(d, success)
      PROVE  [Contract(c)!Next]_<<worker[c], callState[c]>>
  <2>1. /\ worker[d] = "running" /\ worker' = [worker EXCEPT ![d] = "gone"]
        /\ \/ callState[d] # "pending" /\ callState' = callState
           \/ /\ callState[d] = "pending"
              /\ callState' = [callState EXCEPT ![d] = IF success THEN "charged" ELSE "failed"]
    BY <1>3 DEF WorkerFinalize, Finalize
  <2> QED
    BY <1>1, <2>1 DEF Contract!Next, Contract!Report
<1>4. ASSUME NEW d \in Calls, RecoverCall(d)
      PROVE  [Contract(c)!Next]_<<worker[c], callState[c]>>
  <2>1. /\ worker' = worker
        /\ \/ callState' = callState
           \/ /\ callState[d] = "pending"
              /\ callState' = [callState EXCEPT ![d] = "charged"]
    BY <1>4 DEF RecoverCall, Finalize
  <2> QED
    BY <1>1, <2>1 DEF Contract!Next, Contract!ChargeUnknown
<1>5. ASSUME NEW d \in Calls, WorkerLost(d)
      PROVE  [Contract(c)!Next]_<<worker[c], callState[c]>>
  <2>1. /\ worker[d] = "running" /\ worker' = [worker EXCEPT ![d] = "gone"]
        /\ callState' = callState
    BY <1>5 DEF WorkerLost, callVars
  <2> QED
    BY <1>1, <2>1 DEF Contract!Next, Contract!GiveUp
<1>6. ASSUME NEW k \in Keys, NEW m \in Months, RevokeKey(k, m)
      PROVE  [Contract(c)!Next]_<<worker[c], callState[c]>>
  <2>1. /\ worker' = worker
        /\ \/ callState'[c] = callState[c]
           \/ callState[c] = "pending" /\ callState'[c] = "charged"
    BY <1>6 DEF RevokeKey, PendingOf
  <2> QED
    BY <2>1 DEF Contract!Next, Contract!ChargeUnknown
<1>7. CASE UNCHANGED <<callState, worker>>
  BY <1>7
<1> QED
  BY <1>2, <1>3, <1>4, <1>5, <1>6, <1>7, CallCases

\* No call has a worker before its reservation: no step makes a call unused again, and only a
\* reservation wakes an idle worker.
LEMMA WorkersStep ==
    ASSUME LedgerInv, WorkersServeCalls, [Next]_vars
    PROVE  WorkersServeCalls'
<1>1. /\ callState \in [Calls -> {"unused", "pending", "charged", "failed"}]
      /\ worker \in [Calls -> {"idle", "running", "gone"}]
  BY DEF LedgerInv, TypeOK
<1>2. CASE UNCHANGED <<callState, worker>>
  BY <1>2 DEF WorkersServeCalls
<1>3. ASSUME NEW k \in Keys, NEW m \in Months, RevokeKey(k, m)
      PROVE  WorkersServeCalls'
  BY <1>3 DEF RevokeKey, WorkersServeCalls
<1>4. ASSUME NEW d \in Calls, NEW m \in Months, Reserve(d, m)
      PROVE  WorkersServeCalls'
  BY <1>1, <1>4 DEF Reserve, WorkersServeCalls
<1>5. ASSUME NEW d \in Calls, WorkerLost(d) \/ RecoverCall(d)
      PROVE  WorkersServeCalls'
  BY <1>1, <1>5 DEF WorkerLost, RecoverCall, Finalize, callVars, WorkersServeCalls
<1>6. ASSUME NEW d \in Calls, NEW success \in BOOLEAN, WorkerFinalize(d, success)
      PROVE  WorkersServeCalls'
  BY <1>1, <1>6 DEF WorkerFinalize, Finalize, WorkersServeCalls
<1> QED
  BY <1>2, <1>3, <1>4, <1>5, <1>6, CallCases

\* Whoever serves a call reserves it, reports it at most once and then never touches it
\* again, and everyone else may only charge it while it is pending: the ledger keeps its side
\* of CallContract for every call.
THEOREM CallsKeep == Spec => CallsKeepContract
<1>1. Init => /\ WorkersServeCalls
              /\ \A c \in Calls : Contract(c)!Init
  BY DEF Init, WorkersServeCalls, Contract!Init
<1>2. LedgerInv /\ WorkersServeCalls /\ [Next]_vars => WorkersServeCalls'
  BY WorkersStep
<1>3. LedgerInv /\ WorkersServeCalls /\ [Next]_vars =>
        [\A c \in Calls : [Contract(c)!Next]_<<worker[c], callState[c]>>]_vars
  BY ContractStep
<1> QED
  BY <1>1, <1>2, <1>3, LedgerInvariant, PTL DEF Spec, CallsKeepContract

-------------------------------------------------------------------------------
(* Nobody who waits for maintenance is out of its reach *)

\* A call is leased exactly while it is pending, and maintenance only holds reserved calls.
LeasesFollowCalls ==
    /\ \A c \in Calls : callState[c] = "pending" <=> lease[c] # "none"
    /\ \A c \in recovering : c \in Calls /\ callState[c] # "unused"

\* Every pending call is under a lease that will run out or is overdue already, and while a
\* call is overdue RecoverExpired's query has an answer.
SettlementInReach ==
    /\ \A c \in Calls : callState[c] = "pending" => lease[c] = "live" \/ c \in Overdue
    /\ Overdue # {} =>
        \E S \in SUBSET Overdue :
            /\ S # {}
            /\ \/ Cardinality(S) = RecoveryBatch
               \/ S = Overdue /\ Cardinality(S) <= RecoveryBatch

\* A finite set has subsets of every size up to its own.
LEMMA SubsetOfSize ==
    ASSUME NEW S, IsFiniteSet(S), NEW n \in Nat, n <= Cardinality(S)
    PROVE  \E T \in SUBSET S : Cardinality(T) = n
<1>1. Cardinality(S) \in Nat
  BY FS_CardinalityType
<1>2. PICK f : f \in Bijection(1..Cardinality(S), S)
  BY FS_CardinalityType DEF ExistsBijection
<1> DEFINE T == {f[i] : i \in 1..n}
           g == [i \in 1..n |-> f[i]]
<1>3. 1..n \subseteq 1..Cardinality(S)
  BY <1>1
<1>4. T \subseteq S
  BY <1>2, <1>3 DEF Bijection, Injection
<1>5. g \in Bijection(1..n, T)
  BY <1>2, <1>3 DEF Bijection, Injection, Surjection, IsInjective
<1>6. Cardinality(T) = n
  <2>1. IsFiniteSet(1..n) /\ Cardinality(1..n) = n
    BY FS_Interval
  <2>2. ExistsBijection(1..n, T)
    BY <1>5 DEF ExistsBijection
  <2> QED
    BY <2>1, <2>2, FS_Bijection
<1> QED
  BY <1>4, <1>6

\* A reservation leases, a settlement ends the lease, a late response renews it only while
\* the call is pending.
LEMMA LeasesStep ==
    ASSUME LedgerInv, LeasesFollowCalls, [Next]_vars
    PROVE  LeasesFollowCalls'
<1>1. /\ callState \in [Calls -> {"unused", "pending", "charged", "failed"}]
      /\ lease \in [Calls -> {"none", "live", "expired"}]
  BY DEF LedgerInv, TypeOK
<1>2. CASE UNCHANGED <<callState, lease, recovering>>
  BY <1>2 DEF LeasesFollowCalls
<1>3. ASSUME NEW k \in Keys, NEW m \in Months, RevokeKey(k, m)
      PROVE  LeasesFollowCalls'
  BY <1>1, <1>3 DEF RevokeKey, PendingOf, LeasesFollowCalls
<1>4. ASSUME NEW d \in Calls, NEW m \in Months, Reserve(d, m)
      PROVE  LeasesFollowCalls'
  BY <1>1, <1>4 DEF Reserve, LeasesFollowCalls
<1>5. ASSUME NEW d \in Calls, LeaseRunsOut(d) \/ MarkSent(d)
      PROVE  LeasesFollowCalls'
  <2>1. /\ UNCHANGED <<callState, recovering>>
        /\ \/ lease[d] # "none" /\ lease' = [lease EXCEPT ![d] = "expired"]
           \/ callState[d] = "pending" /\ lease' = [lease EXCEPT ![d] = "live"]
           \/ lease' = lease
    BY <1>1, <1>5 DEF LeaseRunsOut, MarkSent, runVars
  <2> QED
    BY <1>1, <2>1 DEF LeasesFollowCalls
<1>6. ASSUME NEW d \in Calls, NEW success \in BOOLEAN, Finalize(d, success),
             recovering' \subseteq recovering
      PROVE  LeasesFollowCalls'
  BY <1>1, <1>6 DEF Finalize, LeasesFollowCalls
<1>7. ASSUME NEW S \in SUBSET Calls, RecoverScan(S)
      PROVE  LeasesFollowCalls'
  BY <1>1, <1>7 DEF RecoverScan, Overdue, callVars, LeasesFollowCalls
<1>8. CASE RecoverAbort
  BY <1>8 DEF RecoverAbort, callVars, LeasesFollowCalls
<1>9. \/ UNCHANGED <<callState, lease, recovering>>
      \/ \E k \in Keys, m \in Months : RevokeKey(k, m)
      \/ \E d \in Calls, m \in Months : Reserve(d, m)
      \/ \E d \in Calls : LeaseRunsOut(d) \/ MarkSent(d)
      \/ \E d \in Calls, success \in BOOLEAN :
            Finalize(d, success) /\ recovering' \subseteq recovering
      \/ \E S \in SUBSET Calls : RecoverScan(S)
      \/ RecoverAbort
  <2>1. QuotaStep \/ UpkeepStep => UNCHANGED <<callState, lease, recovering>>
    BY QuotaStepAside, UpkeepStepAside
  <2>2. UNCHANGED vars \/ (\E d \in Calls : WorkerLost(d))
        => UNCHANGED <<callState, lease, recovering>>
    BY DEF vars, callVars, runVars, WorkerLost
  <2>3. ASSUME NEW d \in Calls, RecoverCall(d)
        PROVE  Finalize(d, TRUE) /\ recovering' \subseteq recovering
    BY <2>3 DEF RecoverCall
  <2>4. ASSUME NEW d \in Calls, NEW success \in BOOLEAN, WorkerFinalize(d, success)
        PROVE  Finalize(d, success) /\ recovering' \subseteq recovering
    BY <2>4 DEF WorkerFinalize
  <2> QED
    BY <2>1, <2>2, <2>3, <2>4, KindsOfStep
<1> QED
  BY <1>2, <1>3, <1>4, <1>5, <1>6, <1>7, <1>8, <1>9

\* What EveryCallSettles rests on: no call is ever pending without a lease, whatever its
\* worker, a revocation and two recoveries do to it, and RecoverExpired finds overdue calls
\* whatever the batch and the backlog.
THEOREM SettlementStaysInReach == Spec => [](LeasesFollowCalls /\ SettlementInReach)
<1>1. Init => LeasesFollowCalls
  BY DEF Init, LeasesFollowCalls
<1>2. LedgerInv /\ LeasesFollowCalls /\ [Next]_vars => LeasesFollowCalls'
  BY LeasesStep
<1>3. LedgerInv /\ LeasesFollowCalls => SettlementInReach
  <2> SUFFICES ASSUME LedgerInv, LeasesFollowCalls
               PROVE  SettlementInReach
    OBVIOUS
  <2>1. \A c \in Calls : callState[c] = "pending" => lease[c] = "live" \/ c \in Overdue
    BY DEF LedgerInv, TypeOK, LeasesFollowCalls, Overdue
  <2>2. IsFiniteSet(Overdue)
    BY LedgerAssumption, FS_Subset DEF Overdue
  <2>3. /\ Cardinality(Overdue) \in Nat /\ RecoveryBatch \in Nat /\ RecoveryBatch # 0
    BY <2>2, LedgerAssumption, FS_CardinalityType
  <2>4. CASE Cardinality(Overdue) <= RecoveryBatch
    BY <2>1, <2>4 DEF SettlementInReach
  <2>5. CASE RecoveryBatch <= Cardinality(Overdue)
    <3>1. PICK S \in SUBSET Overdue : Cardinality(S) = RecoveryBatch
      BY <2>2, <2>3, <2>5, SubsetOfSize
    <3>2. S # {}
      BY <2>3, <3>1, FS_EmptySet
    <3> QED
      BY <2>1, <3>1, <3>2 DEF SettlementInReach
  <2> QED
    BY <2>3, <2>4, <2>5
<1> QED
  BY <1>1, <1>2, <1>3, LedgerInvariant, PTL DEF Spec

-------------------------------------------------------------------------------
(* Past months keep their quotas *)

\* The buckets of a project and its keys for a month keep their quotas and their allocation.
QuotasStay(p, m) ==
    /\ projectBucket[p][m].open =>
            /\ projectBucket'[p][m].quota = projectBucket[p][m].quota
            /\ projectBucket'[p][m].allocated = projectBucket[p][m].allocated
    /\ \A k \in Keys : ProjectOf[k] = p /\ keyBucket[k][m].open =>
            keyBucket'[k][m].quota = keyBucket[k][m].quota

\* A reservation for the month that is just over finds its buckets and leaves both alone.
LEMMA ReserveKeepsRows ==
    ASSUME LedgerInv, NEW c \in Calls, NEW m \in Months, Reserve(c, m)
    PROVE  /\ \A r \in Projects, x \in Months : projectBucket[r][x].open =>
                /\ projectBucket'[r][x].quota = projectBucket[r][x].quota
                /\ projectBucket'[r][x].allocated = projectBucket[r][x].allocated
           /\ \A k \in Keys, x \in Months : keyBucket[k][x].open =>
                keyBucket'[k][x].quota = keyBucket[k][x].quota
<1> DEFINE k == KeyOf[c]
           p == ProjectOf[k]
           b == projectBucket[p][m]
           d == keyBucket[k][m]
           n == CreditOf[c]
<1>1. TypeOK
  BY DEF LedgerInv
<1>2. k \in Keys /\ p \in Projects
  BY LedgerAssumption
<1>3. b \in ProjectBucket /\ d \in KeyBucket
  BY <1>1, <1>2 DEF TypeOK
<1>4. b.open => projectBucket'[p][m] = Held(b, n)
  BY <1>1, <1>2 DEF Reserve, OpenedProjectBucket, TypeOK
<1>5. d.open => keyBucket'[k][m] = Held(d, n)
  BY <1>1, <1>2 DEF Reserve, OpenedKeyBucket, TypeOK
<1> HIDE DEF b, d, n
<1>6. /\ Held(b, n).quota = b.quota /\ Held(b, n).allocated = b.allocated
      /\ Held(d, n).quota = d.quota
  BY <1>3 DEF Held, ProjectBucket, KeyBucket
<1>7. /\ \A r \in Projects, x \in Months : ~(r = p /\ x = m) =>
                projectBucket'[r][x] = projectBucket[r][x]
      /\ \A k1 \in Keys, x \in Months : ~(k1 = k /\ x = m) =>
                keyBucket'[k1][x] = keyBucket[k1][x]
  BY ReserveEffect
<1>8. /\ b.open => /\ projectBucket'[p][m].quota = b.quota
                   /\ projectBucket'[p][m].allocated = b.allocated
      /\ d.open => keyBucket'[k][m].quota = d.quota
  BY <1>4, <1>5, <1>6
<1> QED
  BY <1>7, <1>8 DEF b, d

\* Every step leaves a project's quotas and allocations alone in all months but the one in which
\* its quota operations work.
LEMMA OtherMonthsStay ==
    ASSUME LedgerInv, LedgerInv', [Next]_vars,
           NEW p \in Projects, NEW m \in Months, m # Now(p)
    PROVE  QuotasStay(p, m)
<1>1. TypeOK /\ TypeOK'
  BY DEF LedgerInv
<1>2. CASE UNCHANGED <<projectBucket, keyBucket>>
  BY <1>2 DEF QuotasStay
<1>3. CASE EnsureCommit
  BY <1>3, EnsureEffect DEF QuotasStay
<1>4. ASSUME NEW k \in Keys, NEW q \in Quotas, NEW w \in Months,
             ApproveKey(k, q, w) \/ UpdateKeyQuota(k, q, w)
      PROVE  QuotasStay(p, m)
  <2>1. QuotaMoved(k, w)
    BY <1>1, <1>4, QuotaEffect
  <2> QED
    BY <2>1 DEF QuotaMoved, Worked, QuotasStay
<1>5. ASSUME NEW r \in Projects, NEW q \in Quotas, NEW w \in Months, UpdateProjectQuota(r, q, w)
      PROVE  QuotasStay(p, m)
  <2>1. ProjectQuotaMoved(r, w)
    BY <1>5, ProjectQuotaEffect
  <2> QED
    BY <2>1 DEF ProjectQuotaMoved, Worked, QuotasStay
<1>6. ASSUME NEW k \in Keys, NEW w \in Months, RevokeKey(k, w)
      PROVE  QuotasStay(p, m)
  <2>1. /\ w = Now(ProjectOf[k])
        /\ \A r \in Projects : r # ProjectOf[k] => projectBucket'[r] = projectBucket[r]
        /\ projectBucket'[p][m].quota = projectBucket[p][m].quota
        /\ \A k1 \in Keys : keyBucket'[k1][m].quota = keyBucket[k1][m].quota
    BY <1>1, <1>6, RevokeEffect DEF Worked
  <2>2. m # w => projectBucket'[ProjectOf[k]][m].allocated
                    = projectBucket[ProjectOf[k]][m].allocated
    BY <1>6, RevokeCounters
  <2> QED
    BY <2>1, <2>2 DEF QuotasStay
<1>7. ASSUME NEW c \in Calls, NEW w \in Months, Reserve(c, w)
      PROVE  QuotasStay(p, m)
  BY <1>7, ReserveKeepsRows DEF QuotasStay
<1>8. ASSUME NEW c \in Calls, NEW success \in BOOLEAN, Finalize(c, success),
             UNCHANGED <<month, quotaVars, opVars>>
      PROVE  QuotasStay(p, m)
  BY <1>8, FinalizeEffect DEF QuotasStay
<1>9. QuietStep \/ (\E r \in Projects : RollBack(r)) \/ (\E k \in Keys : ClaimKey(k))
      \/ (\E S \in SUBSET Projects : NextMonth(S))
      => UNCHANGED <<projectBucket, keyBucket>>
  BY DEF QuietStep, RollBack, ClaimKey, NextMonth, bookVars
<1> QED
  BY <1>2, <1>3, <1>4, <1>5, <1>6, <1>7, <1>8, <1>9, LedgerCases

\* Once a project has the bucket of a later month, no step changes what an earlier one hands
\* out: not even a quota operation that read its month before midnight, because its lock on the
\* project has kept the later bucket from being made.  Late settlements only move credits.
THEOREM PastMonthsKeep == Spec => PastMonthsKeepQuotas
<1>1. ASSUME LedgerInv, LedgerInv', [Next]_vars,
             NEW p \in Projects, NEW n \in Months, projectBucket[p][n].open,
             NEW m \in 0..(n - 1)
      PROVE  QuotasStay(p, m)
  <2>1. n <= Now(p) /\ Now(p) \in Months
    BY <1>1, WorkedMonth DEF LedgerInv, OpenBuckets
  <2>2. m \in Months /\ m # Now(p)
    BY <2>1, LedgerAssumption DEF Months
  <2> QED
    BY <1>1, <2>2, OtherMonthsStay
<1>2. LedgerInv /\ LedgerInv' /\ [Next]_vars =>
        [\A p \in Projects, n \in Months : projectBucket[p][n].open =>
          \A m \in 0..(n - 1) :
             /\ projectBucket[p][m].open =>
                    /\ projectBucket'[p][m].quota = projectBucket[p][m].quota
                    /\ projectBucket'[p][m].allocated = projectBucket[p][m].allocated
             /\ \A k \in Keys : ProjectOf[k] = p /\ keyBucket[k][m].open =>
                    keyBucket'[k][m].quota = keyBucket[k][m].quota]_vars
  BY <1>1 DEF QuotasStay
<1> QED
  BY <1>2, LedgerInvariant, PTL DEF Spec, PastMonthsKeepQuotas

-------------------------------------------------------------------------------
(* The ledger implements BillingPromise *)

\* The sums of the two modules are the same.
LEMMA SameSum ==
    ASSUME NEW f, NEW S
    PROVE  Promise!SumOver(f, S) = SumOver(f, S)
<1>1. Promise!Units(f, S) = Units(f, S)
  BY DEF Promise!Units, Promise!UnitsOf, Units, UnitsOf
<1> QED
  BY <1>1 DEF Promise!SumOver, SumOver, Promise!Cardinality, Cardinality

\* A key's total of a month is what its charged calls add up to, before and after a step.
LEMMA TotalsAreSums ==
    ASSUME LedgerInv, LedgerInv', NEW k \in Keys, NEW m \in Months
    PROVE  /\ keyBucket[k][m].charged = SumOver(CreditOf, KeyCalls(k, m, {"charged"}))
           /\ keyBucket'[k][m].charged = SumOver(CreditOf, KeyCalls(k, m, {"charged"})')
BY DEF LedgerInv, BucketsMatchCalls

\* A step that charges no call leaves the totals alone.
LEMMA TotalsKept ==
    ASSUME LedgerInv, LedgerInv',
           \A c \in Calls : callState'[c] = "charged" <=> callState[c] = "charged",
           \A c \in Calls : callState[c] = "charged" => callMonth'[c] = callMonth[c]
    PROVE  \A k \in Keys, m \in Months : keyBucket'[k][m].charged = keyBucket[k][m].charged
<1>1. \A k, m : KeyCalls(k, m, {"charged"})' = KeyCalls(k, m, {"charged"})
  BY DEF KeyCalls
<1> QED
  BY <1>1, TotalsAreSums

\* Charging a set of pending calls is the promise's Bill.
LEMMA ChargeIsBill ==
    ASSUME LedgerInv, LedgerInv', NEW S \in SUBSET Calls,
           \A c \in S : callState[c] = "pending",
           callState' = [c \in Calls |-> IF c \in S THEN "charged" ELSE callState[c]],
           callMonth' = callMonth
    PROVE  Promise!Bill(S)
<1> DEFINE T(k, m) == {c \in S : KeyOf[c] = k /\ callMonth[c] = m}
<1>1. ASSUME NEW k \in Keys, NEW m \in Months
      PROVE  keyBucket'[k][m].charged = keyBucket[k][m].charged + SumOver(CreditOf, T(k, m))
  <2> DEFINE C == KeyCalls(k, m, {"charged"})
             U == T(k, m)
  <2>1. C \in SUBSET Calls /\ U \in SUBSET Calls /\ C \cap U = {} /\ C' = C \cup U
    BY DEF KeyCalls, LedgerInv, TypeOK
  <2>2. keyBucket[k][m].charged = SumOver(CreditOf, C) /\ keyBucket'[k][m].charged = SumOver(CreditOf, C')
    BY TotalsAreSums
  <2> HIDE DEF C, U
  <2>3. keyBucket'[k][m].charged = keyBucket[k][m].charged + SumOver(CreditOf, U)
    BY <2>1, <2>2, ManyCalls
  <2> QED
    BY <2>3 DEF U
<1>2. S \subseteq Promise!Pending
  BY DEF Promise!Pending
<1>3. [k \in Keys |-> [m \in Months |-> keyBucket[k][m].charged]]' =
      [k \in Keys |-> [m \in Months |->
            [k1 \in Keys |-> [m1 \in Months |-> keyBucket[k1][m1].charged]][k][m]
            + Promise!SumOver(CreditOf, {c \in S : KeyOf[c] = k /\ callMonth[c] = m})]]
  BY <1>1, SameSum
<1> QED
  BY <1>2, <1>3 DEF Promise!Bill

\* Every step of the ledger is a step of the promise, or none.
LEMMA PromiseStep ==
    ASSUME LedgerInv, LedgerInv', [Next]_vars
    PROVE  [Promise!Next]_(Promise!vars)
<1> DEFINE total == [k \in Keys |-> [m \in Months |-> keyBucket[k][m].charged]]
<1>1. TypeOK
  BY DEF LedgerInv
<1>2. CASE UNCHANGED <<callState, callMonth>>
  <2>1. total' = total
    BY <1>2, TotalsKept
  <2> QED
    BY <1>2, <2>1 DEF Promise!vars
<1>3. ASSUME NEW k \in Keys, NEW m \in Months, RevokeKey(k, m)
      PROVE  Promise!Next
  <2>1. PendingOf(k) \in SUBSET Calls /\ \A c \in PendingOf(k) : callState[c] = "pending"
    BY DEF PendingOf
  <2>2. /\ callState' = [c \in Calls |-> IF c \in PendingOf(k) THEN "charged" ELSE callState[c]]
        /\ callMonth' = callMonth
    BY <1>3 DEF RevokeKey
  <2>3. PICK S \in SUBSET Calls : S = PendingOf(k)
    BY <2>1
  <2>4. Promise!Bill(S)
    BY <2>1, <2>2, <2>3, ChargeIsBill
  <2> QED
    BY <2>4 DEF Promise!Next
<1>4. ASSUME NEW c \in Calls, NEW m \in Months, Reserve(c, m)
      PROVE  Promise!Next
  <2>1. /\ callState[c] = "unused"
        /\ callState' = [callState EXCEPT ![c] = "pending"]
        /\ callMonth' = [callMonth EXCEPT ![c] = m]
    BY <1>4 DEF Reserve
  <2>2. total' = total
    BY <1>1, <2>1, TotalsKept DEF TypeOK
  <2>3. Promise!Open(c, m)
    BY <2>1, <2>2 DEF Promise!Open
  <2> QED
    BY <2>3 DEF Promise!Next
<1>5. ASSUME NEW c \in Calls, NEW success \in BOOLEAN, Finalize(c, success),
             callState[c] = "pending"
      PROVE  Promise!Next
  <2>1. /\ callState' = [callState EXCEPT ![c] = IF success THEN "charged" ELSE "failed"]
        /\ callMonth' = callMonth
    BY <1>1, <1>5 DEF Finalize, TypeOK
  <2>2. CASE success
    <3>1. callState' = [x \in Calls |-> IF x \in {c} THEN "charged" ELSE callState[x]]
      BY <1>1, <2>1, <2>2 DEF TypeOK
    <3>2. Promise!Bill({c})
      BY <1>5, <2>1, <3>1, ChargeIsBill
    <3> QED
      BY <3>2 DEF Promise!Next
  <2>3. CASE ~success
    <3>1. total' = total
      BY <1>1, <1>5, <2>1, <2>3, TotalsKept DEF TypeOK
    <3>2. Promise!Release(c)
      BY <1>5, <2>1, <2>3, <3>1 DEF Promise!Release, Promise!Pending
    <3> QED
      BY <3>2 DEF Promise!Next
  <2> QED
    BY <2>2, <2>3
<1>6. ASSUME NEW c \in Calls, NEW success \in BOOLEAN, Finalize(c, success),
             callState[c] # "pending"
      PROVE  UNCHANGED <<callState, callMonth>>
  BY <1>6 DEF Finalize
<1> QED
  BY <1>2, <1>3, <1>4, <1>5, <1>6, CallMoves

\* The ledger implements its promise: every call is billed at most once, in the month
\* fixed at its reservation, and a key's total of a month grows by exactly the credits of
\* the calls that are billed.
THEOREM LedgerKeepsPromise == Spec => BillsOnce
<1>1. Init => Promise!Init
  BY DEF Init, Promise!Init, NoKeyBucket
<1>2. LedgerInv /\ LedgerInv' /\ [Next]_vars => [Promise!Next]_(Promise!vars)
  BY PromiseStep
<1> QED
  BY <1>1, <1>2, LedgerInvariant, PTL DEF Spec, BillsOnce, Promise!Spec

-------------------------------------------------------------------------------
(* A bucket is over its quota by one call *)

\* The calls that use a bucket, and the property of one bucket, as sums over them.
Used == {"pending", "charged"}

WithinOne(quota, S) ==
    SumOver(CreditOf, S) > quota =>
        \E c \in S : SumOver(CreditOf, S) - CreditOf[c] < quota

OverByOne ==
    /\ \A k \in Keys, m \in Months : WithinOne(keyBucket[k][m].quota, KeyCalls(k, m, Used))
    /\ \A p \in Projects, m \in Months :
            WithinOne(projectBucket[p][m].quota, ProjectCalls(p, m, Used))

\* A key that was never claimed has no calls.
UnclaimedUnused ==
    \A c \in Calls : callState[c] # "unused" => keyStatus[KeyOf[c]] \in {"active", "revoked"}

OverageInv == LedgerInv /\ UnclaimedUnused /\ OverByOne

\* A sum that fits needs no call to explain it.
LEMMA EnoughIsWithin ==
    ASSUME NEW S \in SUBSET Calls, NEW q \in Nat, SumOver(CreditOf, S) <= q
    PROVE  WithinOne(q, S)
<1>1. SumOver(CreditOf, S) \in Nat
  BY CallSums
<1> QED
  BY <1>1 DEF WithinOne

\* No call uses nothing.
LEMMA NoneIsWithin ==
    ASSUME NEW q \in Nat
    PROVE  WithinOne(q, {})
<1>1. SumOver(CreditOf, {}) = 0
  BY SumOverEmpty
<1> QED
  BY <1>1 DEF WithinOne

\* Releasing a call keeps the rest within one call of the quota.
LEMMA WithinShrinks ==
    ASSUME NEW S \in SUBSET Calls, NEW q \in Nat, NEW c \in Calls, WithinOne(q, S)
    PROVE  WithinOne(q, S \ {c})
<1> DEFINE T == S \ {c}
           s == SumOver(CreditOf, S)
           t == SumOver(CreditOf, T)
<1>1. CASE c \notin S
  <2>1. T = S
    BY <1>1
  <2> QED
    BY <2>1
<1>2. CASE c \in S
  <2>1. s = t + CreditOf[c]
    BY <1>2, OneCall
  <2>2. s \in Nat /\ t \in Nat /\ \A x \in Calls : CreditOf[x] \in Nat
    BY CallSums, LedgerAssumption
  <2>3. s > q => \E x \in S : s - CreditOf[x] < q
    BY DEF WithinOne
  <2> HIDE DEF s, t
  <2>4. ASSUME t > q
        PROVE  \E x \in T : t - CreditOf[x] < q
    <3>1. PICK x \in S : s - CreditOf[x] < q
      BY <2>1, <2>2, <2>3, <2>4
    <3>2. x # c
      BY <2>1, <2>2, <2>4, <3>1
    <3>3. t - CreditOf[x] < q
      BY <2>1, <2>2, <3>1
    <3> QED
      BY <3>1, <3>2, <3>3
  <2> QED
    BY <2>4 DEF WithinOne, t
<1> QED
  BY <1>1, <1>2

\* A paid call that finds room, or a free one, is the only new excess.
LEMMA WithinGrows ==
    ASSUME NEW S \in SUBSET Calls, NEW q \in Nat, NEW c \in Calls, c \notin S,
           WithinOne(q, S), CreditOf[c] > 0 => SumOver(CreditOf, S) < q
    PROVE  WithinOne(q, S \cup {c})
<1> DEFINE T == S \cup {c}
           s == SumOver(CreditOf, S)
           t == SumOver(CreditOf, T)
<1>1. t = s + CreditOf[c]
  BY OneCall
<1>2. s \in Nat /\ t \in Nat /\ CreditOf[c] \in Nat
  BY CallSums, LedgerAssumption
<1>3. s > q => \E x \in S : s - CreditOf[x] < q
  BY DEF WithinOne
<1> HIDE DEF s, t
<1>4. ASSUME t > q
      PROVE  \E x \in T : t - CreditOf[x] < q
  <2>1. CASE CreditOf[c] > 0
    <3>1. s < q
      BY <2>1 DEF s
    <3>2. t - CreditOf[c] < q
      BY <1>1, <1>2, <3>1
    <3> QED
      BY <3>2
  <2>2. CASE CreditOf[c] = 0
    <3>1. t = s
      BY <1>1, <1>2, <2>2
    <3> QED
      BY <1>3, <1>4, <3>1
  <2> QED
    BY <1>2, <2>1, <2>2
<1> QED
  BY <1>4 DEF WithinOne, t

\* What a bucket counts is what its calls use.
LEMMA UsedIsCalls ==
    ASSUME LedgerInv, NEW m \in Months
    PROVE  /\ \A k \in Keys :
                /\ KeyCalls(k, m, Used) \in SUBSET Calls
                /\ keyBucket[k][m].charged + keyBucket[k][m].pending
                        = SumOver(CreditOf, KeyCalls(k, m, Used))
           /\ \A p \in Projects :
                /\ ProjectCalls(p, m, Used) \in SUBSET Calls
                /\ projectBucket[p][m].charged + projectBucket[p][m].pending
                        = SumOver(CreditOf, ProjectCalls(p, m, Used))
<1>1. BucketsMatchCalls
  BY DEF LedgerInv
<1>2. ASSUME NEW A \in SUBSET Calls, NEW B \in SUBSET Calls, A \cap B = {}
      PROVE  SumOver(CreditOf, A \cup B) = SumOver(CreditOf, A) + SumOver(CreditOf, B)
  <2>1. IsFiniteSet(A) /\ IsFiniteSet(B) /\ \A x \in A \cup B : CreditOf[x] \in Nat
    BY <1>2, CallSums, LedgerAssumption
  <2> QED
    BY <1>2, <2>1, SumOverDisjoint
<1>3. ASSUME NEW k \in Keys
      PROVE  /\ KeyCalls(k, m, Used) \in SUBSET Calls
             /\ keyBucket[k][m].charged + keyBucket[k][m].pending
                    = SumOver(CreditOf, KeyCalls(k, m, Used))
  <2> DEFINE A == KeyCalls(k, m, {"charged"})
             B == KeyCalls(k, m, {"pending"})
  <2>1. /\ A \in SUBSET Calls /\ B \in SUBSET Calls /\ A \cap B = {}
        /\ KeyCalls(k, m, Used) = A \cup B
    BY DEF KeyCalls, Used
  <2>2. keyBucket[k][m].charged = SumOver(CreditOf, A) /\ keyBucket[k][m].pending = SumOver(CreditOf, B)
    BY <1>1 DEF BucketsMatchCalls
  <2> HIDE DEF A, B
  <2> QED
    BY <1>2, <2>1, <2>2
<1>4. ASSUME NEW p \in Projects
      PROVE  /\ ProjectCalls(p, m, Used) \in SUBSET Calls
             /\ projectBucket[p][m].charged + projectBucket[p][m].pending
                    = SumOver(CreditOf, ProjectCalls(p, m, Used))
  <2> DEFINE A == ProjectCalls(p, m, {"charged"})
             B == ProjectCalls(p, m, {"pending"})
  <2>1. /\ A \in SUBSET Calls /\ B \in SUBSET Calls /\ A \cap B = {}
        /\ ProjectCalls(p, m, Used) = A \cup B
    BY DEF ProjectCalls, Used
  <2>2. /\ projectBucket[p][m].charged = SumOver(CreditOf, A)
        /\ projectBucket[p][m].pending = SumOver(CreditOf, B)
    BY <1>1 DEF BucketsMatchCalls
  <2> HIDE DEF A, B
  <2> QED
    BY <1>2, <2>1, <2>2
<1> QED
  BY <1>3, <1>4

\* With the ledger's invariant, the two forms of the property are one.
LEMMA OverByOneIsOverage ==
    ASSUME LedgerInv
    PROVE  OverByOne <=> OverageIsOneCall
BY UsedIsCalls DEF OverByOne, WithinOne, OverageIsOneCall, Used

\* A bucket that does not exist has no calls.
LEMMA ClosedHasNoCalls ==
    ASSUME LedgerInv, NEW m \in Months
    PROVE  /\ \A k \in Keys : ~keyBucket[k][m].open => KeyCalls(k, m, Used) = {}
           /\ \A p \in Projects : ~projectBucket[p][m].open => ProjectCalls(p, m, Used) = {}
<1>1. OpenBuckets
  BY DEF LedgerInv
<1>2. ASSUME NEW c \in Calls, callState[c] \in Used
      PROVE  /\ keyBucket[KeyOf[c]][callMonth[c]].open
             /\ projectBucket[ProjectOf[KeyOf[c]]][callMonth[c]].open
  <2>1. KeyOf[c] \in Keys /\ callMonth[c] \in Months
    BY LedgerAssumption DEF LedgerInv, TypeOK
  <2> QED
    BY <1>1, <1>2, <2>1 DEF OpenBuckets, Used
<1> QED
  BY <1>2 DEF KeyCalls, ProjectCalls

\* A step that leaves calls and quotas alone, except of buckets that no call uses.
LEMMA OverageKept ==
    ASSUME OverageInv, TypeOK', UNCHANGED <<callState, callMonth>>,
           \A k \in Keys, m \in Months :
                \/ KeyCalls(k, m, Used) = {}
                \/ keyBucket'[k][m].quota = keyBucket[k][m].quota,
           \A p \in Projects, m \in Months :
                \/ ProjectCalls(p, m, Used) = {}
                \/ projectBucket'[p][m].quota = projectBucket[p][m].quota
    PROVE  OverByOne'
<1>1. /\ \A k, m : KeyCalls(k, m, Used)' = KeyCalls(k, m, Used)
      /\ \A p, m : ProjectCalls(p, m, Used)' = ProjectCalls(p, m, Used)
  BY DEF KeyCalls, ProjectCalls, Used
<1>2. /\ \A k \in Keys, m \in Months : keyBucket'[k][m].quota \in Nat
      /\ \A p \in Projects, m \in Months : projectBucket'[p][m].quota \in Nat
  BY DEF TypeOK, KeyBucket, ProjectBucket
<1>3. /\ \A k \in Keys, m \in Months : WithinOne(keyBucket'[k][m].quota, KeyCalls(k, m, Used))
      /\ \A p \in Projects, m \in Months :
            WithinOne(projectBucket'[p][m].quota, ProjectCalls(p, m, Used))
  BY <1>2, NoneIsWithin DEF OverageInv, OverByOne
<1> QED
  BY <1>1, <1>3 DEF OverByOne, WithinOne

\* A reservation uses one bucket of each kind more, which had room for it.
LEMMA ReserveOverage ==
    ASSUME OverageInv, LedgerInv', NEW c \in Calls, NEW m \in Months, Reserve(c, m)
    PROVE  OverByOne'
<1> DEFINE k == KeyOf[c]
           p == ProjectOf[k]
           b == OpenedProjectBucket(p, m)
           d == OpenedKeyBucket(k, m)
           n == CreditOf[c]
           SK == KeyCalls(k, m, Used)
           SP == ProjectCalls(p, m, Used)
<1>1. LedgerInv /\ TypeOK /\ OverByOne /\ OpenBuckets
  BY DEF OverageInv, LedgerInv
<1>2. k \in Keys /\ p \in Projects /\ n \in Nat
  BY LedgerAssumption
<1>3. /\ callState[c] = "unused"
      /\ callState' = [callState EXCEPT ![c] = "pending"]
      /\ callMonth' = [callMonth EXCEPT ![c] = m]
      /\ \A r \in Projects, x \in Months : ~(r = p /\ x = m) =>
                projectBucket'[r][x] = projectBucket[r][x]
      /\ \A k1 \in Keys, x \in Months : ~(k1 = k /\ x = m) =>
                keyBucket'[k1][x] = keyBucket[k1][x]
  BY <1>1, ReserveEffect
<1>4. /\ \A k1 \in Keys, x \in Months :
            KeyCalls(k1, x, Used)' = IF k1 = k /\ x = m THEN SK \cup {c} ELSE KeyCalls(k1, x, Used)
      /\ \A r \in Projects, x \in Months :
            ProjectCalls(r, x, Used)' = IF r = p /\ x = m THEN SP \cup {c}
                                        ELSE ProjectCalls(r, x, Used)
  BY <1>1, <1>3 DEF KeyCalls, ProjectCalls, Used, TypeOK
<1>5. c \notin SK /\ c \notin SP /\ SK \in SUBSET Calls /\ SP \in SUBSET Calls
  BY <1>3 DEF KeyCalls, ProjectCalls, Used
<1>6. /\ d \in KeyBucket /\ d.charged = keyBucket[k][m].charged /\ d.pending = keyBucket[k][m].pending
      /\ b \in ProjectBucket
      /\ b.charged = projectBucket[p][m].charged /\ b.pending = projectBucket[p][m].pending
  BY <1>1, <1>2, OpenedKey, OpenedProject
<1>7. /\ d.charged + d.pending = SumOver(CreditOf, SK)
      /\ b.charged + b.pending = SumOver(CreditOf, SP)
  BY <1>1, <1>2, <1>6, UsedIsCalls
<1>8. keyBucket'[k][m] = Held(d, n) /\ projectBucket'[p][m] = Held(b, n)
  BY <1>1, <1>2 DEF Reserve, TypeOK
<1>9. Admits(d, n) /\ Admits(b, n)
  BY DEF Reserve
<1>10. WithinOne(d.quota, SK)
  <2>1. keyBucket[k][m].open => d = keyBucket[k][m]
    BY DEF OpenedKeyBucket
  <2>2. ~keyBucket[k][m].open => SK = {}
    BY <1>1, <1>2, ClosedHasNoCalls
  <2>3. d.quota \in Nat
    BY <1>6 DEF KeyBucket
  <2> HIDE DEF d, SK
  <2>4. keyBucket[k][m].open => WithinOne(d.quota, SK)
    BY <1>1, <1>2, <2>1 DEF OverByOne, SK
  <2> QED
    BY <2>2, <2>3, <2>4, NoneIsWithin
<1>11. WithinOne(b.quota, SP)
  <2>1. projectBucket[p][m].open => b = projectBucket[p][m]
    BY DEF OpenedProjectBucket
  <2>2. ~projectBucket[p][m].open => SP = {}
    BY <1>1, <1>2, ClosedHasNoCalls
  <2>3. b.quota \in Nat
    BY <1>6 DEF ProjectBucket
  <2> HIDE DEF b, SP
  <2>4. projectBucket[p][m].open => WithinOne(b.quota, SP)
    BY <1>1, <1>2, <2>1 DEF OverByOne, SP
  <2> QED
    BY <2>2, <2>3, <2>4, NoneIsWithin
<1> HIDE DEF b, d, n, SK, SP
<1>12. WithinOne(d.quota, SK \cup {c})
  <2>1. d.quota \in Nat /\ (CreditOf[c] > 0 => SumOver(CreditOf, SK) < d.quota)
    BY <1>6, <1>7, <1>9 DEF KeyBucket, Admits, n
  <2> QED
    BY <1>5, <1>10, <2>1, WithinGrows
<1>13. WithinOne(b.quota, SP \cup {c})
  <2>1. b.quota \in Nat /\ (CreditOf[c] > 0 => SumOver(CreditOf, SP) < b.quota)
    BY <1>6, <1>7, <1>9 DEF ProjectBucket, Admits, n
  <2> QED
    BY <1>5, <1>11, <2>1, WithinGrows
<1>14. keyBucket'[k][m].quota = d.quota /\ projectBucket'[p][m].quota = b.quota
  BY <1>6, <1>8 DEF Held, KeyBucket, ProjectBucket
<1>15. ASSUME NEW k1 \in Keys, NEW x \in Months
       PROVE  WithinOne(keyBucket'[k1][x].quota, KeyCalls(k1, x, Used)')
  <2>1. CASE k1 = k /\ x = m
    BY <1>4, <1>12, <1>14, <2>1
  <2>2. CASE ~(k1 = k /\ x = m)
    BY <1>1, <1>3, <1>4, <2>2 DEF OverByOne
  <2> QED
    BY <2>1, <2>2
<1>16. ASSUME NEW r \in Projects, NEW x \in Months
       PROVE  WithinOne(projectBucket'[r][x].quota, ProjectCalls(r, x, Used)')
  <2>1. CASE r = p /\ x = m
    BY <1>4, <1>13, <1>14, <2>1
  <2>2. CASE ~(r = p /\ x = m)
    BY <1>1, <1>3, <1>4, <2>2 DEF OverByOne
  <2> QED
    BY <2>1, <2>2
<1> QED
  BY <1>15, <1>16 DEF OverByOne, WithinOne

\* A settlement charges a call, which changes nothing, or releases it.
LEMMA FinalizeOverage ==
    ASSUME OverageInv, NEW c \in Calls, NEW success \in BOOLEAN, Finalize(c, success),
           UNCHANGED <<month, quotaVars, opVars>>
    PROVE  OverByOne'
<1>1. LedgerInv /\ TypeOK /\ OverByOne
  BY DEF OverageInv, LedgerInv
<1>2. /\ callMonth' = callMonth
      /\ \A k \in Keys, m \in Months : keyBucket'[k][m].quota = keyBucket[k][m].quota
      /\ \A p \in Projects, m \in Months :
            projectBucket'[p][m].quota = projectBucket[p][m].quota
  BY <1>1, FinalizeEffect
<1>3. callState' = callState \/
      /\ callState[c] = "pending"
      /\ callState' = [callState EXCEPT ![c] = IF success THEN "charged" ELSE "failed"]
  BY DEF Finalize
<1>4. ASSUME NEW S, NEW T, NEW q \in Nat, WithinOne(q, S), S \in SUBSET Calls,
             T = S \/ T = S \ {c}
      PROVE  WithinOne(q, T)
  BY <1>4, WithinShrinks
<1>5. ASSUME NEW k \in Keys, NEW m \in Months
      PROVE  WithinOne(keyBucket'[k][m].quota, KeyCalls(k, m, Used)')
  <2>1. KeyCalls(k, m, Used)' = KeyCalls(k, m, Used)
        \/ KeyCalls(k, m, Used)' = KeyCalls(k, m, Used) \ {c}
    BY <1>1, <1>2, <1>3 DEF KeyCalls, Used, TypeOK
  <2>2. /\ WithinOne(keyBucket[k][m].quota, KeyCalls(k, m, Used))
        /\ keyBucket[k][m].quota \in Nat /\ KeyCalls(k, m, Used) \in SUBSET Calls
    BY <1>1 DEF OverByOne, TypeOK, KeyBucket, KeyCalls
  <2> QED
    BY <1>2, <1>4, <2>1, <2>2
<1>6. ASSUME NEW p \in Projects, NEW m \in Months
      PROVE  WithinOne(projectBucket'[p][m].quota, ProjectCalls(p, m, Used)')
  <2>1. ProjectCalls(p, m, Used)' = ProjectCalls(p, m, Used)
        \/ ProjectCalls(p, m, Used)' = ProjectCalls(p, m, Used) \ {c}
    BY <1>1, <1>2, <1>3 DEF ProjectCalls, Used, TypeOK
  <2>2. /\ WithinOne(projectBucket[p][m].quota, ProjectCalls(p, m, Used))
        /\ projectBucket[p][m].quota \in Nat /\ ProjectCalls(p, m, Used) \in SUBSET Calls
    BY <1>1 DEF OverByOne, TypeOK, ProjectBucket, ProjectCalls
  <2> QED
    BY <1>2, <1>4, <2>1, <2>2
<1> QED
  BY <1>5, <1>6 DEF OverByOne, WithinOne

\* A revocation charges the calls in flight: what is used stays used.
LEMMA RevokeOverage ==
    ASSUME OverageInv, TypeOK', NEW k \in Keys, NEW w \in Months, RevokeKey(k, w)
    PROVE  OverByOne'
<1>1. LedgerInv /\ OverByOne
  BY DEF OverageInv
<1>2. /\ \A k1 \in Keys, m \in Months : KeyCalls(k1, m, Used)' = KeyCalls(k1, m, Used)
      /\ \A p \in Projects, m \in Months : ProjectCalls(p, m, Used)' = ProjectCalls(p, m, Used)
  BY DEF RevokeKey, PendingOf, KeyCalls, ProjectCalls, Used
<1>3. /\ \A k1 \in Keys, m \in Months : keyBucket'[k1][m].quota = keyBucket[k1][m].quota
      /\ \A p \in Projects, m \in Months : projectBucket'[p][m].quota = projectBucket[p][m].quota
  BY <1>1, RevokeEffect
<1> QED
  BY <1>1, <1>2, <1>3 DEF OverByOne, WithinOne

\* An approved key has not been used; a changed quota covers what was.
LEMMA QuotaOverage ==
    ASSUME OverageInv, TypeOK', NEW k \in Keys, NEW q \in Quotas, NEW w \in Months,
           ApproveKey(k, q, w) \/ UpdateKeyQuota(k, q, w)
    PROVE  OverByOne'
<1> DEFINE p == ProjectOf[k]
           d == OpenedKeyBucket(k, w)
           SK == KeyCalls(k, w, Used)
           SP == ProjectCalls(p, w, Used)
<1>1. LedgerInv /\ TypeOK /\ OverByOne /\ UnclaimedUnused
  BY DEF OverageInv, LedgerInv
<1>2. /\ p \in Projects /\ UNCHANGED <<callState, callMonth>>
      /\ \A r \in Projects, m \in Months : ~(r = p /\ m = w) =>
                projectBucket'[r][m] = projectBucket[r][m]
      /\ \A k1 \in Keys, m \in Months : ~(k1 = k /\ m = w) =>
                keyBucket'[k1][m] = keyBucket[k1][m]
      /\ keyBucket'[k][w].quota = keyQuota'[k]
  <2>1. QuotaMoved(k, w)
    BY <1>1, QuotaEffect
  <2> QED
    BY <2>1 DEF QuotaMoved
<1>3. q \in Nat /\ keyQuota'[k] = q
  BY <1>1, LedgerAssumption DEF ApproveKey, UpdateKeyQuota, TypeOK
<1>4. SK \in SUBSET Calls /\ SP \in SUBSET Calls
  BY DEF KeyCalls, ProjectCalls
<1>5. SumOver(CreditOf, SK) <= q
  <2>1. CASE ApproveKey(k, q, w)
    <3>1. SK = {}
      BY <1>1, <2>1 DEF ApproveKey, UnclaimedUnused, KeyCalls, Used
    <3> QED
      BY <1>3, <3>1, SumOverEmpty
  <2>2. CASE UpdateKeyQuota(k, q, w)
    <3>1. d.charged + d.pending <= q
      <4>1. q >= d.charged + d.pending
        BY <2>2 DEF UpdateKeyQuota
      <4>2. d \in KeyBucket
        BY <1>1, <1>2, OpenedKey
      <4> HIDE DEF d
      <4> QED
        BY <1>3, <4>1, <4>2 DEF KeyBucket
    <3>2. d.charged = keyBucket[k][w].charged /\ d.pending = keyBucket[k][w].pending
      BY <1>1, <1>2, OpenedKey
    <3>3. keyBucket[k][w].charged + keyBucket[k][w].pending = SumOver(CreditOf, SK)
      BY <1>1, <1>2, UsedIsCalls
    <3> HIDE DEF d, SK
    <3> QED
      BY <3>1, <3>2, <3>3
  <2> QED
    BY <2>1, <2>2
<1>6. WithinOne(keyBucket'[k][w].quota, SK)
  <2> HIDE DEF SK
  <2> QED
    BY <1>2, <1>3, <1>4, <1>5, EnoughIsWithin
<1>7. WithinOne(projectBucket'[p][w].quota, SP)
  <2>1. CASE projectBucket[p][w].open
    <3> DEFINE b == projectBucket[p][w]
    <3>1. \/ projectBucket'[p][w] = [b EXCEPT !.allocated = @ + q]
          \/ projectBucket'[p][w] = [b EXCEPT !.allocated = (@ + q) - keyQuota[k]]
      <4>1. CASE ApproveKey(k, q, w)
        BY <1>1, <1>2, <2>1, <4>1 DEF ApproveKey, OpenedProjectBucket, TypeOK
      <4>2. CASE UpdateKeyQuota(k, q, w)
        <5>1. projectBucket' = [projectBucket EXCEPT ![p][w] =
                    [OpenedProjectBucket(p, w) EXCEPT !.allocated = (@ + q) - keyQuota[k]]]
          BY <4>2 DEF UpdateKeyQuota
        <5>2. OpenedProjectBucket(p, w) = b
          BY <2>1 DEF OpenedProjectBucket
        <5> HIDE DEF b
        <5> QED
          BY <1>1, <1>2, <5>1, <5>2 DEF TypeOK
      <4> QED
        BY <4>1, <4>2
    <3>2. b \in ProjectBucket
      BY <1>1, <1>2 DEF TypeOK
    <3>3. projectBucket'[p][w].quota = projectBucket[p][w].quota
      BY <3>1, <3>2 DEF ProjectBucket
    <3>4. WithinOne(projectBucket[p][w].quota, SP)
      BY <1>1, <1>2 DEF OverByOne
    <3> QED
      BY <3>3, <3>4
  <2>2. CASE ~projectBucket[p][w].open
    <3>1. SP = {}
      BY <1>1, <1>2, <2>2, ClosedHasNoCalls
    <3>2. projectBucket'[p][w].quota \in Nat
      BY <1>2 DEF TypeOK, ProjectBucket
    <3> HIDE DEF SP
    <3> QED
      BY <1>2, <3>1, <3>2, NoneIsWithin
  <2> QED
    BY <2>1, <2>2
<1>8. /\ \A k1 \in Keys, m \in Months : KeyCalls(k1, m, Used)' = KeyCalls(k1, m, Used)
      /\ \A r \in Projects, m \in Months : ProjectCalls(r, m, Used)' = ProjectCalls(r, m, Used)
  BY <1>2 DEF KeyCalls, ProjectCalls, Used
<1>9. ASSUME NEW k1 \in Keys, NEW m \in Months
      PROVE  WithinOne(keyBucket'[k1][m].quota, KeyCalls(k1, m, Used))
  <2>1. CASE k1 = k /\ m = w
    BY <1>6, <2>1
  <2>2. CASE ~(k1 = k /\ m = w)
    BY <1>1, <1>2, <2>2 DEF OverByOne
  <2> QED
    BY <2>1, <2>2
<1>10. ASSUME NEW r \in Projects, NEW m \in Months
       PROVE  WithinOne(projectBucket'[r][m].quota, ProjectCalls(r, m, Used))
  <2>1. CASE r = p /\ m = w
    BY <1>7, <2>1
  <2>2. CASE ~(r = p /\ m = w)
    BY <1>1, <1>2, <2>2 DEF OverByOne
  <2> QED
    BY <2>1, <2>2
<1> QED
  BY <1>8, <1>9, <1>10 DEF OverByOne, WithinOne

\* A project is committed to all that its keys have used in a month.
LEMMA CommitmentCoversUse ==
    ASSUME OverageInv, NEW p \in Projects, NEW w \in Months
    PROVE  /\ Commitment(p, w) \in Nat
           /\ SumOver(CreditOf, ProjectCalls(p, w, Used)) <= Commitment(p, w)
<1> DEFINE f == [k \in Keys |-> CommitmentOf(k, w)]
           K == {k \in Keys : ProjectOf[k] = p}
           S == ProjectCalls(p, w, Used)
<1>1. LedgerInv /\ TypeOK /\ PendingCallHasActiveKey /\ UnclaimedUnused
  BY DEF OverageInv, LedgerInv, TypeOK
<1>2. ASSUME NEW k \in Keys
      PROVE  /\ f[k] \in Nat
             /\ SumOver(CreditOf, KeyCalls(k, w, Used)) <= f[k]
  <2> DEFINE d == keyBucket[k][w]
             x == IF d.open THEN d.quota ELSE keyQuota[k]
             u == SumOver(CreditOf, KeyCalls(k, w, Used))
  <2>1. d \in KeyBucket /\ keyQuota[k] \in Nat
    BY <1>1 DEF TypeOK
  <2>2. x \in Nat /\ d.charged \in Nat /\ d.pending \in Nat /\ d.charged + d.pending \in Nat
    BY <2>1 DEF KeyBucket
  <2>3. f[k] = IF Live(k) THEN Larger(x, d.charged + d.pending)
               ELSE IF keyStatus[k] = "revoked" THEN d.charged ELSE 0
    BY DEF CommitmentOf
  <2>4. d.charged + d.pending = u
    BY <1>1, UsedIsCalls
  <2>5. keyStatus[k] = "revoked" => d.pending = 0
    <3>1. keyStatus[k] = "revoked" => KeyCalls(k, w, {"pending"}) = {}
      BY <1>1 DEF PendingCallHasActiveKey, KeyCalls
    <3>2. d.pending = SumOver(CreditOf, KeyCalls(k, w, {"pending"}))
      BY <1>1 DEF LedgerInv, BucketsMatchCalls
    <3> QED
      BY <3>1, <3>2, SumOverEmpty
  <2>6. ~Live(k) /\ keyStatus[k] # "revoked" => u = 0
    <3>1. ~Live(k) /\ keyStatus[k] # "revoked" => KeyCalls(k, w, Used) = {}
      BY <1>1 DEF UnclaimedUnused, KeyCalls, Used, Live
    <3> QED
      BY <3>1, SumOverEmpty
  <2> HIDE DEF f, x, d, u
  <2>7. f[k] \in Nat /\ u <= f[k]
    BY <2>2, <2>3, <2>4, <2>5, <2>6 DEF Larger
  <2> QED
    BY <2>7 DEF u
<1>3. S \in SUBSET Calls /\ K \in SUBSET Keys
  BY DEF ProjectCalls
<1>4. \A k \in K : {c \in S : KeyOf[c] = k} = KeyCalls(k, w, Used)
  BY DEF ProjectCalls, KeyCalls
<1>5. \A c \in S : KeyOf[c] \in K /\ CreditOf[c] \in Nat
  BY LedgerAssumption DEF ProjectCalls
<1>6. Commitment(p, w) = SumOver(f, K)
  BY DEF Commitment
<1> HIDE DEF f, K, S
<1>7. IsFiniteSet(S) /\ IsFiniteSet(K) /\ SumOver(f, K) \in Nat
  BY <1>2, <1>3, CallSums, KeySums
<1>8. SumOver(CreditOf, S) <= SumOver(f, K)
  BY <1>2, <1>3, <1>4, <1>5, <1>7, SumOverGroups
<1> QED
  BY <1>6, <1>7, <1>8 DEF S

\* A project's quota is not lowered under what is used of it.
LEMMA ProjectQuotaOverage ==
    ASSUME OverageInv, TypeOK', NEW p \in Projects, NEW q \in Quotas, NEW w \in Months,
           UpdateProjectQuota(p, q, w)
    PROVE  OverByOne'
<1>1. LedgerInv /\ TypeOK /\ OverByOne
  BY DEF OverageInv, LedgerInv
<1>2. /\ UNCHANGED <<callState, callMonth, keyBucket>>
      /\ \A r \in Projects, m \in Months : ~(r = p /\ m = w) =>
                projectBucket'[r][m] = projectBucket[r][m]
      /\ projectBucket'[p][w].quota = projectQuota'[p]
  <2>1. ProjectQuotaMoved(p, w)
    BY <1>1, ProjectQuotaEffect
  <2> QED
    BY <2>1 DEF ProjectQuotaMoved
<1>3. q \in Nat /\ projectQuota'[p] = q /\ q >= Commitment(p, w)
  BY <1>1, LedgerAssumption DEF UpdateProjectQuota, TypeOK
<1>4. ProjectCalls(p, w, Used) \in SUBSET Calls
  BY DEF ProjectCalls
<1>5. SumOver(CreditOf, ProjectCalls(p, w, Used)) <= q
  <2>1. SumOver(CreditOf, ProjectCalls(p, w, Used)) \in Nat
    BY <1>4, CallSums
  <2> QED
    BY <1>3, <2>1, CommitmentCoversUse
<1>6. WithinOne(projectBucket'[p][w].quota, ProjectCalls(p, w, Used))
  BY <1>2, <1>3, <1>4, <1>5, EnoughIsWithin
<1>7. /\ \A k \in Keys, m \in Months : KeyCalls(k, m, Used)' = KeyCalls(k, m, Used)
      /\ \A r \in Projects, m \in Months : ProjectCalls(r, m, Used)' = ProjectCalls(r, m, Used)
  BY <1>2 DEF KeyCalls, ProjectCalls, Used
<1>8. ASSUME NEW r \in Projects, NEW m \in Months
      PROVE  WithinOne(projectBucket'[r][m].quota, ProjectCalls(r, m, Used))
  <2>1. CASE r = p /\ m = w
    BY <1>6, <2>1
  <2>2. CASE ~(r = p /\ m = w)
    BY <1>1, <1>2, <2>2 DEF OverByOne
  <2> QED
    BY <2>1, <2>2
<1> QED
  BY <1>1, <1>2, <1>7, <1>8 DEF OverByOne, WithinOne

\* No call is made with a key that was not claimed, and no key returns from there.
LEMMA UnclaimedStep ==
    ASSUME OverageInv, [Next]_vars
    PROVE  UnclaimedUnused'
<1>1. LedgerInv /\ TypeOK /\ UnclaimedUnused /\ \A c \in Calls : KeyOf[c] \in Keys
  BY LedgerAssumption DEF OverageInv, LedgerInv
<1>2. CASE UNCHANGED <<callState, keyStatus>>
  BY <1>1, <1>2 DEF UnclaimedUnused
<1>3. ASSUME NEW k \in Keys, NEW q, NEW m,
             RevokeKey(k, m) \/ ClaimKey(k) \/ ApproveKey(k, q, m)
      PROVE  UnclaimedUnused'
  <2>1. \A c \in Calls : callState'[c] # "unused" => callState[c] # "unused"
    BY <1>3 DEF RevokeKey, PendingOf, ClaimKey, ApproveKey, callVars
  <2>2. \E old, new : /\ keyStatus[k] = old /\ keyStatus' = [keyStatus EXCEPT ![k] = new]
                      /\ old \in {"active", "revoked"} => new \in {"active", "revoked"}
    BY <1>3 DEF RevokeKey, ClaimKey, ApproveKey
  <2>3. DOMAIN keyStatus = Keys
    BY <1>1 DEF TypeOK
  <2> QED
    BY <1>1, <2>1, <2>2, <2>3 DEF UnclaimedUnused
<1>4. ASSUME NEW c \in Calls, NEW m \in Months, Reserve(c, m)
      PROVE  UnclaimedUnused'
  BY <1>1, <1>4 DEF UnclaimedUnused, Reserve, quotaVars, TypeOK
<1>5. ASSUME NEW c \in Calls, NEW success \in BOOLEAN, Finalize(c, success),
             UNCHANGED quotaVars
      PROVE  UnclaimedUnused'
  BY <1>1, <1>5 DEF UnclaimedUnused, Finalize, quotaVars, TypeOK
<1>6. QuietStep \/ EnsureCommit \/ (\E p \in Projects : RollBack(p))
      \/ (\E S \in SUBSET Projects : NextMonth(S))
      => UNCHANGED <<callState, keyStatus>>
  BY DEF QuietStep, EnsureCommit, RollBack, NextMonth, callVars, quotaVars
<1>7. ASSUME NEW k \in Keys, NEW q \in Quotas, NEW m \in Months, UpdateKeyQuota(k, q, m)
      PROVE  UNCHANGED <<callState, keyStatus>>
  BY <1>7 DEF UpdateKeyQuota, callVars
<1>8. ASSUME NEW p \in Projects, NEW q \in Quotas, NEW m \in Months, UpdateProjectQuota(p, q, m)
      PROVE  UNCHANGED <<callState, keyStatus>>
  BY <1>8 DEF UpdateProjectQuota, callVars
<1> QED
  BY <1>2, <1>3, <1>4, <1>5, <1>6, <1>7, <1>8, LedgerCases

\* Every step keeps every bucket within one call of its quota.
LEMMA OverageStep ==
    ASSUME OverageInv, LedgerInv', [Next]_vars
    PROVE  OverByOne'
<1>1. LedgerInv /\ TypeOK'
  BY DEF OverageInv, LedgerInv
<1>2. CASE UNCHANGED <<callState, callMonth, keyBucket, projectBucket>>
  BY <1>1, <1>2, OverageKept
<1>3. CASE EnsureCommit
  <2>1. UNCHANGED <<callState, callMonth>>
    BY <1>3 DEF EnsureCommit, callVars
  <2>2. /\ \A k \in Keys, m \in Months :
            keyBucket[k][m].open => keyBucket'[k][m] = keyBucket[k][m]
        /\ \A p \in Projects, m \in Months :
            projectBucket[p][m].open => projectBucket'[p][m] = projectBucket[p][m]
    BY <1>1, <1>3, EnsureEffect
  <2>3. /\ \A k \in Keys, m \in Months :
            KeyCalls(k, m, Used) = {} \/ keyBucket'[k][m].quota = keyBucket[k][m].quota
        /\ \A p \in Projects, m \in Months :
            ProjectCalls(p, m, Used) = {} \/ projectBucket'[p][m].quota = projectBucket[p][m].quota
    BY <1>1, <2>2, ClosedHasNoCalls
  <2> QED
    BY <1>1, <2>1, <2>3, OverageKept
<1>4. QuietStep \/ (\E p \in Projects : RollBack(p)) \/ (\E k \in Keys : ClaimKey(k))
      \/ (\E S \in SUBSET Projects : NextMonth(S))
      => UNCHANGED <<callState, callMonth, keyBucket, projectBucket>>
  BY DEF QuietStep, RollBack, ClaimKey, NextMonth, callVars, bookVars
<1>5. ASSUME NEW k \in Keys, NEW q \in Quotas, NEW m \in Months,
             ApproveKey(k, q, m) \/ UpdateKeyQuota(k, q, m)
      PROVE  OverByOne'
  BY <1>1, <1>5, QuotaOverage
<1>6. ASSUME NEW p \in Projects, NEW q \in Quotas, NEW m \in Months, UpdateProjectQuota(p, q, m)
      PROVE  OverByOne'
  BY <1>1, <1>6, ProjectQuotaOverage
<1>7. ASSUME NEW k \in Keys, NEW m \in Months, RevokeKey(k, m)
      PROVE  OverByOne'
  BY <1>1, <1>7, RevokeOverage
<1>8. ASSUME NEW c \in Calls, NEW m \in Months, Reserve(c, m)
      PROVE  OverByOne'
  BY <1>8, ReserveOverage
<1>9. ASSUME NEW c \in Calls, NEW success \in BOOLEAN, Finalize(c, success),
             UNCHANGED <<month, quotaVars, ensure, opVars>>
      PROVE  OverByOne'
  BY <1>9, FinalizeOverage
<1> QED
  BY <1>2, <1>3, <1>4, <1>5, <1>6, <1>7, <1>8, <1>9, LedgerCases

\* A bucket is over its quota, if at all, by one call: the last that was admitted.
THEOREM OverageHolds == Spec => []OverageIsOneCall
<1>1. Init => UnclaimedUnused /\ OverByOne
  <2>1. ASSUME Init
        PROVE  OverByOne
    <3>1. /\ \A k \in Keys, m \in Months :
                KeyCalls(k, m, Used) = {} /\ keyBucket[k][m].quota \in Nat
          /\ \A p \in Projects, m \in Months :
                ProjectCalls(p, m, Used) = {} /\ projectBucket[p][m].quota \in Nat
      BY <2>1 DEF Init, KeyCalls, ProjectCalls, Used, NoKeyBucket, NoProjectBucket
    <3> QED
      BY <3>1, NoneIsWithin DEF OverByOne
  <2> QED
    BY <2>1 DEF Init, UnclaimedUnused
<1>2. OverageInv /\ LedgerInv' /\ [Next]_vars => OverageInv'
  BY UnclaimedStep, OverageStep DEF OverageInv
<1>3. OverageInv => OverageIsOneCall
  BY OverByOneIsOverage DEF OverageInv
<1>4. Init /\ LedgerInv => OverageInv
  BY <1>1 DEF OverageInv
<1> QED
  BY <1>2, <1>3, <1>4, LedgerInvariant, PTL DEF Spec
===============================================================================
