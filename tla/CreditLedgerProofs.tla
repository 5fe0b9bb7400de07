-------------------------- MODULE CreditLedgerProofs --------------------------
(***************************************************************************)
(* The credit ledger is correct for every set of projects, keys and calls,  *)
(* every price and quota and every number of months.  LedgerInv is the      *)
(* inductive invariant: what the runs check, and what makes it inductive.   *)
(***************************************************************************)
EXTENDS CreditLedger, FiniteSetTheorems, FunctionTheorems, TLAPS

-------------------------------------------------------------------------------
(* The laws of SumOver that the proofs cite *)

\* Finitely many finite credits are finitely many units.
LEMMA UnitsFinite ==
    ASSUME NEW S, IsFiniteSet(S), NEW f, \A x \in S : f[x] \in Nat
    PROVE  IsFiniteSet(Units(f, S))
<1> DEFINE pieces == {UnitsOf(f, x) : x \in S}
           piece  == [x \in S |-> UnitsOf(f, x)]
<1>1. piece \in Surjection(S, pieces)
  BY DEF Surjection
<1>2. IsFiniteSet(pieces)
  BY <1>1, FS_Surjection
<1>3. ASSUME NEW x \in S
      PROVE  IsFiniteSet(UnitsOf(f, x))
  <2>1. f[x] \in Int
    OBVIOUS
  <2>2. IsFiniteSet({x})
    BY FS_Singleton
  <2>3. IsFiniteSet(1..f[x])
    BY <2>1, FS_Interval
  <2> QED
    BY <2>2, <2>3, FS_Product DEF UnitsOf
<1>4. \A T \in pieces : IsFiniteSet(T)
  BY <1>3
<1> HIDE DEF pieces
<1>5. IsFiniteSet(UNION pieces)
  BY <1>2, <1>4, FS_UNION
<1> QED
  BY <1>5 DEF Units, pieces

\* A sum of credits is a natural number.
LEMMA SumOverNat ==
    ASSUME NEW S, IsFiniteSet(S), NEW f, \A x \in S : f[x] \in Nat
    PROVE  SumOver(f, S) \in Nat
BY UnitsFinite, FS_CardinalityType DEF SumOver

\* The sum over no row is 0, as COALESCE makes it.
LEMMA SumOverEmpty ==
    ASSUME NEW f
    PROVE  SumOver(f, {}) = 0
<1>1. Units(f, {}) = {}
  BY DEF Units
<1> QED
  BY <1>1, FS_EmptySet DEF SumOver

\* The sum over one row is that row's credits.
LEMMA SumOverSingleton ==
    ASSUME NEW x, NEW f, f[x] \in Nat
    PROVE  SumOver(f, {x}) = f[x]
<1>1. Units(f, {x}) = {x} \X (1..f[x])
  BY DEF Units, UnitsOf
<1>2. IsFiniteSet({x}) /\ Cardinality({x}) = 1
  BY FS_Singleton
<1>3. f[x] \in Int /\ 1 \in Int
  OBVIOUS
<1>4. IsFiniteSet(1..f[x]) /\ Cardinality(1..f[x]) = f[x]
  BY <1>3, FS_Interval
<1>5. Cardinality({x} \X (1..f[x])) = 1 * f[x]
  <2>1. Cardinality({x} \X (1..f[x])) = Cardinality({x}) * Cardinality(1..f[x])
    BY <1>2, <1>4, FS_Product, Zenon
  <2> QED
    BY <1>2, <1>4, <2>1, Zenon
<1>6. 1 * f[x] = f[x]
  OBVIOUS
<1> QED
  BY <1>1, <1>5, <1>6 DEF SumOver

\* Rows that are split in two groups add up.
LEMMA SumOverDisjoint ==
    ASSUME NEW S, NEW T, IsFiniteSet(S), IsFiniteSet(T), S \cap T = {},
           NEW f, \A x \in S \cup T : f[x] \in Nat
    PROVE  SumOver(f, S \cup T) = SumOver(f, S) + SumOver(f, T)
<1>1. IsFiniteSet(Units(f, S)) /\ IsFiniteSet(Units(f, T))
  BY UnitsFinite
<1>2. Units(f, S \cup T) = Units(f, S) \cup Units(f, T)
  BY DEF Units
<1>3. Units(f, S) \cap Units(f, T) = {}
  BY DEF Units, UnitsOf
<1>4. Cardinality(Units(f, S)) \in Nat /\ Cardinality(Units(f, T)) \in Nat
  BY <1>1, FS_CardinalityType
<1> DEFINE us == Units(f, S)
           ut == Units(f, T)
<1>5. Cardinality(us \cup ut) = Cardinality(us) + Cardinality(ut) - Cardinality(us \cap ut)
  BY <1>1, FS_Union
<1>6. Cardinality(us \cap ut) = 0
  BY <1>3, FS_EmptySet
<1> HIDE DEF us, ut
<1>7. Cardinality(us \cup ut) = Cardinality(us) + Cardinality(ut)
  BY <1>4, <1>5, <1>6 DEF us, ut
<1> QED
  BY <1>2, <1>7 DEF SumOver, us, ut

\* A part of the rows sums to no more than all of them.
LEMMA SumOverMonotone ==
    ASSUME NEW S, NEW T, IsFiniteSet(T), S \subseteq T,
           NEW f, \A x \in T : f[x] \in Nat
    PROVE  SumOver(f, S) <= SumOver(f, T)
<1>1. IsFiniteSet(Units(f, T))
  BY UnitsFinite
<1>2. Units(f, S) \subseteq Units(f, T)
  BY DEF Units
<1> QED
  BY <1>1, <1>2, FS_Subset DEF SumOver

\* Functions that agree on the rows have the same sum.
LEMMA SumOverAgree ==
    ASSUME NEW S, NEW f, NEW g, \A x \in S : f[x] = g[x]
    PROVE  SumOver(f, S) = SumOver(g, S)
<1>1. Units(f, S) = Units(g, S)
  BY DEF Units, UnitsOf
<1> QED
  BY <1>1 DEF SumOver

\* A row weighs no more than the sum it is part of.
LEMMA SumOverMember ==
    ASSUME NEW S, IsFiniteSet(S), NEW f, \A x \in S : f[x] \in Nat, NEW x \in S
    PROVE  f[x] <= SumOver(f, S)
<1>1. SumOver(f, {x}) <= SumOver(f, S)
  BY SumOverMonotone
<1> QED
  BY <1>1, SumOverSingleton

\* Taking one row away takes its credits away.
LEMMA SumOverRemove ==
    ASSUME NEW S, IsFiniteSet(S), NEW f, \A x \in S : f[x] \in Nat, NEW x \in S
    PROVE  SumOver(f, S) = SumOver(f, S \ {x}) + f[x]
<1>1. S = (S \ {x}) \cup {x} /\ (S \ {x}) \cap {x} = {}
  OBVIOUS
<1>2. IsFiniteSet(S \ {x}) /\ IsFiniteSet({x})
  BY FS_RemoveElement, FS_Singleton
<1>3. SumOver(f, (S \ {x}) \cup {x}) = SumOver(f, S \ {x}) + SumOver(f, {x})
  BY <1>1, <1>2, SumOverDisjoint
<1> QED
  BY <1>1, <1>3, SumOverSingleton

\* A new row adds its credits.
LEMMA SumOverAdd ==
    ASSUME NEW S, IsFiniteSet(S), NEW x, x \notin S,
           NEW f, \A y \in S \cup {x} : f[y] \in Nat
    PROVE  SumOver(f, S \cup {x}) = SumOver(f, S) + f[x]
<1>1. S \cap {x} = {} /\ IsFiniteSet({x})
  BY FS_Singleton
<1>2. SumOver(f, S \cup {x}) = SumOver(f, S) + SumOver(f, {x})
  BY <1>1, SumOverDisjoint
<1> QED
  BY <1>2, SumOverSingleton

\* Rows that weigh no more sum to no more.
LEMMA SumOverPointwise ==
    ASSUME NEW S, IsFiniteSet(S), NEW f, NEW g,
           \A x \in S : f[x] \in Nat /\ g[x] \in Nat /\ f[x] <= g[x]
    PROVE  SumOver(f, S) <= SumOver(g, S)
<1>1. IsFiniteSet(Units(g, S))
  BY UnitsFinite
<1>2. ASSUME NEW x \in S
      PROVE  UnitsOf(f, x) \subseteq UnitsOf(g, x)
  <2>1. 1..f[x] \subseteq 1..g[x]
    OBVIOUS
  <2> QED
    BY <2>1 DEF UnitsOf
<1>3. Units(f, S) \subseteq Units(g, S)
  BY <1>2 DEF Units
<1> QED
  BY <1>1, <1>3, FS_Subset DEF SumOver

\* A sum whose rows fall into groups is no more than the sum of any bounds of the groups,
\* as a project's calls are its keys' calls: the units of a group fit below its bound, and
\* these injections together are one of all the units.
LEMMA SumOverGroups ==
    ASSUME NEW S, IsFiniteSet(S), NEW f, \A x \in S : f[x] \in Nat,
           NEW K, IsFiniteSet(K), NEW g, \A k \in K : g[k] \in Nat,
           NEW owner, \A x \in S : owner[x] \in K,
           \A k \in K : SumOver(f, {x \in S : owner[x] = k}) <= g[k]
    PROVE  SumOver(f, S) <= SumOver(g, K)
<1> DEFINE Group(k) == {x \in S : owner[x] = k}
           U(k) == Units(f, Group(k))
           fit == [k \in K |-> CHOOSE h : h \in Injection(U(k), 1..g[k])]
           whole == [u \in Units(f, S) |-> <<owner[u[1]], fit[owner[u[1]]][u]>>]
<1>1. ASSUME NEW k \in K
      PROVE  fit[k] \in Injection(U(k), 1..g[k])
  <2>1. IsFiniteSet(Group(k)) /\ \A x \in Group(k) : f[x] \in Nat
    BY FS_Subset
  <2>2. IsFiniteSet(U(k))
    BY <2>1, UnitsFinite
  <2> DEFINE n == Cardinality(U(k))
  <2>3. n \in Nat /\ n <= g[k] /\ g[k] \in Nat
    BY <2>2, FS_CardinalityType DEF SumOver
  <2>4. ExistsBijection(U(k), 1..n)
    BY <2>2, FS_CardinalityType, Fun_ExistsBijSymmetric
  <2> HIDE DEF n, U
  <2>5. PICK h : h \in Bijection(U(k), 1..n)
    BY <2>4 DEF ExistsBijection
  <2>6. 1..n \subseteq 1..g[k]
    BY <2>3
  <2>7. h \in Injection(U(k), 1..g[k])
    BY <2>5, <2>6 DEF Bijection, Injection, IsInjective
  <2> QED
    BY <2>7
<1>2. ASSUME NEW u \in Units(f, S)
      PROVE  /\ owner[u[1]] \in K
             /\ u \in U(owner[u[1]])
             /\ fit[owner[u[1]]][u] \in 1..g[owner[u[1]]]
  <2>1. PICK x \in S : u \in UnitsOf(f, x)
    BY DEF Units
  <2>2. u[1] = x
    BY <2>1 DEF UnitsOf
  <2>3. owner[x] \in K /\ x \in Group(owner[x])
    BY <2>1
  <2>4. u \in U(owner[x])
    BY <2>1, <2>3 DEF Units
  <2> HIDE DEF U, fit, Group
  <2>5. fit[owner[x]] \in [U(owner[x]) -> 1..g[owner[x]]]
    BY <1>1, <2>3 DEF Injection
  <2> QED
    BY <2>2, <2>3, <2>4, <2>5
<1> HIDE DEF U, fit
<1>3. ASSUME NEW u \in Units(f, S)
      PROVE  whole[u] \in Units(g, K)
  <2>1. whole[u] \in UnitsOf(g, owner[u[1]])
    BY <1>2 DEF UnitsOf
  <2> QED
    BY <1>2, <2>1 DEF Units
<1>4. ASSUME NEW u \in Units(f, S), NEW v \in Units(f, S), whole[u] = whole[v]
      PROVE  u = v
  <2>1. owner[u[1]] = owner[v[1]] /\ fit[owner[u[1]]][u] = fit[owner[v[1]]][v]
    BY <1>4
  <2>2. /\ owner[u[1]] \in K
        /\ u \in U(owner[u[1]]) /\ v \in U(owner[u[1]])
    BY <1>2, <2>1
  <2>3. fit[owner[u[1]]] \in Injection(U(owner[u[1]]), 1..g[owner[u[1]]])
    BY <1>1, <2>2
  <2> QED
    BY <2>1, <2>2, <2>3 DEF Injection, IsInjective
<1>5. whole \in Injection(Units(f, S), Units(g, K))
  BY <1>3, <1>4 DEF Injection, IsInjective
<1>6. IsFiniteSet(Units(g, K))
  BY UnitsFinite
<1> QED
  BY <1>5, <1>6, FS_Injection DEF SumOver

-------------------------------------------------------------------------------
(* The inductive invariant *)

\* A bucket exists only from its month on, which for the project that a quota operation holds
\* since before midnight is still the operation's; a key's only beside its project's, and a
\* call's always; a row that does not exist counts nothing.
OpenBuckets ==
    /\ \A p \in Projects, m \in Months :
        /\ projectBucket[p][m].open => m <= Now(p)
        /\ ~projectBucket[p][m].open => projectBucket[p][m] = NoProjectBucket
    /\ \A k \in Keys, m \in Months :
        /\ keyBucket[k][m].open => projectBucket[ProjectOf[k]][m].open
        /\ ~keyBucket[k][m].open => keyBucket[k][m] = NoKeyBucket
    /\ \A c \in Calls :
        callState[c] # "unused" => keyBucket[KeyOf[c]][callMonth[c]].open

\* What EnsureCurrentBuckets has read and still can write is only stale of the projects in
\* overtaken: whoever else changes a quota opens the bucket first, and the foreign key's lock
\* keeps everyone out once the first statement is done.
FreshSnapshot ==
    /\ ensure.phase # "idle" =>
        /\ ensure.month <= month
        /\ \A p \in Projects :
            (/\ Now(p) <= ensure.month
             /\ ~projectBucket[p][ensure.month].open
             /\ p \notin overtaken) =>
                /\ ensure.quota[p] = projectQuota[p]
                /\ ensure.allocated[p] >= LiveQuota(p)
    /\ ensure.phase = "inserted" =>
        /\ \A p \in Projects : p \in ensure.missing <=> ~projectBucket[p][ensure.month].open
        /\ \A p \in ensure.missing : opMonth[p] = Free
        /\ \A k \in ensure.live :
            (/\ Now(ProjectOf[k]) <= ensure.month
             /\ Live(k)
             /\ ~keyBucket[k][ensure.month].open) => ensure.keyQuota[k] = keyQuota[k]

\* Nobody works in a month to come.
MonthsRead == \A p \in Projects : Now(p) <= month

\* BucketsFollowQuotas and AllocationCovers, of the month in which the next quota operation on
\* the project works: the current one, or the one of an operation that midnight found at work.
WorkedBucketsFollow ==
    /\ \A p \in Projects :
        projectBucket[p][Now(p)].open /\ <<p, Now(p)>> \notin outdated =>
            projectBucket[p][Now(p)].quota = projectQuota[p]
    /\ \A k \in Keys :
        keyBucket[k][Now(ProjectOf[k])].open /\ Live(k) =>
            keyBucket[k][Now(ProjectOf[k])].quota = keyQuota[k]

WorkedBucketsCover ==
    \A p \in Projects :
        projectBucket[p][Now(p)].open /\ <<p, Now(p)>> \notin outdated =>
            projectBucket[p][Now(p)].allocated >= LiveQuota(p) + RevokedCharge(p, Now(p))

LedgerInv ==
    /\ TypeOK
    /\ BucketsMatchCalls
    /\ CubeMatchesCalls
    /\ PendingCallHasActiveKey
    /\ PromptFollowsBilling
    /\ OpenBuckets
    /\ FreshSnapshot
    /\ MonthsRead
    /\ WorkedBucketsFollow
    /\ WorkedBucketsCover
    /\ LiveQuotasFit

-------------------------------------------------------------------------------
(* Sums over calls and keys *)

\* Any set of calls has a number of credits.
LEMMA CallSums ==
    ASSUME NEW S \in SUBSET Calls
    PROVE  IsFiniteSet(S) /\ SumOver(CreditOf, S) \in Nat
<1>1. IsFiniteSet(S)
  BY LedgerAssumption, FS_Subset
<1>2. \A x \in S : CreditOf[x] \in Nat
  BY LedgerAssumption
<1> QED
  BY <1>1, <1>2, SumOverNat

\* So has any set of keys, whatever is summed.
LEMMA KeySums ==
    ASSUME NEW S \in SUBSET Keys, NEW f, \A k \in S : f[k] \in Nat
    PROVE  IsFiniteSet(S) /\ SumOver(f, S) \in Nat
<1>1. IsFiniteSet(S)
  BY LedgerAssumption, FS_Subset
<1> QED
  BY <1>1, SumOverNat

\* The quotas of live keys and the charges of revoked ones are natural numbers.
LEMMA KeySumsNat ==
    ASSUME TypeOK, NEW p \in Projects
    PROVE  /\ LiveQuota(p) \in Nat
           /\ LiveKeys(p) \in SUBSET Keys
           /\ \A m \in Months : RevokedCharge(p, m) \in Nat
<1>1. LiveKeys(p) \in SUBSET Keys /\ \A k \in LiveKeys(p) : keyQuota[k] \in Nat
  BY DEF LiveKeys, TypeOK
<1>2. LiveQuota(p) \in Nat
  BY <1>1, KeySums DEF LiveQuota
<1>3. ASSUME NEW m \in Months
      PROVE  RevokedCharge(p, m) \in Nat
  <2> DEFINE f == [k \in Keys |-> keyBucket[k][m].charged]
             R == {k \in Keys : ProjectOf[k] = p /\ keyStatus[k] = "revoked"}
  <2>1. R \in SUBSET Keys /\ \A k \in R : f[k] \in Nat
    BY DEF TypeOK, KeyBucket
  <2> HIDE DEF f, R
  <2>2. SumOver(f, R) \in Nat
    BY <2>1, KeySums
  <2> QED
    BY <2>2 DEF RevokedCharge, f, R
<1> QED
  BY <1>1, <1>2, <1>3

-------------------------------------------------------------------------------
(* The months of the quota operations *)

\* A quota operation works in a month there is: the current one, unless midnight has found it
\* at work.
LEMMA WorkedMonth ==
    ASSUME TypeOK, NEW p \in Projects
    PROVE  Now(p) \in Months /\ Months \subseteq Nat /\ (opMonth[p] = Free => Now(p) = month)
BY LedgerAssumption DEF Now, TypeOK, Months

\* Its commit frees its project, and touches no other.
LEMMA CommitFrees ==
    ASSUME TypeOK, NEW p \in Projects, Commits(p), UNCHANGED month
    PROVE  /\ opMonth' \in [Projects -> Months \cup {Free}]
           /\ opMonth'[p] = Free /\ Now(p)' = month
           /\ \A x \in Projects : x # p => opMonth'[x] = opMonth[x] /\ Now(x)' = Now(x)
<1>1. opMonth' = [opMonth EXCEPT ![p] = Free] /\ opMonth \in [Projects -> Months \cup {Free}]
  BY DEF Commits, TypeOK
<1> QED
  BY <1>1 DEF Now

\* What it tells an EnsureCurrentBuckets in progress is about its own project.
LEMMA OvertakingTypes ==
    ASSUME TypeOK, NEW p \in Projects, NEW m \in Months, Overtakes(p, m)
    PROVE  /\ overtaken' \subseteq Projects
           /\ outdated' = outdated /\ outdated' \subseteq Projects \X Months
           /\ overtaken \subseteq overtaken'
BY DEF Overtakes, TypeOK

-------------------------------------------------------------------------------
(* What INSERT ... ON CONFLICT DO NOTHING followed by SELECT returns *)

\* The key's row: what is used is what was used, and of the month worked in it holds the
\* current quota.
LEMMA OpenedKey ==
    ASSUME LedgerInv, NEW k \in Keys, NEW m \in Months
    PROVE  LET d == OpenedKeyBucket(k, m)
           IN  /\ d \in KeyBucket
               /\ d.open
               /\ d.charged = keyBucket[k][m].charged
               /\ d.pending = keyBucket[k][m].pending
               /\ m = Now(ProjectOf[k]) /\ Live(k) => d.quota = keyQuota[k]
<1>1. TypeOK /\ OpenBuckets /\ WorkedBucketsFollow
  BY DEF LedgerInv
<1>2. keyBucket[k][m] \in KeyBucket /\ keyQuota[k] \in Nat
  BY <1>1 DEF TypeOK
<1>3. CASE keyBucket[k][m].open
  BY <1>1, <1>2, <1>3 DEF OpenedKeyBucket, WorkedBucketsFollow
<1>4. CASE ~keyBucket[k][m].open
  <2>1. keyBucket[k][m] = NoKeyBucket
    BY <1>1, <1>4 DEF OpenBuckets
  <2> QED
    BY <1>2, <1>4, <2>1 DEF OpenedKeyBucket, KeyBucket, NoKeyBucket
<1> QED
  BY <1>3, <1>4

\* No revoked key has used a month whose project bucket does not exist.
LEMMA ClosedMonthUnused ==
    ASSUME LedgerInv, NEW p \in Projects, NEW m \in Months, ~projectBucket[p][m].open
    PROVE  RevokedCharge(p, m) = 0
<1> DEFINE f == [k \in Keys |-> keyBucket[k][m].charged]
           z == [k \in Keys |-> 0]
           R == {k \in Keys : ProjectOf[k] = p /\ keyStatus[k] = "revoked"}
<1>1. \A k \in R : f[k] = z[k]
  BY DEF LedgerInv, OpenBuckets, NoKeyBucket
<1>2. Units(z, R) = {}
  BY DEF Units, UnitsOf
<1> HIDE DEF f, z, R
<1>3. SumOver(f, R) = SumOver(z, R)
  BY <1>1, SumOverAgree
<1>4. SumOver(z, R) = 0
  BY <1>2, FS_EmptySet DEF SumOver
<1> QED
  BY <1>3, <1>4 DEF RevokedCharge, f, R

\* The project's row, likewise; unless it was outdated when it was made it covers, of the month
\* worked in, what is handed out.
LEMMA OpenedProject ==
    ASSUME LedgerInv, NEW p \in Projects, NEW m \in Months
    PROVE  LET b == OpenedProjectBucket(p, m)
           IN  /\ b \in ProjectBucket
               /\ b.open
               /\ b.charged = projectBucket[p][m].charged
               /\ b.pending = projectBucket[p][m].pending
               /\ m = Now(p) /\ <<p, m>> \notin outdated =>
                        /\ b.quota = projectQuota[p]
                        /\ b.allocated >= LiveQuota(p) + RevokedCharge(p, m)
<1>1. TypeOK /\ OpenBuckets /\ WorkedBucketsFollow /\ WorkedBucketsCover
  BY DEF LedgerInv
<1>2. LiveQuota(p) \in Nat /\ RevokedCharge(p, m) \in Nat
  BY <1>1, KeySumsNat
<1>3. CASE projectBucket[p][m].open
  BY <1>1, <1>3 DEF OpenedProjectBucket, TypeOK, ProjectBucket, WorkedBucketsFollow,
                    WorkedBucketsCover
<1>4. CASE ~projectBucket[p][m].open
  <2>1. projectBucket[p][m] = NoProjectBucket
    BY <1>1, <1>4 DEF OpenBuckets
  <2>2. RevokedCharge(p, m) = 0
    BY <1>4, ClosedMonthUnused
  <2> QED
    BY <1>1, <1>2, <1>4, <2>1, <2>2 DEF OpenedProjectBucket, TypeOK, ProjectBucket,
                                        NoProjectBucket
<1> QED
  BY <1>3, <1>4

-------------------------------------------------------------------------------
(* Types *)

\* The rows Reserve and the quota operations write are rows.
LEMMA RowTypes ==
    ASSUME NEW b \in ProjectBucket, NEW d \in KeyBucket, NEW n \in Nat
    PROVE  /\ Held(b, n) \in ProjectBucket /\ Held(d, n) \in KeyBucket
           /\ b.pending >= n => Moved(b, n) \in ProjectBucket /\ Released(b, n) \in ProjectBucket
           /\ d.pending >= n => Moved(d, n) \in KeyBucket /\ Released(d, n) \in KeyBucket
           /\ \A success \in BOOLEAN : /\ Settled(b, n, success) \in ProjectBucket
                                       /\ Settled(d, n, success) \in KeyBucket
<1>1. Held(b, n) \in ProjectBucket /\ Held(d, n) \in KeyBucket
  BY DEF Held, ProjectBucket, KeyBucket
<1>2. ASSUME b.pending >= n
      PROVE  Moved(b, n) \in ProjectBucket /\ Released(b, n) \in ProjectBucket
  <2>1. b.pending - n \in Nat /\ b.charged + n \in Nat
    BY <1>2 DEF ProjectBucket
  <2> QED
    BY <2>1 DEF Moved, Released, ProjectBucket
<1>3. ASSUME d.pending >= n
      PROVE  Moved(d, n) \in KeyBucket /\ Released(d, n) \in KeyBucket
  <2>1. d.pending - n \in Nat /\ d.charged + n \in Nat
    BY <1>3 DEF KeyBucket
  <2> QED
    BY <2>1 DEF Moved, Released, KeyBucket
<1>4. b.pending \in Nat /\ d.pending \in Nat
  BY DEF ProjectBucket, KeyBucket
<1>5. ASSUME NEW success \in BOOLEAN
      PROVE  Settled(b, n, success) \in ProjectBucket /\ Settled(d, n, success) \in KeyBucket
  BY <1>2, <1>3, <1>4 DEF Settled
<1> QED
  BY <1>1, <1>2, <1>3, <1>5

\* Counting calls keeps a cube row a cube row.
LEMMA CountedType ==
    ASSUME NEW row \in CubeRow, NEW S \in SUBSET Calls
    PROVE  Counted(row, S) \in CubeRow
<1> DEFINE paid == {c \in S : CreditOf[c] > 0}
           free == {c \in S : CreditOf[c] = 0}
<1>1. SumOver(CreditOf, S) \in Nat
  BY CallSums
<1>2. paid \in SUBSET Calls /\ free \in SUBSET Calls
  OBVIOUS
<1> HIDE DEF paid, free
<1>3. Cardinality(paid) \in Nat /\ Cardinality(free) \in Nat
  BY <1>2, CallSums, FS_CardinalityType
<1> QED
  BY <1>1, <1>3 DEF Counted, CubeRow, paid, free

\* The transaction that settles a call keeps every table well typed.
LEMMA FinalizeType ==
    ASSUME LedgerInv, NEW c \in Calls, NEW success \in BOOLEAN, Finalize(c, success)
    PROVE  /\ projectBucket' \in [Projects -> [Months -> ProjectBucket]]
           /\ keyBucket' \in [Keys -> [Months -> KeyBucket]]
           /\ cube' \in [Keys -> [Months -> CubeRow]]
           /\ callState' \in [Calls -> {"unused", "pending", "charged", "failed"}]
           /\ callMonth' \in [Calls -> Months]
           /\ lease' \in [Calls -> {"none", "live", "expired"}]
           /\ input' \in [Calls -> {"none", "hidden", "visible"}]
<1> DEFINE k == KeyOf[c]
           p == ProjectOf[k]
           m == callMonth[c]
<1>1. TypeOK
  BY DEF LedgerInv
<1>2. k \in Keys /\ p \in Projects /\ m \in Months /\ CreditOf[c] \in Nat
  BY <1>1, LedgerAssumption DEF TypeOK
<1>3. projectBucket[p][m] \in ProjectBucket /\ keyBucket[k][m] \in KeyBucket
      /\ cube[k][m] \in CubeRow
  BY <1>1, <1>2 DEF TypeOK
<1>4. /\ Settled(projectBucket[p][m], CreditOf[c], success) \in ProjectBucket
      /\ Settled(keyBucket[k][m], CreditOf[c], success) \in KeyBucket
  BY <1>2, <1>3, RowTypes
<1>5. Counted(cube[k][m], {c}) \in CubeRow
  BY <1>3, CountedType
<1>6. CASE callState[c] # "pending"
  BY <1>1, <1>6 DEF Finalize, TypeOK, bookVars
<1>7. CASE callState[c] = "pending"
  <2>1. /\ projectBucket' = [projectBucket EXCEPT ![p][m] =
                                Settled(projectBucket[p][m], CreditOf[c], success)]
        /\ keyBucket' = [keyBucket EXCEPT ![k][m] =
                            Settled(keyBucket[k][m], CreditOf[c], success)]
        /\ cube' = [cube EXCEPT ![k][m] = IF success THEN Counted(cube[k][m], {c})
                                          ELSE cube[k][m]]
    BY <1>1, <1>2, <1>7 DEF Finalize, TypeOK
  <2>2. projectBucket' \in [Projects -> [Months -> ProjectBucket]]
    BY <1>1, <1>2, <1>4, <2>1 DEF TypeOK
  <2>3. keyBucket' \in [Keys -> [Months -> KeyBucket]]
    BY <1>1, <1>2, <1>4, <2>1 DEF TypeOK
  <2>4. cube' \in [Keys -> [Months -> CubeRow]]
    BY <1>1, <1>2, <1>3, <1>5, <2>1 DEF TypeOK
  <2>5. /\ callState' = [callState EXCEPT ![c] = IF success THEN "charged" ELSE "failed"]
        /\ callMonth' = callMonth
        /\ lease' = [lease EXCEPT ![c] = "none"]
        /\ input' = [input EXCEPT ![c] = IF success /\ input[c] # "none"
                                         THEN "visible" ELSE "none"]
    BY <1>1, <1>7 DEF Finalize, TypeOK
  <2>6. /\ callState' \in [Calls -> {"unused", "pending", "charged", "failed"}]
        /\ callMonth' \in [Calls -> Months]
    BY <1>1, <2>5 DEF TypeOK
  <2>7. lease' \in [Calls -> {"none", "live", "expired"}]
    BY <1>1, <2>5 DEF TypeOK
  <2>8. input' \in [Calls -> {"none", "hidden", "visible"}]
    BY <1>1, <2>5 DEF TypeOK
  <2> QED
    BY <2>2, <2>3, <2>4, <2>6, <2>7, <2>8
<1> QED
  BY <1>6, <1>7

\* A revocation moves what is pending, never more, and gives back no more than the key has.
LEMMA RevokeKeyType ==
    ASSUME LedgerInv, NEW k \in Keys, NEW m \in Months, RevokeKey(k, m)
    PROVE  TypeOK'
<1> DEFINE p           == ProjectOf[k]
           Swept(x)    == {c \in PendingOf(k) : callMonth[c] = x}
           Credit(x)   == SumOver(CreditOf, Swept(x))
           settled     == [x \in Months |-> Moved(keyBucket[k][x], Credit(x))]
           mine        == settled[m]
           Freed(b, x) == IF x = m /\ mine.open
                          THEN [b EXCEPT !.allocated = Larger(@ + mine.charged, mine.quota)
                                                       - mine.quota]
                          ELSE b
<1>1. TypeOK /\ BucketsMatchCalls
  BY DEF LedgerInv
<1>2. p \in Projects
  BY LedgerAssumption
<1>3. ASSUME NEW x \in Months
      PROVE  /\ Credit(x) \in Nat
             /\ keyBucket[k][x].pending = Credit(x)
             /\ projectBucket[p][x].pending >= Credit(x)
  <2>1. Swept(x) = KeyCalls(k, x, {"pending"})
    BY DEF PendingOf, KeyCalls
  <2>2. KeyCalls(k, x, {"pending"}) \subseteq ProjectCalls(p, x, {"pending"})
    BY DEF KeyCalls, ProjectCalls
  <2>3. ProjectCalls(p, x, {"pending"}) \in SUBSET Calls
    BY DEF ProjectCalls
  <2>4. SumOver(CreditOf, KeyCalls(k, x, {"pending"}))
            <= SumOver(CreditOf, ProjectCalls(p, x, {"pending"}))
    BY <2>2, <2>3, CallSums, SumOverMonotone, LedgerAssumption
  <2>5. Swept(x) \in SUBSET Calls
    BY DEF PendingOf
  <2>6. Credit(x) \in Nat
    BY <2>5, CallSums
  <2> QED
    BY <1>1, <1>2, <2>1, <2>4, <2>6 DEF BucketsMatchCalls
<1>4. ASSUME NEW x \in Months
      PROVE  /\ Moved(keyBucket[k][x], Credit(x)) \in KeyBucket
             /\ Moved(projectBucket[p][x], Credit(x)) \in ProjectBucket
             /\ Counted(cube[k][x], Swept(x)) \in CubeRow
  <2>1. /\ keyBucket[k][x] \in KeyBucket /\ projectBucket[p][x] \in ProjectBucket
        /\ cube[k][x] \in CubeRow
    BY <1>1, <1>2 DEF TypeOK
  <2>2. Swept(x) \in SUBSET Calls
    BY DEF PendingOf
  <2>3. keyBucket[k][x].pending >= Credit(x) /\ projectBucket[p][x].pending >= Credit(x)
    BY <1>3, <2>1 DEF KeyBucket
  <2>4. Credit(x) \in Nat
    BY <1>3
  <2> HIDE DEF Credit, Swept
  <2> QED
    BY <2>1, <2>2, <2>3, <2>4, RowTypes, CountedType
<1> HIDE DEF Credit, Swept
<1>5. settled \in [Months -> KeyBucket]
  BY <1>4
<1>6. mine \in KeyBucket
  BY <1>5
<1> HIDE DEF settled, mine
<1>7. ASSUME NEW x \in Months
      PROVE  Freed(Moved(projectBucket[p][x], Credit(x)), x) \in ProjectBucket
  BY <1>4, <1>6 DEF ProjectBucket, KeyBucket, Larger
<1> HIDE DEF Freed
<1>8. /\ keyBucket' = [keyBucket EXCEPT ![k] = settled]
      /\ projectBucket' = [projectBucket EXCEPT ![p] =
                [x \in Months |-> Freed(Moved(projectBucket[p][x], Credit(x)), x)]]
      /\ cube' = [cube EXCEPT ![k] = [x \in Months |-> Counted(cube[k][x], Swept(x))]]
  BY DEF RevokeKey, settled, Freed, mine, Credit, Swept
<1>9. keyBucket' \in [Keys -> [Months -> KeyBucket]]
  BY <1>1, <1>5, <1>8 DEF TypeOK
<1>10. projectBucket' \in [Projects -> [Months -> ProjectBucket]]
  BY <1>1, <1>7, <1>8 DEF TypeOK
<1>11. cube' \in [Keys -> [Months -> CubeRow]]
  BY <1>1, <1>4, <1>8 DEF TypeOK
<1>12. /\ keyStatus' = [keyStatus EXCEPT ![k] = "revoked"]
       /\ callState' = [c \in Calls |-> IF c \in PendingOf(k) THEN "charged" ELSE callState[c]]
       /\ lease' = [c \in Calls |-> IF c \in PendingOf(k) THEN "none" ELSE lease[c]]
       /\ input' = [c \in Calls |-> IF c \in PendingOf(k) /\ input[c] # "none"
                                    THEN "visible" ELSE input[c]]
       /\ Commits(p)
       /\ UNCHANGED <<month, keyQuota, projectQuota, callMonth, worker, responses, recovering,
                      ensure, overtaken, outdated>>
  BY DEF RevokeKey
<1>13. opMonth' \in [Projects -> Months \cup {Free}]
  BY <1>1, <1>2, <1>12, CommitFrees
<1> QED
  BY <1>1, <1>9, <1>10, <1>11, <1>12, <1>13 DEF TypeOK, EnsureStates, NoEnsure

\* A live key's quota is part of what its project hands out.
LEMMA QuotaIsLive ==
    ASSUME TypeOK, NEW k \in Keys, Live(k)
    PROVE  keyQuota[k] <= LiveQuota(ProjectOf[k])
<1> DEFINE p == ProjectOf[k]
<1>1. p \in Projects /\ k \in LiveKeys(p)
  BY LedgerAssumption DEF LiveKeys
<1>2. LiveKeys(p) \in SUBSET Keys /\ \A x \in LiveKeys(p) : keyQuota[x] \in Nat
  BY DEF LiveKeys, TypeOK
<1>3. IsFiniteSet(LiveKeys(p))
  BY <1>2, KeySums
<1> QED
  BY <1>1, <1>2, <1>3, SumOverMember DEF LiveQuota

\* The quota operations keep every table well typed.
LEMMA ApproveKeyType ==
    ASSUME LedgerInv, NEW k \in Keys, NEW q \in Quotas, NEW m \in Months, ApproveKey(k, q, m)
    PROVE  TypeOK'
<1> DEFINE p == ProjectOf[k]
           b == OpenedProjectBucket(p, m)
<1>1. TypeOK
  BY DEF LedgerInv
<1>2. p \in Projects /\ q \in Nat
  BY LedgerAssumption
<1>3. b \in ProjectBucket
  BY <1>2, OpenedProject
<1>4. [b EXCEPT !.allocated = @ + q] \in ProjectBucket
  BY <1>2, <1>3 DEF ProjectBucket
<1>5. /\ projectBucket' = [projectBucket EXCEPT ![p][m] = [b EXCEPT !.allocated = @ + q]]
      /\ keyStatus' = [keyStatus EXCEPT ![k] = "approved"]
      /\ keyQuota' = [keyQuota EXCEPT ![k] = q]
      /\ keyBucket' = [keyBucket EXCEPT ![k][m] =
                          [keyBucket[k][m] EXCEPT !.open = TRUE, !.quota = q]]
      /\ Commits(p) /\ Overtakes(p, m)
      /\ UNCHANGED <<month, projectQuota, cube, callVars, worker, responses, recovering, ensure>>
  BY <1>1, <1>2 DEF ApproveKey, TypeOK
<1> HIDE DEF b
<1>6. projectBucket' \in [Projects -> [Months -> ProjectBucket]]
  BY <1>1, <1>2, <1>4, <1>5 DEF TypeOK
<1>7. [keyBucket[k][m] EXCEPT !.open = TRUE, !.quota = q] \in KeyBucket
  <2>1. keyBucket[k][m] \in KeyBucket
    BY <1>1 DEF TypeOK
  <2> QED
    BY <1>2, <2>1 DEF KeyBucket
<1>8. keyBucket' \in [Keys -> [Months -> KeyBucket]]
  BY <1>1, <1>5, <1>7 DEF TypeOK
<1>9. /\ opMonth' \in [Projects -> Months \cup {Free}]
      /\ overtaken' \subseteq Projects /\ outdated' \subseteq Projects \X Months
  BY <1>1, <1>2, <1>5, CommitFrees, OvertakingTypes
<1> QED
  BY <1>1, <1>2, <1>5, <1>6, <1>8, <1>9 DEF TypeOK, callVars, EnsureStates

\* A new quota of a key, and the buckets it may create.
LEMMA UpdateKeyQuotaType ==
    ASSUME LedgerInv, NEW k \in Keys, NEW q \in Quotas, NEW m \in Months,
           UpdateKeyQuota(k, q, m)
    PROVE  TypeOK'
<1> DEFINE p == ProjectOf[k]
           b == OpenedProjectBucket(p, m)
           d == OpenedKeyBucket(k, m)
<1>1. TypeOK
  BY DEF LedgerInv
<1>2. p \in Projects /\ q \in Nat /\ keyQuota[k] \in Nat
  BY <1>1, LedgerAssumption DEF TypeOK
<1>3. /\ b \in ProjectBucket /\ d \in KeyBucket
      /\ b.allocated + q >= keyQuota[k]
  BY <1>2, OpenedProject, OpenedKey DEF UpdateKeyQuota
<1>4. b.allocated \in Nat
  BY <1>3 DEF ProjectBucket
<1>5. (b.allocated + q) - keyQuota[k] \in Nat
  BY <1>2, <1>3, <1>4
<1>6. [b EXCEPT !.allocated = (@ + q) - keyQuota[k]] \in ProjectBucket
  BY <1>3, <1>5 DEF ProjectBucket
<1>7. [d EXCEPT !.quota = q] \in KeyBucket
  BY <1>2, <1>3 DEF KeyBucket
<1>8. /\ projectBucket' = [projectBucket EXCEPT ![p][m] =
                                [b EXCEPT !.allocated = (@ + q) - keyQuota[k]]]
      /\ keyQuota' = [keyQuota EXCEPT ![k] = q]
      /\ keyBucket' = [keyBucket EXCEPT ![k][m] = [d EXCEPT !.quota = q]]
      /\ Commits(p) /\ Overtakes(p, m)
      /\ UNCHANGED <<month, keyStatus, projectQuota, cube, callVars, worker, responses,
                     recovering, ensure>>
  BY DEF UpdateKeyQuota
<1> HIDE DEF b, d
<1>9. projectBucket' \in [Projects -> [Months -> ProjectBucket]]
  BY <1>1, <1>2, <1>6, <1>8 DEF TypeOK
<1>10. keyBucket' \in [Keys -> [Months -> KeyBucket]]
  BY <1>1, <1>7, <1>8 DEF TypeOK
<1>11. /\ opMonth' \in [Projects -> Months \cup {Free}]
       /\ overtaken' \subseteq Projects /\ outdated' \subseteq Projects \X Months
  BY <1>1, <1>2, <1>8, CommitFrees, OvertakingTypes
<1> QED
  BY <1>1, <1>2, <1>8, <1>9, <1>10, <1>11 DEF TypeOK, callVars, EnsureStates

\* A new quota of a project.
LEMMA UpdateProjectQuotaType ==
    ASSUME LedgerInv, NEW p \in Projects, NEW q \in Quotas, NEW m \in Months,
           UpdateProjectQuota(p, q, m)
    PROVE  TypeOK'
<1>1. TypeOK
  BY DEF LedgerInv
<1>2. q \in Nat
  BY LedgerAssumption
<1>3. OpenedProjectBucket(p, m) \in ProjectBucket
  BY OpenedProject
<1>4. [OpenedProjectBucket(p, m) EXCEPT !.quota = q] \in ProjectBucket
  BY <1>2, <1>3 DEF ProjectBucket
<1>5. /\ projectQuota' = [projectQuota EXCEPT ![p] = q]
      /\ projectBucket' = [projectBucket EXCEPT ![p][m] =
                              [OpenedProjectBucket(p, m) EXCEPT !.quota = q]]
      /\ Commits(p) /\ Overtakes(p, m)
      /\ UNCHANGED <<month, keyStatus, keyQuota, keyBucket, cube, callVars, worker, responses,
                     recovering, ensure>>
  BY DEF UpdateProjectQuota
<1>6. projectBucket' \in [Projects -> [Months -> ProjectBucket]]
  BY <1>1, <1>4, <1>5 DEF TypeOK
<1>7. /\ opMonth' \in [Projects -> Months \cup {Free}]
      /\ overtaken' \subseteq Projects /\ outdated' \subseteq Projects \X Months
  BY <1>1, <1>5, CommitFrees, OvertakingTypes
<1> QED
  BY <1>1, <1>2, <1>5, <1>6, <1>7 DEF TypeOK, callVars, EnsureStates

\* A reservation, and the buckets and the input it may create.
LEMMA ReserveType ==
    ASSUME LedgerInv, NEW c \in Calls, NEW m \in Months, Reserve(c, m)
    PROVE  TypeOK'
<1> DEFINE k == KeyOf[c]
           p == ProjectOf[k]
           b == OpenedProjectBucket(p, m)
           d == OpenedKeyBucket(k, m)
<1>1. TypeOK
  BY DEF LedgerInv
<1>2. k \in Keys /\ p \in Projects /\ CreditOf[c] \in Nat
  BY LedgerAssumption
<1>3. b \in ProjectBucket /\ d \in KeyBucket
  BY <1>2, OpenedProject, OpenedKey
<1>4. Held(b, CreditOf[c]) \in ProjectBucket /\ Held(d, CreditOf[c]) \in KeyBucket
  BY <1>2, <1>3, RowTypes
<1>5. /\ projectBucket' = [projectBucket EXCEPT ![p][m] = Held(b, CreditOf[c])]
      /\ keyBucket' = [keyBucket EXCEPT ![k][m] = Held(d, CreditOf[c])]
      /\ callState' = [callState EXCEPT ![c] = "pending"]
      /\ callMonth' = [callMonth EXCEPT ![c] = m]
      /\ lease' = [lease EXCEPT ![c] = "live"]
      /\ input' = [input EXCEPT ![c] = IF c \in Prompted THEN "hidden" ELSE "none"]
      /\ worker' = [worker EXCEPT ![c] = "running"]
      /\ UNCHANGED <<month, cube, quotaVars, responses, recovering, ensure, opVars>>
  BY DEF Reserve
<1> HIDE DEF b, d
<1>6. projectBucket' \in [Projects -> [Months -> ProjectBucket]]
  BY <1>1, <1>2, <1>4, <1>5 DEF TypeOK
<1>7. keyBucket' \in [Keys -> [Months -> KeyBucket]]
  BY <1>1, <1>2, <1>4, <1>5 DEF TypeOK
<1> QED
  BY <1>1, <1>5, <1>6, <1>7 DEF TypeOK, quotaVars, opVars, EnsureStates

\* The three steps of EnsureCurrentBuckets read and write well-typed rows.
LEMMA EnsureType ==
    ASSUME LedgerInv, NEW n \in Months,
           EnsureScan(n) \/ EnsureInsert \/ EnsureCommit \/ EnsureRollback
    PROVE  TypeOK'
<1>1. TypeOK
  BY DEF LedgerInv
<1>2. CASE EnsureScan(n)
  <2>1. [p \in Projects |-> LiveQuota(p)] \in [Projects -> Nat]
    BY <1>1, KeySumsNat
  <2>2. ensure' \in EnsureStates
    BY <1>1, <1>2, <2>1 DEF EnsureScan, EnsureStates, TypeOK
  <2> QED
    BY <1>1, <1>2, <2>2 DEF EnsureScan, TypeOK, callVars, bookVars, quotaVars
<1>3. CASE EnsureInsert
  <2>1. /\ ensure.month \in Months /\ ensure.quota \in [Projects -> Nat]
        /\ ensure.allocated \in [Projects -> Nat]
    BY <1>1, <1>3 DEF EnsureInsert, TypeOK, EnsureStates, NoEnsure
  <2>2. ensure' \in EnsureStates
    BY <1>1, <1>3, <2>1 DEF EnsureInsert, EnsureStates, TypeOK
  <2> QED
    BY <1>1, <1>3, <2>2 DEF EnsureInsert, TypeOK, callVars, bookVars, quotaVars, opVars
<1>4. CASE EnsureCommit
  <2>1. /\ ensure.month \in Months /\ ensure.quota \in [Projects -> Nat]
        /\ ensure.allocated \in [Projects -> Nat] /\ ensure.keyQuota \in [Keys -> Nat]
    BY <1>1, <1>4 DEF EnsureCommit, TypeOK, EnsureStates, NoEnsure
  <2>2. projectBucket' \in [Projects -> [Months -> ProjectBucket]]
    BY <1>1, <1>4, <2>1 DEF EnsureCommit, TypeOK, ProjectBucket
  <2>3. keyBucket' \in [Keys -> [Months -> KeyBucket]]
    BY <1>1, <1>4, <2>1 DEF EnsureCommit, TypeOK, KeyBucket
  <2>4. ensure' \in EnsureStates
    BY <1>4 DEF EnsureCommit, EnsureStates
  <2>5. overtaken' \subseteq Projects /\ outdated' \subseteq Projects \X Months
    BY <1>1, <1>4, <2>1 DEF EnsureCommit, TypeOK
  <2> QED
    BY <1>1, <1>4, <2>2, <2>3, <2>4, <2>5 DEF EnsureCommit, TypeOK, callVars, quotaVars
<1>5. CASE EnsureRollback
  BY <1>1, <1>5 DEF EnsureRollback, TypeOK, EnsureStates, callVars, bookVars, quotaVars
<1> QED
  BY <1>2, <1>3, <1>4, <1>5

\* Every step keeps every column in its domain; no counter goes below zero.
LEMMA TypeStep ==
    ASSUME LedgerInv, [Next]_vars
    PROVE  TypeOK'
<1> USE DEF LedgerInv
<1>1. CASE UNCHANGED vars
  BY <1>1 DEF vars, callVars, bookVars, quotaVars, runVars, opVars, TypeOK
<1>2. CASE \/ \E S \in SUBSET Projects : NextMonth(S)
          \/ \E p \in Projects : RollBack(p)
  <2>1. ASSUME NEW S \in SUBSET Projects, NextMonth(S)
        PROVE  TypeOK'
    <3>1. month' \in Months
      BY <2>1, LedgerAssumption DEF NextMonth, TypeOK, Months
    <3>2. opMonth' \in [Projects -> Months \cup {Free}]
      BY <2>1 DEF NextMonth, TypeOK
    <3> QED
      BY <2>1, <3>1, <3>2 DEF NextMonth, TypeOK, callVars, bookVars, quotaVars
  <2>2. ASSUME NEW p \in Projects, RollBack(p)
        PROVE  TypeOK'
    <3>1. opMonth' \in [Projects -> Months \cup {Free}]
      BY <2>2, CommitFrees DEF RollBack
    <3> QED
      BY <2>2, <3>1 DEF RollBack, TypeOK, callVars, bookVars, quotaVars
  <2> QED
    BY <1>2, <2>1, <2>2
<1>3. ASSUME NEW k \in Keys, ClaimKey(k)
      PROVE  TypeOK'
  BY <1>3 DEF ClaimKey, TypeOK, bookVars, callVars, runVars, opVars
<1>4. ASSUME NEW c \in Calls, LeaseRunsOut(c) \/ MarkSent(c) \/ WorkerLost(c)
      PROVE  TypeOK'
  <2>1. CASE LeaseRunsOut(c)
    BY <2>1 DEF LeaseRunsOut, TypeOK, bookVars, quotaVars, runVars, opVars
  <2>2. CASE MarkSent(c)
    <3>1. responses' \in [Calls -> 0..MaxResponses]
      BY <2>2, LedgerAssumption DEF MarkSent, TypeOK
    <3>2. lease' \in [Calls -> {"none", "live", "expired"}]
      BY <2>2 DEF MarkSent, TypeOK
    <3> QED
      BY <2>2, <3>1, <3>2 DEF MarkSent, TypeOK, bookVars, quotaVars, opVars
  <2>3. CASE WorkerLost(c)
    BY <2>3 DEF WorkerLost, TypeOK, callVars, bookVars, quotaVars, opVars
  <2> QED
    BY <1>4, <2>1, <2>2, <2>3
<1>5. ASSUME NEW c \in Calls, RecoverCall(c) \/ \E success \in BOOLEAN : WorkerFinalize(c, success)
      PROVE  TypeOK'
  <2>1. CASE RecoverCall(c)
    <3>1. Finalize(c, TRUE) /\ UNCHANGED <<month, quotaVars, worker, responses, ensure, opVars>>
          /\ recovering' = recovering \ {c}
      BY <2>1 DEF RecoverCall
    <3> QED
      BY <3>1, FinalizeType DEF TypeOK, quotaVars, opVars
  <2>2. ASSUME NEW success \in BOOLEAN, WorkerFinalize(c, success)
        PROVE  TypeOK'
    <3>1. /\ Finalize(c, success)
          /\ UNCHANGED <<month, quotaVars, responses, recovering, ensure, opVars>>
          /\ worker' = [worker EXCEPT ![c] = "gone"]
      BY <2>2 DEF WorkerFinalize
    <3> QED
      BY <3>1, FinalizeType DEF TypeOK, quotaVars, opVars
  <2> QED
    BY <1>5, <2>1, <2>2
<1>6. ASSUME RecoverAbort \/ \E S \in SUBSET Calls : RecoverScan(S)
      PROVE  TypeOK'
  BY <1>6 DEF RecoverAbort, RecoverScan, TypeOK, callVars, bookVars, quotaVars, opVars
<1>7. ASSUME EnsureInsert \/ EnsureCommit \/ EnsureRollback
      PROVE  TypeOK'
  <2>1. month \in Months
    BY DEF TypeOK
  <2> QED
    BY <1>7, <2>1, EnsureType
<1> QED
  BY <1>1, <1>2, <1>3, <1>4, <1>5, <1>6, <1>7, ApproveKeyType, UpdateKeyQuotaType,
     RevokeKeyType, UpdateProjectQuotaType, ReserveType, EnsureType DEF Next

-------------------------------------------------------------------------------
(* The books: buckets and cube against the calls *)

\* Adding a call to a set of calls, or taking one away.
LEMMA OneCall ==
    ASSUME NEW S \in SUBSET Calls, NEW c \in Calls
    PROVE  /\ c \in S => SumOver(CreditOf, S) = SumOver(CreditOf, S \ {c}) + CreditOf[c]
           /\ c \notin S => SumOver(CreditOf, S \cup {c}) = SumOver(CreditOf, S) + CreditOf[c]
<1>1. IsFiniteSet(S)
  BY CallSums
<1>2. \A x \in S \cup {c} : CreditOf[x] \in Nat
  BY LedgerAssumption
<1>3. ASSUME c \in S
      PROVE  SumOver(CreditOf, S) = SumOver(CreditOf, S \ {c}) + CreditOf[c]
  BY <1>1, <1>2, <1>3, SumOverRemove
<1>4. ASSUME c \notin S
      PROVE  SumOver(CreditOf, S \cup {c}) = SumOver(CreditOf, S) + CreditOf[c]
  BY <1>1, <1>2, <1>4, SumOverAdd
<1> QED
  BY <1>3, <1>4

\* A step that changes quotas or opens buckets keeps the counters.
LEMMA CountersKept ==
    ASSUME BucketsMatchCalls, UNCHANGED <<callState, callMonth>>,
           \A k \in Keys, m \in Months :
                /\ keyBucket'[k][m].pending = keyBucket[k][m].pending
                /\ keyBucket'[k][m].charged = keyBucket[k][m].charged,
           \A p \in Projects, m \in Months :
                /\ projectBucket'[p][m].pending = projectBucket[p][m].pending
                /\ projectBucket'[p][m].charged = projectBucket[p][m].charged
    PROVE  BucketsMatchCalls'
<1>1. \A k, m, states : KeyCalls(k, m, states)' = KeyCalls(k, m, states)
  BY DEF KeyCalls
<1>2. \A p, m, states : ProjectCalls(p, m, states)' = ProjectCalls(p, m, states)
  BY DEF ProjectCalls
<1> QED
  BY <1>1, <1>2 DEF BucketsMatchCalls

\* A reservation adds its call to what is pending of its key, its project and its month.
LEMMA ReserveBooks ==
    ASSUME LedgerInv, NEW c \in Calls, NEW m \in Months, Reserve(c, m)
    PROVE  BucketsMatchCalls'
<1> DEFINE k == KeyOf[c]
           p == ProjectOf[k]
           b == OpenedProjectBucket(p, m)
           d == OpenedKeyBucket(k, m)
<1>1. TypeOK /\ BucketsMatchCalls
  BY DEF LedgerInv
<1>2. k \in Keys /\ p \in Projects /\ CreditOf[c] \in Nat
  BY LedgerAssumption
<1>3. /\ b \in ProjectBucket /\ d \in KeyBucket
      /\ b.pending = projectBucket[p][m].pending /\ b.charged = projectBucket[p][m].charged
      /\ d.pending = keyBucket[k][m].pending /\ d.charged = keyBucket[k][m].charged
  BY <1>2, OpenedProject, OpenedKey
<1>4. /\ Held(b, CreditOf[c]).pending = projectBucket[p][m].pending + CreditOf[c]
      /\ Held(b, CreditOf[c]).charged = projectBucket[p][m].charged
      /\ Held(d, CreditOf[c]).pending = keyBucket[k][m].pending + CreditOf[c]
      /\ Held(d, CreditOf[c]).charged = keyBucket[k][m].charged
  BY <1>3 DEF Held, ProjectBucket, KeyBucket
<1>5. /\ projectBucket' = [projectBucket EXCEPT ![p][m] = Held(b, CreditOf[c])]
      /\ keyBucket' = [keyBucket EXCEPT ![k][m] = Held(d, CreditOf[c])]
      /\ callState[c] = "unused"
      /\ callState' = [callState EXCEPT ![c] = "pending"]
      /\ callMonth' = [callMonth EXCEPT ![c] = m]
  BY DEF Reserve
<1> HIDE DEF b, d
<1>6. ASSUME NEW k1 \in Keys, NEW m1 \in Months
      PROVE  /\ keyBucket'[k1][m1].pending = SumOver(CreditOf, KeyCalls(k1, m1, {"pending"})')
             /\ keyBucket'[k1][m1].charged = SumOver(CreditOf, KeyCalls(k1, m1, {"charged"})')
  <2> DEFINE S == KeyCalls(k1, m1, {"pending"})
  <2>1. KeyCalls(k1, m1, {"charged"})' = KeyCalls(k1, m1, {"charged"})
    BY <1>1, <1>5 DEF KeyCalls, TypeOK
  <2>2. S \in SUBSET Calls /\ c \notin S
    BY <1>5 DEF KeyCalls
  <2>3. S' = IF k1 = k /\ m1 = m THEN S \cup {c} ELSE S
    BY <1>1, <1>5 DEF KeyCalls, TypeOK
  <2>4. SumOver(CreditOf, S \cup {c}) = SumOver(CreditOf, S) + CreditOf[c]
    BY <2>2, OneCall
  <2>5. keyBucket[k1][m1].pending = SumOver(CreditOf, S)
        /\ keyBucket[k1][m1].charged = SumOver(CreditOf, KeyCalls(k1, m1, {"charged"}))
    BY <1>1 DEF BucketsMatchCalls
  <2>6. keyBucket'[k1][m1] = IF k1 = k /\ m1 = m THEN Held(d, CreditOf[c])
                             ELSE keyBucket[k1][m1]
    BY <1>1, <1>5 DEF TypeOK
  <2> HIDE DEF S
  <2> QED
    BY <1>4, <2>1, <2>3, <2>4, <2>5, <2>6 DEF S
<1>7. ASSUME NEW p1 \in Projects, NEW m1 \in Months
      PROVE  /\ projectBucket'[p1][m1].pending =
                    SumOver(CreditOf, ProjectCalls(p1, m1, {"pending"})')
             /\ projectBucket'[p1][m1].charged =
                    SumOver(CreditOf, ProjectCalls(p1, m1, {"charged"})')
  <2> DEFINE S == ProjectCalls(p1, m1, {"pending"})
  <2>1. ProjectCalls(p1, m1, {"charged"})' = ProjectCalls(p1, m1, {"charged"})
    BY <1>1, <1>5 DEF ProjectCalls, TypeOK
  <2>2. S \in SUBSET Calls /\ c \notin S
    BY <1>5 DEF ProjectCalls
  <2>3. S' = IF p1 = p /\ m1 = m THEN S \cup {c} ELSE S
    BY <1>1, <1>5 DEF ProjectCalls, TypeOK
  <2>4. SumOver(CreditOf, S \cup {c}) = SumOver(CreditOf, S) + CreditOf[c]
    BY <2>2, OneCall
  <2>5. projectBucket[p1][m1].pending = SumOver(CreditOf, S)
        /\ projectBucket[p1][m1].charged = SumOver(CreditOf, ProjectCalls(p1, m1, {"charged"}))
    BY <1>1 DEF BucketsMatchCalls
  <2>6. projectBucket'[p1][m1] = IF p1 = p /\ m1 = m THEN Held(b, CreditOf[c])
                                 ELSE projectBucket[p1][m1]
    BY <1>1, <1>5 DEF TypeOK
  <2> HIDE DEF S
  <2> QED
    BY <1>4, <2>1, <2>3, <2>4, <2>5, <2>6 DEF S
<1> QED
  BY <1>6, <1>7 DEF BucketsMatchCalls

\* Settling a call moves its credits out of what is pending, into what is charged if it
\* succeeded; the guard on pending_milli never keeps the credits back.
LEMMA FinalizeBooks ==
    ASSUME LedgerInv, NEW c \in Calls, NEW success \in BOOLEAN, Finalize(c, success)
    PROVE  BucketsMatchCalls'
<1> DEFINE k == KeyOf[c]
           p == ProjectOf[k]
           m == callMonth[c]
           n == CreditOf[c]
<1>1. TypeOK /\ BucketsMatchCalls
  BY DEF LedgerInv
<1>2. k \in Keys /\ p \in Projects /\ m \in Months /\ n \in Nat
  BY <1>1, LedgerAssumption DEF TypeOK
<1>3. CASE callState[c] # "pending"
  <2>1. UNCHANGED <<callState, callMonth, keyBucket, projectBucket>>
    BY <1>3 DEF Finalize, bookVars
  <2> QED
    BY <1>1, <2>1, CountersKept
<1>4. CASE callState[c] = "pending"
  <2>1. /\ projectBucket' = [projectBucket EXCEPT ![p][m] = Settled(projectBucket[p][m], n, success)]
        /\ keyBucket' = [keyBucket EXCEPT ![k][m] = Settled(keyBucket[k][m], n, success)]
        /\ callState' = [callState EXCEPT ![c] = IF success THEN "charged" ELSE "failed"]
        /\ callMonth' = callMonth
    BY <1>1, <1>2, <1>4 DEF Finalize, TypeOK
  <2>2. keyBucket[k][m] \in KeyBucket /\ projectBucket[p][m] \in ProjectBucket
    BY <1>1, <1>2 DEF TypeOK
  <2>3. ASSUME NEW k1 \in Keys, NEW m1 \in Months
        PROVE  /\ keyBucket'[k1][m1].pending = SumOver(CreditOf, KeyCalls(k1, m1, {"pending"})')
               /\ keyBucket'[k1][m1].charged = SumOver(CreditOf, KeyCalls(k1, m1, {"charged"})')
    <3> DEFINE S == KeyCalls(k1, m1, {"pending"})
               C == KeyCalls(k1, m1, {"charged"})
    <3>1. S \in SUBSET Calls /\ C \in SUBSET Calls /\ c \notin C
      BY <1>4 DEF KeyCalls
    <3>2. keyBucket[k1][m1].pending = SumOver(CreditOf, S)
          /\ keyBucket[k1][m1].charged = SumOver(CreditOf, C)
      BY <1>1 DEF BucketsMatchCalls
    <3>3. CASE k1 = k /\ m1 = m
      <4>1. c \in S
        BY <1>4, <3>3 DEF KeyCalls
      <4>2. S' = S \ {c} /\ C' = IF success THEN C \cup {c} ELSE C
        BY <1>1, <1>4, <2>1, <3>3 DEF KeyCalls, TypeOK
      <4>3. /\ SumOver(CreditOf, S) = SumOver(CreditOf, S \ {c}) + n
            /\ SumOver(CreditOf, C \cup {c}) = SumOver(CreditOf, C) + n
            /\ SumOver(CreditOf, S \ {c}) \in Nat /\ SumOver(CreditOf, C) \in Nat
        BY <3>1, <4>1, OneCall, CallSums
      <4>4. keyBucket'[k1][m1] = Settled(keyBucket[k][m], n, success)
        BY <1>1, <1>2, <2>1, <3>3 DEF TypeOK
      <4>5. keyBucket[k][m].pending >= n
        BY <1>2, <3>2, <3>3, <4>3
      <4>6. Settled(keyBucket[k][m], n, success) = IF success THEN Moved(keyBucket[k][m], n)
                                                  ELSE Released(keyBucket[k][m], n)
        BY <1>2, <2>2, <4>5 DEF Settled, KeyBucket
      <4>7. /\ Moved(keyBucket[k][m], n).pending = keyBucket[k][m].pending - n
            /\ Moved(keyBucket[k][m], n).charged = keyBucket[k][m].charged + n
            /\ Released(keyBucket[k][m], n).pending = keyBucket[k][m].pending - n
            /\ Released(keyBucket[k][m], n).charged = keyBucket[k][m].charged
        BY <2>2 DEF Moved, Released, KeyBucket
      <4> HIDE DEF S, C, n, k, m
      <4>8. /\ keyBucket'[k1][m1].pending = SumOver(CreditOf, S')
            /\ keyBucket'[k1][m1].charged = SumOver(CreditOf, C')
        BY <1>2, <3>2, <3>3, <4>2, <4>3, <4>4, <4>6, <4>7
      <4> QED
        BY <4>8 DEF S, C
    <3>4. CASE ~(k1 = k /\ m1 = m)
      <4>1. S' = S /\ C' = C
        BY <1>1, <2>1, <3>4 DEF KeyCalls, TypeOK
      <4>2. keyBucket'[k1][m1] = keyBucket[k1][m1]
        BY <1>1, <2>1, <3>4 DEF TypeOK
      <4> QED
        BY <3>2, <4>1, <4>2
    <3> QED
      BY <3>3, <3>4
  <2>4. ASSUME NEW p1 \in Projects, NEW m1 \in Months
        PROVE  /\ projectBucket'[p1][m1].pending =
                    SumOver(CreditOf, ProjectCalls(p1, m1, {"pending"})')
               /\ projectBucket'[p1][m1].charged =
                    SumOver(CreditOf, ProjectCalls(p1, m1, {"charged"})')
    <3> DEFINE S == ProjectCalls(p1, m1, {"pending"})
               C == ProjectCalls(p1, m1, {"charged"})
    <3>1. S \in SUBSET Calls /\ C \in SUBSET Calls /\ c \notin C
      BY <1>4 DEF ProjectCalls
    <3>2. projectBucket[p1][m1].pending = SumOver(CreditOf, S)
          /\ projectBucket[p1][m1].charged = SumOver(CreditOf, C)
      BY <1>1 DEF BucketsMatchCalls
    <3>3. CASE p1 = p /\ m1 = m
      <4>1. c \in S
        BY <1>4, <3>3 DEF ProjectCalls
      <4>2. S' = S \ {c} /\ C' = IF success THEN C \cup {c} ELSE C
        BY <1>1, <1>4, <2>1, <3>3 DEF ProjectCalls, TypeOK
      <4>3. /\ SumOver(CreditOf, S) = SumOver(CreditOf, S \ {c}) + n
            /\ SumOver(CreditOf, C \cup {c}) = SumOver(CreditOf, C) + n
            /\ SumOver(CreditOf, S \ {c}) \in Nat /\ SumOver(CreditOf, C) \in Nat
        BY <3>1, <4>1, OneCall, CallSums
      <4>4. projectBucket'[p1][m1] = Settled(projectBucket[p][m], n, success)
        BY <1>1, <1>2, <2>1, <3>3 DEF TypeOK
      <4>5. projectBucket[p][m].pending >= n
        BY <1>2, <3>2, <3>3, <4>3
      <4>6. Settled(projectBucket[p][m], n, success) =
                IF success THEN Moved(projectBucket[p][m], n) ELSE Released(projectBucket[p][m], n)
        BY <1>2, <2>2, <4>5 DEF Settled, ProjectBucket
      <4>7. /\ Moved(projectBucket[p][m], n).pending = projectBucket[p][m].pending - n
            /\ Moved(projectBucket[p][m], n).charged = projectBucket[p][m].charged + n
            /\ Released(projectBucket[p][m], n).pending = projectBucket[p][m].pending - n
            /\ Released(projectBucket[p][m], n).charged = projectBucket[p][m].charged
        BY <2>2 DEF Moved, Released, ProjectBucket
      <4> HIDE DEF S, C, n, p, m
      <4>8. /\ projectBucket'[p1][m1].pending = SumOver(CreditOf, S')
            /\ projectBucket'[p1][m1].charged = SumOver(CreditOf, C')
        BY <1>2, <3>2, <3>3, <4>2, <4>3, <4>4, <4>6, <4>7
      <4> QED
        BY <4>8 DEF S, C
    <3>4. CASE ~(p1 = p /\ m1 = m)
      <4>1. S' = S /\ C' = C
        BY <1>1, <2>1, <3>4 DEF ProjectCalls, TypeOK
      <4>2. projectBucket'[p1][m1] = projectBucket[p1][m1]
        BY <1>1, <2>1, <3>4 DEF TypeOK
      <4> QED
        BY <3>2, <4>1, <4>2
    <3> QED
      BY <3>3, <3>4
  <2> QED
    BY <2>3, <2>4 DEF BucketsMatchCalls
<1> QED
  BY <1>3, <1>4

\* Adding a set of calls to another, or taking it away.
LEMMA ManyCalls ==
    ASSUME NEW S \in SUBSET Calls, NEW T \in SUBSET Calls
    PROVE  /\ T \subseteq S => SumOver(CreditOf, S) = SumOver(CreditOf, S \ T) + SumOver(CreditOf, T)
           /\ S \cap T = {} =>
                SumOver(CreditOf, S \cup T) = SumOver(CreditOf, S) + SumOver(CreditOf, T)
<1>1. \A U \in SUBSET Calls : IsFiniteSet(U) /\ \A x \in U : CreditOf[x] \in Nat
  BY CallSums, LedgerAssumption
<1>2. ASSUME NEW U \in SUBSET Calls, NEW V \in SUBSET Calls, U \cap V = {}
      PROVE  SumOver(CreditOf, U \cup V) = SumOver(CreditOf, U) + SumOver(CreditOf, V)
  <2>1. IsFiniteSet(U) /\ IsFiniteSet(V) /\ \A x \in U \cup V : CreditOf[x] \in Nat
    BY <1>1
  <2> QED
    BY <1>2, <2>1, SumOverDisjoint
<1>3. ASSUME T \subseteq S
      PROVE  SumOver(CreditOf, S) = SumOver(CreditOf, S \ T) + SumOver(CreditOf, T)
  <2>1. (S \ T) \cup T = S /\ (S \ T) \cap T = {} /\ S \ T \in SUBSET Calls
    BY <1>3
  <2>2. SumOver(CreditOf, (S \ T) \cup T) = SumOver(CreditOf, S \ T) + SumOver(CreditOf, T)
    BY <1>2, <2>1
  <2> QED
    BY <2>1, <2>2
<1> QED
  BY <1>2, <1>3

\* The calls a revocation of k sweeps up, and their credits.
SweptBy(k, m) == {c \in PendingOf(k) : callMonth[c] = m}
SweptCredit(k, m) == SumOver(CreditOf, SweptBy(k, m))

\* What a revocation does to the counters, whatever it gives back of the allocation.
LEMMA RevokeCounters ==
    ASSUME LedgerInv, NEW k \in Keys, NEW w \in Months, RevokeKey(k, w), NEW m \in Months
    PROVE  /\ SweptCredit(k, m) \in Nat
           /\ \A k1 \in Keys : k1 # k => keyBucket'[k1] = keyBucket[k1]
           /\ keyBucket'[k][m] = Moved(keyBucket[k][m], SweptCredit(k, m))
           /\ keyBucket'[k][m].pending = keyBucket[k][m].pending - SweptCredit(k, m)
           /\ keyBucket'[k][m].charged = keyBucket[k][m].charged + SweptCredit(k, m)
           /\ \A p1 \in Projects : p1 # ProjectOf[k] => projectBucket'[p1] = projectBucket[p1]
           /\ projectBucket'[ProjectOf[k]][m].pending =
                    projectBucket[ProjectOf[k]][m].pending - SweptCredit(k, m)
           /\ projectBucket'[ProjectOf[k]][m].charged =
                    projectBucket[ProjectOf[k]][m].charged + SweptCredit(k, m)
           /\ projectBucket'[ProjectOf[k]][m].open = projectBucket[ProjectOf[k]][m].open
           /\ projectBucket'[ProjectOf[k]][m].quota = projectBucket[ProjectOf[k]][m].quota
           /\ projectBucket'[ProjectOf[k]][m].allocated =
                    IF m = w /\ keyBucket'[k][w].open
                    THEN Larger(projectBucket[ProjectOf[k]][m].allocated
                                    + keyBucket'[k][w].charged,
                                keyBucket'[k][w].quota) - keyBucket'[k][w].quota
                    ELSE projectBucket[ProjectOf[k]][m].allocated
           /\ \A k1 \in Keys : k1 # k => cube'[k1] = cube[k1]
           /\ cube'[k][m] = Counted(cube[k][m], SweptBy(k, m))
<1> DEFINE p == ProjectOf[k]
           settled     == [n \in Months |-> Moved(keyBucket[k][n], SweptCredit(k, n))]
           mine        == settled[w]
           Freed(b, n) == IF n = w /\ mine.open
                          THEN [b EXCEPT !.allocated = Larger(@ + mine.charged, mine.quota)
                                                       - mine.quota]
                          ELSE b
<1>1. TypeOK
  BY DEF LedgerInv
<1>2. p \in Projects
  BY LedgerAssumption
<1>3. /\ keyBucket' = [keyBucket EXCEPT ![k] = settled]
      /\ projectBucket' = [projectBucket EXCEPT ![p] =
                [n \in Months |-> Freed(Moved(projectBucket[p][n], SweptCredit(k, n)), n)]]
      /\ cube' = [cube EXCEPT ![k] = [n \in Months |-> Counted(cube[k][n], SweptBy(k, n))]]
  BY DEF RevokeKey, SweptCredit, SweptBy
<1>4. SweptBy(k, m) \in SUBSET Calls
  BY DEF SweptBy, PendingOf
<1>5. SweptCredit(k, m) \in Nat
  BY <1>4, CallSums DEF SweptCredit
<1>6. keyBucket[k][m] \in KeyBucket /\ projectBucket[p][m] \in ProjectBucket
  BY <1>1, <1>2 DEF TypeOK
<1>7. keyBucket' = [keyBucket EXCEPT ![k] = settled] /\ keyBucket'[k] = settled
  BY <1>1, <1>3 DEF TypeOK
<1>8. keyBucket'[k][w] = mine
  BY <1>7
<1> HIDE DEF mine
<1>9. projectBucket'[p][m] = Freed(Moved(projectBucket[p][m], SweptCredit(k, m)), m)
  BY <1>1, <1>2, <1>3 DEF TypeOK
<1>10. /\ projectBucket'[p][m].pending = projectBucket[p][m].pending - SweptCredit(k, m)
       /\ projectBucket'[p][m].charged = projectBucket[p][m].charged + SweptCredit(k, m)
       /\ projectBucket'[p][m].open = projectBucket[p][m].open
       /\ projectBucket'[p][m].quota = projectBucket[p][m].quota
       /\ projectBucket'[p][m].allocated =
            IF m = w /\ mine.open
            THEN Larger(projectBucket[p][m].allocated + mine.charged, mine.quota) - mine.quota
            ELSE projectBucket[p][m].allocated
  <2> HIDE DEF p
  <2> DEFINE b == projectBucket[p][m]
             x == IF m = w /\ mine.open
                  THEN Larger(b.allocated + mine.charged, mine.quota) - mine.quota
                  ELSE b.allocated
             e == projectBucket'[p][m]
  <2>1. ASSUME m = w /\ mine.open
        PROVE  e = [Moved(b, SweptCredit(k, m)) EXCEPT !.allocated = x]
    <3>1. e = [Moved(b, SweptCredit(k, m)) EXCEPT
                !.allocated = Larger(@ + mine.charged, mine.quota) - mine.quota]
      BY <1>9, <2>1
    <3>2. Moved(b, SweptCredit(k, m)).allocated = b.allocated
      BY <1>6 DEF Moved, ProjectBucket
    <3> QED
      BY <2>1, <3>1, <3>2
  <2>2. ASSUME ~(m = w /\ mine.open)
        PROVE  e = Moved(b, SweptCredit(k, m)) /\ x = b.allocated
    BY <1>9, <2>2
  <2>3. \/ e = [Moved(b, SweptCredit(k, m)) EXCEPT !.allocated = x]
        \/ e = Moved(b, SweptCredit(k, m)) /\ x = b.allocated
    BY <2>1, <2>2
  <2> HIDE DEF b, x, e
  <2>4. b \in ProjectBucket
    BY <1>6 DEF b
  <2> DEFINE n == SweptCredit(k, m)
  <2> HIDE DEF n
  <2>5. /\ e.pending = b.pending - n /\ e.charged = b.charged + n
        /\ e.open = b.open /\ e.quota = b.quota /\ e.allocated = x
    <3>1. CASE e = [Moved(b, n) EXCEPT !.allocated = x]
      BY <2>4, <3>1 DEF Moved, ProjectBucket
    <3>2. CASE e = Moved(b, n) /\ x = b.allocated
      BY <2>4, <3>2 DEF Moved, ProjectBucket
    <3> QED
      BY <2>3, <3>1, <3>2 DEF n
  <2> QED
    BY <2>5 DEF b, x, e, n
<1>12. /\ keyBucket'[k][m] = Moved(keyBucket[k][m], SweptCredit(k, m))
       /\ keyBucket'[k][m].pending = keyBucket[k][m].pending - SweptCredit(k, m)
       /\ keyBucket'[k][m].charged = keyBucket[k][m].charged + SweptCredit(k, m)
  <2> DEFINE n == SweptCredit(k, m)
  <2>1. keyBucket'[k][m] = Moved(keyBucket[k][m], n)
    BY <1>7
  <2> HIDE DEF n
  <2>2. /\ Moved(keyBucket[k][m], n).pending = keyBucket[k][m].pending - n
        /\ Moved(keyBucket[k][m], n).charged = keyBucket[k][m].charged + n
    BY <1>6 DEF Moved, KeyBucket
  <2> QED
    BY <2>1, <2>2 DEF n
<1>13. /\ \A k1 \in Keys : k1 # k => keyBucket'[k1] = keyBucket[k1] /\ cube'[k1] = cube[k1]
       /\ \A p1 \in Projects : p1 # p => projectBucket'[p1] = projectBucket[p1]
       /\ cube'[k][m] = Counted(cube[k][m], SweptBy(k, m))
  BY <1>1, <1>3 DEF TypeOK
<1> QED
  BY <1>5, <1>8, <1>10, <1>12, <1>13

\* A revocation leaves no call of the key pending, and charges each in its own month.
LEMMA RevokeBooks ==
    ASSUME LedgerInv, NEW k \in Keys, NEW w \in Months, RevokeKey(k, w)
    PROVE  BucketsMatchCalls'
<1> DEFINE p == ProjectOf[k]
<1>1. TypeOK /\ BucketsMatchCalls
  BY DEF LedgerInv
<1>2. p \in Projects
  BY LedgerAssumption
<1>3. /\ callState' = [c \in Calls |-> IF c \in PendingOf(k) THEN "charged" ELSE callState[c]]
      /\ callMonth' = callMonth
  BY DEF RevokeKey
<1>4. ASSUME NEW k1 \in Keys, NEW m1 \in Months
      PROVE  /\ keyBucket'[k1][m1].pending = SumOver(CreditOf, KeyCalls(k1, m1, {"pending"})')
             /\ keyBucket'[k1][m1].charged = SumOver(CreditOf, KeyCalls(k1, m1, {"charged"})')
  <2> DEFINE S == KeyCalls(k1, m1, {"pending"})
             C == KeyCalls(k1, m1, {"charged"})
             T == SweptBy(k, m1)
  <2>1. S \in SUBSET Calls /\ C \in SUBSET Calls /\ T \in SUBSET Calls /\ C \cap T = {}
    BY DEF KeyCalls, SweptBy, PendingOf
  <2>2. keyBucket[k1][m1].pending = SumOver(CreditOf, S)
        /\ keyBucket[k1][m1].charged = SumOver(CreditOf, C)
    BY <1>1 DEF BucketsMatchCalls
  <2>3. CASE k1 = k
    <3>1. T \subseteq S /\ S' = S \ T /\ C' = C \cup T
      BY <1>1, <1>3, <2>3 DEF KeyCalls, SweptBy, PendingOf, TypeOK
    <3>2. /\ SumOver(CreditOf, S) = SumOver(CreditOf, S \ T) + SumOver(CreditOf, T)
          /\ SumOver(CreditOf, C \cup T) = SumOver(CreditOf, C) + SumOver(CreditOf, T)
          /\ SumOver(CreditOf, S \ T) \in Nat /\ SumOver(CreditOf, T) \in Nat
      BY <2>1, <3>1, ManyCalls, CallSums
    <3>3. /\ keyBucket'[k][m1].pending = keyBucket[k][m1].pending - SweptCredit(k, m1)
          /\ keyBucket'[k][m1].charged = keyBucket[k][m1].charged + SweptCredit(k, m1)
          /\ SweptCredit(k, m1) = SumOver(CreditOf, T)
      BY RevokeCounters DEF SweptCredit
    <3> HIDE DEF S, C, T
    <3>4. /\ keyBucket'[k1][m1].pending = SumOver(CreditOf, S')
          /\ keyBucket'[k1][m1].charged = SumOver(CreditOf, C')
      BY <2>2, <2>3, <3>1, <3>2, <3>3
    <3> QED
      BY <3>4 DEF S, C
  <2>4. CASE k1 # k
    <3>1. S' = S /\ C' = C
      BY <1>1, <1>3, <2>4 DEF KeyCalls, PendingOf, TypeOK
    <3>2. keyBucket'[k1][m1] = keyBucket[k1][m1]
      BY <2>4, RevokeCounters
    <3> QED
      BY <2>2, <3>1, <3>2
  <2> QED
    BY <2>3, <2>4
<1>5. ASSUME NEW p1 \in Projects, NEW m1 \in Months
      PROVE  /\ projectBucket'[p1][m1].pending =
                    SumOver(CreditOf, ProjectCalls(p1, m1, {"pending"})')
             /\ projectBucket'[p1][m1].charged =
                    SumOver(CreditOf, ProjectCalls(p1, m1, {"charged"})')
  <2> DEFINE S == ProjectCalls(p1, m1, {"pending"})
             C == ProjectCalls(p1, m1, {"charged"})
             T == SweptBy(k, m1)
  <2>1. S \in SUBSET Calls /\ C \in SUBSET Calls /\ T \in SUBSET Calls /\ C \cap T = {}
    BY DEF ProjectCalls, SweptBy, PendingOf
  <2>2. projectBucket[p1][m1].pending = SumOver(CreditOf, S)
        /\ projectBucket[p1][m1].charged = SumOver(CreditOf, C)
    BY <1>1 DEF BucketsMatchCalls
  <2>3. CASE p1 = p
    <3>1. T \subseteq S /\ S' = S \ T /\ C' = C \cup T
      BY <1>1, <1>3, <2>3 DEF ProjectCalls, SweptBy, PendingOf, TypeOK
    <3>2. /\ SumOver(CreditOf, S) = SumOver(CreditOf, S \ T) + SumOver(CreditOf, T)
          /\ SumOver(CreditOf, C \cup T) = SumOver(CreditOf, C) + SumOver(CreditOf, T)
          /\ SumOver(CreditOf, S \ T) \in Nat /\ SumOver(CreditOf, T) \in Nat
      BY <2>1, <3>1, ManyCalls, CallSums
    <3>3. /\ projectBucket'[p][m1].pending = projectBucket[p][m1].pending - SweptCredit(k, m1)
          /\ projectBucket'[p][m1].charged = projectBucket[p][m1].charged + SweptCredit(k, m1)
          /\ SweptCredit(k, m1) = SumOver(CreditOf, T)
      BY RevokeCounters DEF SweptCredit
    <3> HIDE DEF S, C, T
    <3>4. /\ projectBucket'[p1][m1].pending = SumOver(CreditOf, S')
          /\ projectBucket'[p1][m1].charged = SumOver(CreditOf, C')
      BY <2>2, <2>3, <3>1, <3>2, <3>3
    <3> QED
      BY <3>4 DEF S, C
  <2>4. CASE p1 # p
    <3>1. S' = S /\ C' = C
      BY <1>1, <1>3, <2>4 DEF ProjectCalls, PendingOf, TypeOK
    <3>2. projectBucket'[p1][m1] = projectBucket[p1][m1]
      BY <2>4, RevokeCounters
    <3> QED
      BY <2>2, <3>1, <3>2
  <2> QED
    BY <2>3, <2>4
<1> QED
  BY <1>4, <1>5 DEF BucketsMatchCalls

\* Opening a bucket or changing its quota or its allocation leaves the counters alone.
LEMMA QuotaBooks ==
    ASSUME LedgerInv, NEW k \in Keys, NEW q \in Quotas, NEW w \in Months,
           ApproveKey(k, q, w) \/ UpdateKeyQuota(k, q, w)
    PROVE  BucketsMatchCalls'
<1>1. TypeOK /\ BucketsMatchCalls
  BY DEF LedgerInv
<1>2. ProjectOf[k] \in Projects
  BY LedgerAssumption
<1> DEFINE b(r) == OpenedProjectBucket(r, w)
           d    == OpenedKeyBucket(k, w)
           kb   == keyBucket[k][w]
<1>3. ASSUME NEW r \in Projects
      PROVE  /\ b(r) \in ProjectBucket
             /\ b(r).pending = projectBucket[r][w].pending
             /\ b(r).charged = projectBucket[r][w].charged
  BY <1>2, OpenedProject
<1>4. d \in KeyBucket /\ d.pending = kb.pending /\ d.charged = kb.charged /\ kb \in KeyBucket
  BY <1>1, <1>2, OpenedKey DEF TypeOK
<1> HIDE DEF b, d
<1>5. CASE ApproveKey(k, q, w)
  <2>1. /\ projectBucket' = [projectBucket EXCEPT ![ProjectOf[k]][w] =
                                [b(ProjectOf[k]) EXCEPT !.allocated = @ + q]]
        /\ keyBucket' = [keyBucket EXCEPT ![k][w] =
                            [keyBucket[k][w] EXCEPT !.open = TRUE, !.quota = q]]
        /\ UNCHANGED <<callState, callMonth>>
    BY <1>1, <1>2, <1>5 DEF ApproveKey, TypeOK, callVars, b
  <2>2. /\ [b(ProjectOf[k]) EXCEPT !.allocated = @ + q].pending = b(ProjectOf[k]).pending
        /\ [b(ProjectOf[k]) EXCEPT !.allocated = @ + q].charged = b(ProjectOf[k]).charged
    BY <1>2, <1>3 DEF ProjectBucket
  <2>3. /\ [kb EXCEPT !.open = TRUE, !.quota = q].pending = kb.pending
        /\ [kb EXCEPT !.open = TRUE, !.quota = q].charged = kb.charged
    BY <1>4 DEF KeyBucket
  <2>4. \A r \in Projects, m \in Months :
            /\ projectBucket'[r][m].pending = projectBucket[r][m].pending
            /\ projectBucket'[r][m].charged = projectBucket[r][m].charged
    BY <1>1, <1>2, <1>3, <2>1, <2>2 DEF TypeOK
  <2>5. \A k1 \in Keys, m \in Months :
            /\ keyBucket'[k1][m].pending = keyBucket[k1][m].pending
            /\ keyBucket'[k1][m].charged = keyBucket[k1][m].charged
    BY <1>1, <1>2, <2>1, <2>3 DEF TypeOK
  <2> QED
    BY <1>1, <2>1, <2>4, <2>5, CountersKept
<1>6. CASE UpdateKeyQuota(k, q, w)
  <2>1. /\ projectBucket' = [projectBucket EXCEPT ![ProjectOf[k]][w] =
                                [b(ProjectOf[k]) EXCEPT !.allocated = (@ + q) - keyQuota[k]]]
        /\ keyBucket' = [keyBucket EXCEPT ![k][w] = [d EXCEPT !.quota = q]]
        /\ UNCHANGED <<callState, callMonth>>
    BY <1>6 DEF UpdateKeyQuota, callVars, b, d
  <2>2. LET e == [b(ProjectOf[k]) EXCEPT !.allocated = (@ + q) - keyQuota[k]]
        IN  e.pending = b(ProjectOf[k]).pending /\ e.charged = b(ProjectOf[k]).charged
    BY <1>2, <1>3 DEF ProjectBucket
  <2>3. [d EXCEPT !.quota = q].pending = d.pending /\ [d EXCEPT !.quota = q].charged = d.charged
    BY <1>4 DEF KeyBucket
  <2>4. \A r \in Projects, m \in Months :
            /\ projectBucket'[r][m].pending = projectBucket[r][m].pending
            /\ projectBucket'[r][m].charged = projectBucket[r][m].charged
    BY <1>1, <1>2, <1>3, <2>1, <2>2 DEF TypeOK
  <2>5. \A k1 \in Keys, m \in Months :
            /\ keyBucket'[k1][m].pending = keyBucket[k1][m].pending
            /\ keyBucket'[k1][m].charged = keyBucket[k1][m].charged
    BY <1>1, <1>2, <1>4, <2>1, <2>3 DEF TypeOK
  <2> QED
    BY <1>1, <2>1, <2>4, <2>5, CountersKept
<1> QED
  BY <1>5, <1>6

\* A project's quota may create its bucket, with no calls in it.
LEMMA ProjectQuotaBooks ==
    ASSUME LedgerInv, NEW p \in Projects, NEW q \in Quotas, NEW w \in Months,
           UpdateProjectQuota(p, q, w)
    PROVE  BucketsMatchCalls'
<1> DEFINE b == OpenedProjectBucket(p, w)
<1>1. TypeOK /\ BucketsMatchCalls
  BY DEF LedgerInv
<1>3. /\ b \in ProjectBucket
      /\ b.pending = projectBucket[p][w].pending
      /\ b.charged = projectBucket[p][w].charged
  BY OpenedProject
<1> HIDE DEF b
<1>4. /\ projectBucket' = [projectBucket EXCEPT ![p][w] = [b EXCEPT !.quota = q]]
      /\ keyBucket' = keyBucket
      /\ UNCHANGED <<callState, callMonth>>
  BY DEF UpdateProjectQuota, callVars, b
<1>5. [b EXCEPT !.quota = q].pending = b.pending /\ [b EXCEPT !.quota = q].charged = b.charged
  BY <1>3 DEF ProjectBucket
<1>6. \A r \in Projects, m \in Months :
          /\ projectBucket'[r][m].pending = projectBucket[r][m].pending
          /\ projectBucket'[r][m].charged = projectBucket[r][m].charged
  BY <1>1, <1>3, <1>4, <1>5 DEF TypeOK
<1> QED
  BY <1>1, <1>4, <1>6, CountersKept

\* The buckets maintenance inserts count nothing, and it replaces no bucket.
LEMMA EnsureBooks ==
    ASSUME LedgerInv, EnsureCommit
    PROVE  BucketsMatchCalls'
<1>1. TypeOK /\ BucketsMatchCalls /\ OpenBuckets /\ FreshSnapshot
  BY DEF LedgerInv
<1>2. \A p \in Projects, m \in Months :
        /\ projectBucket'[p][m].pending = projectBucket[p][m].pending
        /\ projectBucket'[p][m].charged = projectBucket[p][m].charged
  BY <1>1 DEF EnsureCommit, OpenBuckets, FreshSnapshot, NoProjectBucket
<1>3. \A k \in Keys, m \in Months :
        /\ keyBucket'[k][m].pending = keyBucket[k][m].pending
        /\ keyBucket'[k][m].charged = keyBucket[k][m].charged
  BY <1>1 DEF EnsureCommit, OpenBuckets, NoKeyBucket
<1>4. UNCHANGED <<callState, callMonth>>
  BY DEF EnsureCommit, callVars
<1> QED
  BY <1>1, <1>2, <1>3, <1>4, CountersKept

\* Steps that leave the calls, the buckets and the cube alone.
BooksAside == UNCHANGED <<callState, callMonth, input, bookVars>>

\* Which steps those are.
LEMMA AsideSteps ==
    ASSUME \/ UNCHANGED vars \/ RecoverAbort \/ EnsureInsert \/ EnsureRollback
           \/ \E S \in SUBSET Projects : NextMonth(S)
           \/ \E p \in Projects : RollBack(p)
           \/ \E m \in Months : EnsureScan(m)
           \/ \E k \in Keys : ClaimKey(k)
           \/ \E c \in Calls : LeaseRunsOut(c) \/ MarkSent(c) \/ WorkerLost(c)
           \/ \E S \in SUBSET Calls : RecoverScan(S)
    PROVE  BooksAside
BY DEF BooksAside, vars, callVars, NextMonth, RollBack, RecoverAbort, EnsureScan, EnsureInsert,
       EnsureRollback, ClaimKey, LeaseRunsOut, MarkSent, WorkerLost, RecoverScan

\* Every other step.
LEMMA StepCases ==
    ASSUME [Next]_vars, ~BooksAside
    PROVE  \/ \E k \in Keys, q \in Quotas, m \in Months :
                ApproveKey(k, q, m) \/ UpdateKeyQuota(k, q, m)
           \/ \E p \in Projects, q \in Quotas, m \in Months : UpdateProjectQuota(p, q, m)
           \/ \E k \in Keys, m \in Months : RevokeKey(k, m)
           \/ \E c \in Calls, m \in Months : Reserve(c, m)
           \/ \E c \in Calls, success \in BOOLEAN :
                Finalize(c, success) /\ UNCHANGED <<month, quotaVars, ensure, opVars>>
           \/ EnsureCommit
BY AsideSteps DEF Next, WorkerFinalize, RecoverCall

\* Every step keeps the buckets equal to the sums of their calls.
LEMMA BooksStep ==
    ASSUME LedgerInv, [Next]_vars
    PROVE  BucketsMatchCalls'
<1>1. CASE BooksAside
  <2>1. BucketsMatchCalls
    BY DEF LedgerInv
  <2> QED
    BY <1>1, <2>1, CountersKept DEF BooksAside, bookVars
<1>2. CASE ~BooksAside
  BY <1>2, StepCases, QuotaBooks, ProjectQuotaBooks, RevokeBooks, ReserveBooks, FinalizeBooks,
     EnsureBooks
<1> QED
  BY <1>1, <1>2

-------------------------------------------------------------------------------
(* The usage cube *)

\* Counting some calls after some others counts them all.
LEMMA CountedUnion ==
    ASSUME NEW C \in SUBSET Calls, NEW T \in SUBSET Calls, C \cap T = {}
    PROVE  Counted(Counted(NoCubeRow, C), T) = Counted(NoCubeRow, C \cup T)
<1> DEFINE PaidOf(S) == {c \in S : CreditOf[c] > 0}
           FreeOf(S) == {c \in S : CreditOf[c] = 0}
<1>1. SumOver(CreditOf, C \cup T) = SumOver(CreditOf, C) + SumOver(CreditOf, T)
  BY ManyCalls
<1>2. ASSUME NEW S1 \in SUBSET Calls, NEW S2 \in SUBSET Calls, S1 \cap S2 = {}
      PROVE  /\ Cardinality(S1) \in Nat /\ Cardinality(S2) \in Nat
             /\ Cardinality(S1 \cup S2) = Cardinality(S1) + Cardinality(S2)
  <2>1. IsFiniteSet(S1) /\ IsFiniteSet(S2)
    BY CallSums
  <2>2. Cardinality(S1) \in Nat /\ Cardinality(S2) \in Nat
    BY <2>1, FS_CardinalityType
  <2>3. Cardinality(S1 \cup S2) = Cardinality(S1) + Cardinality(S2) - Cardinality(S1 \cap S2)
    BY <2>1, FS_Union
  <2>4. Cardinality(S1 \cap S2) = 0
    BY <1>2, FS_EmptySet
  <2> QED
    BY <2>2, <2>3, <2>4
<1>3. /\ PaidOf(C \cup T) = PaidOf(C) \cup PaidOf(T) /\ PaidOf(C) \cap PaidOf(T) = {}
      /\ FreeOf(C \cup T) = FreeOf(C) \cup FreeOf(T) /\ FreeOf(C) \cap FreeOf(T) = {}
      /\ PaidOf(C) \in SUBSET Calls /\ PaidOf(T) \in SUBSET Calls
      /\ FreeOf(C) \in SUBSET Calls /\ FreeOf(T) \in SUBSET Calls
  OBVIOUS
<1> HIDE DEF PaidOf, FreeOf
<1>4. /\ Cardinality(PaidOf(C)) \in Nat /\ Cardinality(PaidOf(T)) \in Nat
      /\ Cardinality(FreeOf(C)) \in Nat /\ Cardinality(FreeOf(T)) \in Nat
      /\ Cardinality(PaidOf(C \cup T)) = Cardinality(PaidOf(C)) + Cardinality(PaidOf(T))
      /\ Cardinality(FreeOf(C \cup T)) = Cardinality(FreeOf(C)) + Cardinality(FreeOf(T))
  BY <1>2, <1>3
<1>5. SumOver(CreditOf, C) \in Nat /\ SumOver(CreditOf, T) \in Nat
  BY CallSums
<1>6. \A row, S : Counted(row, S) = [milli |-> row.milli + SumOver(CreditOf, S),
                                     paid  |-> row.paid + Cardinality(PaidOf(S)),
                                     free  |-> row.free + Cardinality(FreeOf(S))]
  BY DEF Counted, PaidOf, FreeOf
<1> QED
  BY <1>1, <1>4, <1>5, <1>6 DEF NoCubeRow

\* The cube is right after a step that counts nothing.
LEMMA CubeKept ==
    ASSUME CubeMatchesCalls, cube' = cube,
           \A k \in Keys, m \in Months :
                KeyCalls(k, m, {"charged"})' = KeyCalls(k, m, {"charged"})
    PROVE  CubeMatchesCalls'
<1>1. \A k \in Keys, m \in Months : cube'[k][m] = Counted(NoCubeRow, KeyCalls(k, m, {"charged"})')
  BY DEF CubeMatchesCalls
<1> QED
  BY <1>1 DEF CubeMatchesCalls, Counted

\* The cube is right after a step that charges the calls in T of key k and counts them.
LEMMA CubeCounts ==
    ASSUME CubeMatchesCalls, NEW k \in Keys, NEW m \in Months, NEW T \in SUBSET Calls,
           KeyCalls(k, m, {"charged"}) \cap T = {},
           KeyCalls(k, m, {"charged"})' = KeyCalls(k, m, {"charged"}) \cup T,
           cube'[k][m] = Counted(cube[k][m], T)
    PROVE  cube'[k][m] = Counted(NoCubeRow, KeyCalls(k, m, {"charged"})')
<1> DEFINE C == KeyCalls(k, m, {"charged"})
<1>1. C \in SUBSET Calls
  BY DEF KeyCalls
<1>2. cube[k][m] = Counted(NoCubeRow, C)
  BY DEF CubeMatchesCalls
<1> HIDE DEF C
<1>3. cube'[k][m] = Counted(NoCubeRow, C \cup T)
  BY <1>1, <1>2, CountedUnion DEF C
<1> QED
  BY <1>3 DEF C

\* Every step keeps the cube the count of the charged calls.
LEMMA CubeStep ==
    ASSUME LedgerInv, [Next]_vars
    PROVE  CubeMatchesCalls'
<1>1. TypeOK /\ CubeMatchesCalls
  BY DEF LedgerInv
<1>2. CASE BooksAside
  <2>1. cube' = cube /\ \A k, m : KeyCalls(k, m, {"charged"})' = KeyCalls(k, m, {"charged"})
    BY <1>2 DEF BooksAside, bookVars, KeyCalls
  <2> QED
    BY <1>1, <2>1, CubeKept
<1>3. ASSUME NEW k \in Keys, NEW q \in Quotas, NEW w \in Months,
             ApproveKey(k, q, w) \/ UpdateKeyQuota(k, q, w)
      PROVE  CubeMatchesCalls'
  <2>1. cube' = cube /\ \A k1, m : KeyCalls(k1, m, {"charged"})' = KeyCalls(k1, m, {"charged"})
    BY <1>3 DEF ApproveKey, UpdateKeyQuota, callVars, KeyCalls
  <2> QED
    BY <1>1, <2>1, CubeKept
<1>4. ASSUME NEW p \in Projects, NEW q \in Quotas, NEW w \in Months, UpdateProjectQuota(p, q, w)
      PROVE  CubeMatchesCalls'
  <2>1. cube' = cube /\ \A k1, m : KeyCalls(k1, m, {"charged"})' = KeyCalls(k1, m, {"charged"})
    BY <1>4 DEF UpdateProjectQuota, callVars, KeyCalls
  <2> QED
    BY <1>1, <2>1, CubeKept
<1>5. CASE EnsureCommit
  <2>1. cube' = cube /\ \A k1, m : KeyCalls(k1, m, {"charged"})' = KeyCalls(k1, m, {"charged"})
    BY <1>5 DEF EnsureCommit, callVars, KeyCalls
  <2> QED
    BY <1>1, <2>1, CubeKept
<1>6. ASSUME NEW c \in Calls, NEW m \in Months, Reserve(c, m)
      PROVE  CubeMatchesCalls'
  <2>1. /\ cube' = cube /\ callState[c] = "unused"
        /\ callState' = [callState EXCEPT ![c] = "pending"]
        /\ callMonth' = [callMonth EXCEPT ![c] = m]
    BY <1>6 DEF Reserve
  <2>2. \A k1, m1 : KeyCalls(k1, m1, {"charged"})' = KeyCalls(k1, m1, {"charged"})
    BY <1>1, <2>1 DEF KeyCalls, TypeOK
  <2> QED
    BY <1>1, <2>1, <2>2, CubeKept
<1>7. ASSUME NEW c \in Calls, NEW success \in BOOLEAN, Finalize(c, success)
      PROVE  CubeMatchesCalls'
  <2> DEFINE k == KeyOf[c]
             m == callMonth[c]
  <2>1. k \in Keys /\ m \in Months
    BY <1>1, LedgerAssumption DEF TypeOK
  <2>2. CASE callState[c] # "pending"
    <3>1. cube' = cube /\ \A k1, m1 : KeyCalls(k1, m1, {"charged"})' = KeyCalls(k1, m1, {"charged"})
      BY <1>7, <2>2 DEF Finalize, bookVars, KeyCalls
    <3> QED
      BY <1>1, <3>1, CubeKept
  <2>3. CASE callState[c] = "pending" /\ ~success
    <3>1. /\ callState' = [callState EXCEPT ![c] = "failed"]
          /\ callMonth' = callMonth
          /\ cube' = [cube EXCEPT ![k][m] = cube[k][m]]
      BY <1>1, <1>7, <2>1, <2>3 DEF Finalize, TypeOK
    <3>2. \A k1, m1 : KeyCalls(k1, m1, {"charged"})' = KeyCalls(k1, m1, {"charged"})
      BY <1>1, <2>3, <3>1 DEF KeyCalls, TypeOK
    <3>3. [cube[k] EXCEPT ![m] = cube[k][m]] = cube[k]
      BY <1>1, <2>1 DEF TypeOK
    <3>4. cube' = cube
      BY <1>1, <2>1, <3>1, <3>3 DEF TypeOK
    <3> QED
      BY <1>1, <3>2, <3>4, CubeKept
  <2>4. CASE callState[c] = "pending" /\ success
    <3>1. /\ callState' = [callState EXCEPT ![c] = "charged"]
          /\ callMonth' = callMonth
          /\ cube' = [cube EXCEPT ![k][m] = Counted(cube[k][m], {c})]
      BY <1>1, <1>7, <2>4 DEF Finalize, TypeOK
    <3>2. ASSUME NEW k1 \in Keys, NEW m1 \in Months
          PROVE  cube'[k1][m1] = Counted(NoCubeRow, KeyCalls(k1, m1, {"charged"})')
      <4> DEFINE C == KeyCalls(k1, m1, {"charged"})
      <4>1. CASE k1 = k /\ m1 = m
        <5>1. C \cap {c} = {} /\ C' = C \cup {c}
          BY <1>1, <2>4, <3>1, <4>1 DEF KeyCalls, TypeOK
        <5>2. cube'[k1][m1] = Counted(cube[k1][m1], {c})
          BY <1>1, <2>1, <3>1, <4>1 DEF TypeOK
        <5> QED
          BY <1>1, <5>1, <5>2, CubeCounts
      <4>2. CASE ~(k1 = k /\ m1 = m)
        <5>1. C' = C
          BY <1>1, <3>1, <4>2 DEF KeyCalls, TypeOK
        <5>2. cube'[k1][m1] = cube[k1][m1]
          BY <1>1, <2>1, <3>1, <4>2 DEF TypeOK
        <5> QED
          BY <1>1, <5>1, <5>2 DEF CubeMatchesCalls
      <4> QED
        BY <4>1, <4>2
    <3> QED
      BY <3>2 DEF CubeMatchesCalls, Counted
  <2> QED
    BY <2>2, <2>3, <2>4
<1>8. ASSUME NEW k \in Keys, NEW w \in Months, RevokeKey(k, w)
      PROVE  CubeMatchesCalls'
  <2>1. /\ callState' = [c \in Calls |-> IF c \in PendingOf(k) THEN "charged" ELSE callState[c]]
        /\ callMonth' = callMonth
    BY <1>8 DEF RevokeKey
  <2>2. ASSUME NEW k1 \in Keys, NEW m1 \in Months
        PROVE  cube'[k1][m1] = Counted(NoCubeRow, KeyCalls(k1, m1, {"charged"})')
    <3> DEFINE C == KeyCalls(k1, m1, {"charged"})
               T == SweptBy(k, m1)
    <3>1. CASE k1 = k
      <4>1. T \in SUBSET Calls /\ C \cap T = {} /\ C' = C \cup T
        BY <1>1, <2>1, <3>1 DEF KeyCalls, SweptBy, PendingOf, TypeOK
      <4>2. cube'[k1][m1] = Counted(cube[k1][m1], T)
        BY <1>8, <3>1, RevokeCounters
      <4> HIDE DEF T
      <4> QED
        BY <1>1, <4>1, <4>2, CubeCounts
    <3>2. CASE k1 # k
      <4>1. C' = C
        BY <1>1, <2>1, <3>2 DEF KeyCalls, PendingOf, TypeOK
      <4>2. cube'[k1][m1] = cube[k1][m1]
        BY <1>8, <3>2, RevokeCounters
      <4> QED
        BY <1>1, <4>1, <4>2 DEF CubeMatchesCalls
    <3> QED
      BY <3>1, <3>2
  <2> QED
    BY <2>2 DEF CubeMatchesCalls, Counted
<1> QED
  BY <1>2, <1>3, <1>4, <1>5, <1>6, <1>7, <1>8, StepCases

-------------------------------------------------------------------------------
(* Calls against their keys and their prompts *)

\* A step that settles calls or leaves them alone, and revokes nothing.
LEMMA PendingKept ==
    ASSUME PendingCallHasActiveKey,
           \A c \in Calls : callState'[c] = "pending" => callState[c] = "pending",
           \A k \in Keys : keyStatus[k] = "active" => keyStatus'[k] = "active"
    PROVE  PendingCallHasActiveKey'
BY LedgerAssumption DEF PendingCallHasActiveKey

\* Every step keeps the keys of the calls in flight active.
LEMMA PendingStep ==
    ASSUME LedgerInv, [Next]_vars
    PROVE  PendingCallHasActiveKey'
<1>1. TypeOK /\ PendingCallHasActiveKey
  BY DEF LedgerInv
<1>2. CASE UNCHANGED <<callState, keyStatus>>
  BY <1>1, <1>2, PendingKept
<1>3. ASSUME NEW k \in Keys, NEW q \in Quotas, NEW w \in Months,
             ApproveKey(k, q, w) \/ UpdateKeyQuota(k, q, w)
      PROVE  PendingCallHasActiveKey'
  BY <1>1, <1>3, PendingKept DEF ApproveKey, UpdateKeyQuota, callVars, TypeOK
<1>4. ASSUME NEW k \in Keys, ClaimKey(k)
      PROVE  PendingCallHasActiveKey'
  BY <1>1, <1>4, PendingKept DEF ClaimKey, callVars, TypeOK
<1>5. ASSUME NEW k \in Keys, NEW w \in Months, RevokeKey(k, w)
      PROVE  PendingCallHasActiveKey'
  <2>1. /\ callState' = [c \in Calls |-> IF c \in PendingOf(k) THEN "charged" ELSE callState[c]]
        /\ keyStatus' = [keyStatus EXCEPT ![k] = "revoked"]
    BY <1>5 DEF RevokeKey
  <2> QED
    BY <1>1, <2>1, LedgerAssumption DEF PendingCallHasActiveKey, PendingOf, TypeOK
<1>6. ASSUME NEW c \in Calls, NEW m \in Months, Reserve(c, m)
      PROVE  PendingCallHasActiveKey'
  BY <1>1, <1>6, LedgerAssumption DEF PendingCallHasActiveKey, Reserve, quotaVars, TypeOK
<1>7. ASSUME NEW c \in Calls, NEW success \in BOOLEAN, Finalize(c, success), UNCHANGED quotaVars
      PROVE  PendingCallHasActiveKey'
  <2>1. \A d \in Calls : callState'[d] = "pending" => callState[d] = "pending"
    BY <1>1, <1>7 DEF Finalize, TypeOK
  <2> QED
    BY <1>1, <1>7, <2>1, PendingKept DEF quotaVars
<1>8. UNCHANGED vars \/ RecoverAbort \/ EnsureInsert \/ EnsureRollback \/ EnsureCommit
      \/ (\E S \in SUBSET Projects : NextMonth(S))
      \/ (\E p \in Projects : RollBack(p))
      \/ (\E m \in Months : EnsureScan(m))
      \/ (\E c \in Calls : LeaseRunsOut(c) \/ MarkSent(c) \/ WorkerLost(c))
      \/ (\E S \in SUBSET Calls : RecoverScan(S))
      \/ (\E p \in Projects, q \in Quotas, m \in Months : UpdateProjectQuota(p, q, m))
      => UNCHANGED <<callState, keyStatus>>
  BY DEF vars, callVars, quotaVars, NextMonth, RollBack, RecoverAbort, EnsureScan, EnsureInsert,
         EnsureCommit, EnsureRollback, LeaseRunsOut, MarkSent, WorkerLost, RecoverScan,
         UpdateProjectQuota
<1> QED
  BY <1>2, <1>3, <1>4, <1>5, <1>6, <1>7, <1>8 DEF Next, WorkerFinalize, RecoverCall

\* Every step keeps a prompt hidden while its call is pending, shows it with the charge
\* and deletes it with the failure.
LEMMA PromptStep ==
    ASSUME LedgerInv, [Next]_vars
    PROVE  PromptFollowsBilling'
<1>1. TypeOK /\ PromptFollowsBilling
  BY DEF LedgerInv
<1>2. CASE UNCHANGED <<callState, input>>
  BY <1>1, <1>2 DEF PromptFollowsBilling
<1>3. ASSUME NEW k \in Keys, NEW w \in Months, RevokeKey(k, w)
      PROVE  PromptFollowsBilling'
  <2>1. /\ callState' = [c \in Calls |-> IF c \in PendingOf(k) THEN "charged" ELSE callState[c]]
        /\ input' = [c \in Calls |-> IF c \in PendingOf(k) /\ input[c] # "none"
                                     THEN "visible" ELSE input[c]]
    BY <1>3 DEF RevokeKey
  <2> QED
    BY <1>1, <2>1 DEF PromptFollowsBilling, PendingOf, TypeOK
<1>4. ASSUME NEW c \in Calls, NEW m \in Months, Reserve(c, m)
      PROVE  PromptFollowsBilling'
  <2>1. /\ callState' = [callState EXCEPT ![c] = "pending"]
        /\ input' = [input EXCEPT ![c] = IF c \in Prompted THEN "hidden" ELSE "none"]
    BY <1>4 DEF Reserve
  <2> QED
    BY <1>1, <2>1 DEF PromptFollowsBilling, TypeOK
<1>5. ASSUME NEW c \in Calls, NEW success \in BOOLEAN, Finalize(c, success)
      PROVE  PromptFollowsBilling'
  <2>1. CASE callState[c] # "pending"
    BY <1>1, <1>5, <2>1 DEF PromptFollowsBilling, Finalize
  <2>2. CASE callState[c] = "pending"
    <3>1. /\ callState' = [callState EXCEPT ![c] = IF success THEN "charged" ELSE "failed"]
          /\ input' = [input EXCEPT ![c] = IF success /\ input[c] # "none" THEN "visible"
                                           ELSE "none"]
      BY <1>1, <1>5, <2>2 DEF Finalize, TypeOK
    <3> QED
      BY <1>1, <2>2, <3>1 DEF PromptFollowsBilling, TypeOK
  <2> QED
    BY <2>1, <2>2
<1>6. CASE BooksAside
  BY <1>2, <1>6 DEF BooksAside
<1>7. ASSUME \/ \E k \in Keys, q \in Quotas, m \in Months :
                   ApproveKey(k, q, m) \/ UpdateKeyQuota(k, q, m)
             \/ \E p \in Projects, q \in Quotas, m \in Months : UpdateProjectQuota(p, q, m)
             \/ EnsureCommit
      PROVE  UNCHANGED <<callState, input>>
  <2>1. ASSUME NEW k \in Keys, NEW q \in Quotas, NEW m \in Months,
               ApproveKey(k, q, m) \/ UpdateKeyQuota(k, q, m)
        PROVE  UNCHANGED callVars
    BY <2>1 DEF ApproveKey, UpdateKeyQuota
  <2>2. ASSUME NEW p \in Projects, NEW q \in Quotas, NEW m \in Months,
               UpdateProjectQuota(p, q, m)
        PROVE  UNCHANGED callVars
    BY <2>2 DEF UpdateProjectQuota
  <2>3. CASE EnsureCommit
    BY <2>3 DEF EnsureCommit, callVars
  <2> QED
    BY <1>7, <2>1, <2>2, <2>3 DEF callVars
<1> QED
  BY <1>2, <1>3, <1>4, <1>5, <1>6, <1>7, StepCases

-------------------------------------------------------------------------------
(* What a step does to the quotas a project hands out *)

\* A project's live quotas only change with its keys.
LEMMA LiveQuotaKept ==
    ASSUME NEW p \in Projects,
           \A k \in Keys : ProjectOf[k] = p =>
                (Live(k)' <=> Live(k)) /\ (Live(k) => keyQuota'[k] = keyQuota[k])
    PROVE  LiveQuota(p)' = LiveQuota(p)
<1>1. LiveKeys(p)' = LiveKeys(p)
  BY DEF LiveKeys
<1>2. \A k \in LiveKeys(p) : keyQuota'[k] = keyQuota[k]
  BY DEF LiveKeys
<1>3. SumOver(keyQuota', LiveKeys(p)) = SumOver(keyQuota, LiveKeys(p))
  BY <1>2, SumOverAgree
<1> QED
  BY <1>1, <1>3 DEF LiveQuota

\* So does what its revoked keys have spent.
LEMMA RevokedChargeKept ==
    ASSUME NEW p \in Projects, NEW m \in Months,
           \A k \in Keys : ProjectOf[k] = p =>
                /\ keyStatus'[k] = "revoked" <=> keyStatus[k] = "revoked"
                /\ keyStatus[k] = "revoked" =>
                        keyBucket'[k][m].charged = keyBucket[k][m].charged
    PROVE  RevokedCharge(p, m)' = RevokedCharge(p, m)
<1> DEFINE f == [k \in Keys |-> keyBucket[k][m].charged]
           R == {k \in Keys : ProjectOf[k] = p /\ keyStatus[k] = "revoked"}
           g == [k \in Keys |-> keyBucket'[k][m].charged]
<1>1. R' = R /\ f' = g
  OBVIOUS
<1>2. \A k \in R : f[k] = g[k]
  OBVIOUS
<1>3. SumOver(f, R) = SumOver(g, R)
  <2> HIDE DEF f, g, R
  <2> QED
    BY <1>2, SumOverAgree
<1>4. RevokedCharge(p, m)' = SumOver(f', R')
  BY DEF RevokedCharge
<1>5. RevokedCharge(p, m) = SumOver(f, R)
  BY DEF RevokedCharge
<1> HIDE DEF f, g, R
<1> QED
  BY <1>1, <1>3, <1>4, <1>5

\* What key k counts for in its project's live quotas.
QuotaOf(k) == IF Live(k) THEN keyQuota[k] ELSE 0

\* One key's quota or status is changed: its project hands out the difference.
LEMMA LiveQuotaMoves ==
    ASSUME TypeOK, TypeOK', NEW k \in Keys,
           \A k1 \in Keys \ {k} : (Live(k1)' <=> Live(k1)) /\ keyQuota'[k1] = keyQuota[k1]
    PROVE  LiveQuota(ProjectOf[k])' = (LiveQuota(ProjectOf[k]) - QuotaOf(k)) + QuotaOf(k)'
<1> DEFINE p == ProjectOf[k]
           R == LiveKeys(p) \ {k}
<1>1. p \in Projects
  BY LedgerAssumption
<1>2. /\ R \in SUBSET Keys
      /\ \A x \in R \cup {k} : keyQuota[x] \in Nat /\ keyQuota'[x] \in Nat
      /\ \A x \in R : keyQuota'[x] = keyQuota[x]
  BY DEF LiveKeys, TypeOK
<1>3. IsFiniteSet(R) /\ SumOver(keyQuota, R) \in Nat
  BY <1>2, KeySums
<1>4. LiveKeys(p) = IF Live(k) THEN R \cup {k} ELSE R
  BY DEF LiveKeys
<1>5. LiveKeys(p)' = IF Live(k)' THEN R \cup {k} ELSE R
  BY DEF LiveKeys
<1>6. k \notin R
  OBVIOUS
<1> HIDE DEF R, p
<1>7. SumOver(keyQuota, R \cup {k}) = SumOver(keyQuota, R) + keyQuota[k]
  BY <1>2, <1>3, <1>6, SumOverAdd
<1>8. SumOver(keyQuota', R \cup {k}) = SumOver(keyQuota', R) + keyQuota'[k]
  BY <1>2, <1>3, <1>6, SumOverAdd
<1>9. SumOver(keyQuota', R) = SumOver(keyQuota, R)
  BY <1>2, SumOverAgree
<1>10. LiveQuota(p) = SumOver(keyQuota, R) + QuotaOf(k)
  BY <1>3, <1>4, <1>7 DEF LiveQuota, QuotaOf
<1>11. LiveQuota(p)' = SumOver(keyQuota, R) + QuotaOf(k)'
  BY <1>3, <1>5, <1>8, <1>9 DEF LiveQuota, QuotaOf
<1>12. QuotaOf(k) \in Nat /\ QuotaOf(k)' \in Nat
  BY DEF QuotaOf, TypeOK
<1> QED
  BY <1>3, <1>10, <1>11, <1>12 DEF p

\* The revoked key's charge of the month joins those of its project's.
LEMMA RevokedChargeGrows ==
    ASSUME TypeOK, TypeOK', NEW k \in Keys, NEW m \in Months,
           keyStatus[k] # "revoked", keyStatus'[k] = "revoked",
           \A k1 \in Keys \ {k} :
                keyStatus'[k1] = keyStatus[k1] /\ keyBucket'[k1] = keyBucket[k1]
    PROVE  RevokedCharge(ProjectOf[k], m)' =
                RevokedCharge(ProjectOf[k], m) + keyBucket'[k][m].charged
<1> DEFINE p == ProjectOf[k]
           f == [x \in Keys |-> keyBucket[x][m].charged]
           g == [x \in Keys |-> keyBucket'[x][m].charged]
           R == {x \in Keys : ProjectOf[x] = p /\ keyStatus[x] = "revoked"}
<1>1. /\ R \in SUBSET Keys /\ k \notin R
      /\ \A x \in R \cup {k} : g[x] \in Nat
      /\ \A x \in R : f[x] = g[x]
      /\ g[k] = keyBucket'[k][m].charged
  <2>1. \A x \in Keys : keyBucket'[x][m] \in KeyBucket
    BY DEF TypeOK
  <2>2. \A x \in Keys : g[x] \in Nat
    BY <2>1 DEF KeyBucket
  <2>3. R \in SUBSET Keys /\ k \notin R
    OBVIOUS
  <2>4. \A x \in R : f[x] = g[x]
    BY <2>3
  <2> QED
    BY <2>2, <2>3, <2>4
<1>2. RevokedCharge(p, m) = SumOver(f, R)
  BY DEF RevokedCharge
<1>3. RevokedCharge(p, m)' = SumOver(g, R \cup {k})
  <2>1. {x \in Keys : ProjectOf[x] = p /\ keyStatus'[x] = "revoked"} = R \cup {k}
    BY DEF TypeOK
  <2>2. RevokedCharge(p, m)' = SumOver([x \in Keys |-> keyBucket'[x][m].charged],
                {x \in Keys : ProjectOf[x] = p /\ keyStatus'[x] = "revoked"})
    BY DEF RevokedCharge
  <2>3. g = [x \in Keys |-> keyBucket'[x][m].charged]
    OBVIOUS
  <2> HIDE DEF g, R
  <2> QED
    BY <2>1, <2>2, <2>3
<1> HIDE DEF f, g, R
<1>4. IsFiniteSet(R)
  BY <1>1, KeySums
<1>5. SumOver(g, R \cup {k}) = SumOver(g, R) + g[k]
  BY <1>1, <1>4, SumOverAdd
<1>6. SumOver(f, R) = SumOver(g, R)
  BY <1>1, SumOverAgree
<1> QED
  BY <1>1, <1>2, <1>3, <1>5, <1>6

\* A quota operation on p that has worked in month w is done: its project is free, and no other
\* is touched.
Worked(p, w) ==
    /\ w = Now(p) /\ p \notin LockedByEnsure /\ month' = month
    /\ opMonth'[p] = Free /\ Now(p)' = month
    /\ \A r \in Projects : r # p => opMonth'[r] = opMonth[r] /\ Now(r)' = Now(r)
    /\ overtaken \subseteq overtaken' /\ outdated' = outdated

\* The quota operations end so.
LEMMA WorkedStep ==
    ASSUME TypeOK, NEW p \in Projects, NEW w \in Months, Works(p, w), Commits(p),
           UNCHANGED month, Overtakes(p, w) \/ UNCHANGED <<overtaken, outdated>>
    PROVE  Worked(p, w)
<1>1. overtaken \subseteq overtaken' /\ outdated' = outdated
  BY DEF Overtakes
<1>2. /\ opMonth'[p] = Free /\ Now(p)' = month
      /\ \A r \in Projects : r # p => opMonth'[r] = opMonth[r] /\ Now(r)' = Now(r)
  BY CommitFrees
<1> QED
  BY <1>1, <1>2 DEF Worked, Works

\* A new quota of key k opens both buckets of the month worked in, sets the key's to the quota
\* and moves the project's allocation by as much as its live quotas, within its own.
QuotaMoved(k, w) ==
    LET p == ProjectOf[k]
    IN  /\ p \in Projects /\ Worked(p, w) /\ Overtakes(p, w)
        /\ UNCHANGED <<month, projectQuota, ensure, callState, callMonth>>
        /\ \A r \in Projects, m \in Months : ~(r = p /\ m = w) =>
                 projectBucket'[r][m] = projectBucket[r][m]
        /\ \A k1 \in Keys, m \in Months : ~(k1 = k /\ m = w) =>
                 keyBucket'[k1][m] = keyBucket[k1][m]
        /\ projectBucket'[p][w].open
        /\ <<p, w>> \notin outdated =>
             /\ projectBucket'[p][w].quota = projectQuota[p]
             /\ projectBucket'[p][w].allocated >= LiveQuota(p)' + RevokedCharge(p, w)'
             /\ LiveQuota(p)' <= projectQuota[p]
        /\ keyBucket'[k][w].open
        /\ keyBucket'[k][w].quota = keyQuota'[k]
        /\ \A r \in Projects : /\ r # p => LiveQuota(r)' = LiveQuota(r)
                               /\ RevokedCharge(r, w)' = RevokedCharge(r, w)
        /\ \A k1 \in Keys \ {k} : (Live(k1)' <=> Live(k1)) /\ keyQuota'[k1] = keyQuota[k1]

\* So do ApproveKey and UpdateKeyQuota.
LEMMA QuotaEffect ==
    ASSUME LedgerInv, TypeOK', NEW k \in Keys, NEW q \in Quotas, NEW w \in Months,
           ApproveKey(k, q, w) \/ UpdateKeyQuota(k, q, w)
    PROVE  QuotaMoved(k, w)
<1> DEFINE p == ProjectOf[k]
           b == OpenedProjectBucket(p, w)
           d == OpenedKeyBucket(k, w)
           kb == keyBucket[k][w]
           old == QuotaOf(k)
<1>1. TypeOK
  BY DEF LedgerInv
<1>2. p \in Projects /\ q \in Nat /\ old \in Nat
  BY <1>1, LedgerAssumption DEF TypeOK, QuotaOf
<1>3. /\ UNCHANGED <<month, projectQuota, ensure, callState, callMonth>>
       /\ Works(p, w) /\ Commits(p) /\ Overtakes(p, w)
       /\ keyQuota' = [keyQuota EXCEPT ![k] = q]
  BY DEF ApproveKey, UpdateKeyQuota, callVars
<1>4. /\ UNCHANGED <<month, projectQuota, ensure, callState, callMonth>>
      /\ Worked(p, w) /\ Overtakes(p, w) /\ w = Now(p)
      /\ keyQuota' = [keyQuota EXCEPT ![k] = q]
  BY <1>1, <1>2, <1>3, WorkedStep DEF Works
<1>5. /\ b \in ProjectBucket /\ b.open
      /\ <<p, w>> \notin outdated => /\ b.quota = projectQuota[p]
                                   /\ b.allocated >= LiveQuota(p) + RevokedCharge(p, w)
      /\ d \in KeyBucket /\ d.open /\ d.charged = kb.charged
  BY <1>2, <1>4, OpenedProject, OpenedKey
<1>6. LiveQuota(p) \in Nat /\ RevokedCharge(p, w) \in Nat /\ kb \in KeyBucket
  BY <1>1, <1>2, KeySumsNat DEF TypeOK
<1> HIDE DEF b, d, old
<1>7. /\ projectBucket' = [projectBucket EXCEPT ![p][w] =
                                [b EXCEPT !.allocated = (b.allocated + q) - old]]
      /\ b.allocated + q <= b.quota + old
      /\ \/ keyBucket' = [keyBucket EXCEPT ![k][w] = [kb EXCEPT !.open = TRUE, !.quota = q]]
         \/ keyBucket' = [keyBucket EXCEPT ![k][w] = [d EXCEPT !.quota = q]]
  <2>1. CASE ApproveKey(k, q, w)
    <3>1. old = 0
      BY <2>1 DEF ApproveKey, old, QuotaOf, Live
    <3>2. /\ projectBucket' = [projectBucket EXCEPT ![p][w] =
                                [b EXCEPT !.allocated = b.allocated + q]]
          /\ b.allocated + q <= b.quota
          /\ keyBucket' = [keyBucket EXCEPT ![k][w] = [kb EXCEPT !.open = TRUE, !.quota = q]]
      <4>1. [b EXCEPT !.allocated = @ + q] = [b EXCEPT !.allocated = b.allocated + q]
        BY <1>5 DEF ProjectBucket
      <4> QED
        BY <1>1, <1>2, <2>1, <4>1 DEF ApproveKey, b, TypeOK
    <3>3. (b.allocated + q) - 0 = b.allocated + q /\ b.quota + 0 = b.quota
      BY <1>2, <1>5 DEF ProjectBucket
    <3> QED
      BY <3>1, <3>2, <3>3
  <2>2. CASE UpdateKeyQuota(k, q, w)
    <3>1. old = keyQuota[k]
      BY <2>2 DEF UpdateKeyQuota, old, QuotaOf
    <3>2. [b EXCEPT !.allocated = (@ + q) - keyQuota[k]]
            = [b EXCEPT !.allocated = (b.allocated + q) - keyQuota[k]]
      BY <1>5 DEF ProjectBucket
    <3> QED
      BY <2>2, <3>1, <3>2 DEF UpdateKeyQuota, b, d
  <2> QED
    BY <2>1, <2>2
<1> DEFINE n == (b.allocated + q) - old
           e == [b EXCEPT !.allocated = n]
<1> HIDE DEF n
<1>8. e.open = b.open /\ e.quota = b.quota /\ e.allocated = n
  BY <1>5 DEF ProjectBucket
<1> HIDE DEF e, p
<1>9. projectBucket' = [projectBucket EXCEPT ![p][w] = e]
  BY <1>7 DEF e, n
<1>10. /\ projectBucket'[p][w] = e
      /\ \A r \in Projects, m \in Months : ~(r = p /\ m = w) =>
                projectBucket'[r][m] = projectBucket[r][m]
  BY <1>1, <1>2, <1>9 DEF TypeOK
<1>11. /\ [kb EXCEPT !.open = TRUE, !.quota = q].open
       /\ [kb EXCEPT !.open = TRUE, !.quota = q].quota = q
       /\ [kb EXCEPT !.open = TRUE, !.quota = q].charged = kb.charged
       /\ [d EXCEPT !.quota = q].open = d.open
       /\ [d EXCEPT !.quota = q].quota = q
       /\ [d EXCEPT !.quota = q].charged = d.charged
  BY <1>5, <1>6 DEF KeyBucket
<1>12. /\ \A k1 \in Keys, m \in Months : ~(k1 = k /\ m = w) =>
                keyBucket'[k1][m] = keyBucket[k1][m]
       /\ keyBucket'[k][w] = [kb EXCEPT !.open = TRUE, !.quota = q]
          \/ keyBucket'[k][w] = [d EXCEPT !.quota = q]
  <2> DEFINE x == [kb EXCEPT !.open = TRUE, !.quota = q]
             y == [d EXCEPT !.quota = q]
  <2>1. \/ keyBucket' = [keyBucket EXCEPT ![k][w] = x]
        \/ keyBucket' = [keyBucket EXCEPT ![k][w] = y]
    BY <1>7
  <2> HIDE DEF x, y, d, kb
  <2>2. /\ \A k1 \in Keys, m \in Months : ~(k1 = k /\ m = w) =>
                keyBucket'[k1][m] = keyBucket[k1][m]
        /\ keyBucket'[k][w] = x \/ keyBucket'[k][w] = y
    BY <1>1, <1>2, <2>1 DEF TypeOK
  <2> QED
    BY <2>2 DEF x, y
<1>13. /\ keyBucket'[k][w].open
       /\ keyBucket'[k][w].quota = q
       /\ keyBucket'[k][w].charged = kb.charged
  BY <1>5, <1>11, <1>12
<1>14. /\ Live(k)' /\ keyQuota'[k] = q /\ keyStatus[k] # "revoked" /\ keyStatus'[k] # "revoked"
       /\ \A k1 \in Keys \ {k} : /\ keyStatus'[k1] = keyStatus[k1]
                                 /\ keyQuota'[k1] = keyQuota[k1]
  BY <1>1, <1>4 DEF ApproveKey, UpdateKeyQuota, Live, TypeOK
<1>15. \A k1 \in Keys \ {k} : (Live(k1)' <=> Live(k1)) /\ keyQuota'[k1] = keyQuota[k1]
  BY <1>14 DEF Live
<1>16. LiveQuota(p)' = (LiveQuota(p) - old) + q
  <2>1. QuotaOf(k)' = q
    BY <1>14 DEF QuotaOf
  <2> QED
    BY <1>1, <1>15, <2>1, LiveQuotaMoves DEF old, p
<1>17. ASSUME NEW r \in Projects
       PROVE  /\ r # p => LiveQuota(r)' = LiveQuota(r)
              /\ RevokedCharge(r, w)' = RevokedCharge(r, w)
  <2>1. ASSUME r # p
        PROVE  LiveQuota(r)' = LiveQuota(r)
    BY <1>15, <2>1, LiveQuotaKept DEF p
  <2>2. \A k1 \in Keys : /\ keyStatus'[k1] = "revoked" <=> keyStatus[k1] = "revoked"
                         /\ keyBucket'[k1][w].charged = keyBucket[k1][w].charged
    BY <1>2, <1>12, <1>13, <1>14
  <2>3. RevokedCharge(r, w)' = RevokedCharge(r, w)
    BY <2>2, RevokedChargeKept
  <2> QED
    BY <2>1, <2>3
<1>18. b.allocated \in Nat /\ b.quota \in Nat
  BY <1>5 DEF ProjectBucket
<1>19. ASSUME <<p, w>> \notin outdated
       PROVE  n >= LiveQuota(p)' + RevokedCharge(p, w)' /\ LiveQuota(p)' <= projectQuota[p]
  <2>1. RevokedCharge(p, w)' = RevokedCharge(p, w)
    BY <1>2, <1>17
  <2> HIDE DEF n
  <2> QED
    BY <1>2, <1>5, <1>6, <1>7, <1>16, <1>18, <1>19, <2>1 DEF n
<1> QED
  BY <1>2, <1>5, <1>4, <1>8, <1>10, <1>12, <1>13, <1>14, <1>15, <1>17, <1>19 DEF p, QuotaMoved

\* A project's live quotas are part of what its keys commit it to.
LEMMA CommitmentCovers ==
    ASSUME LedgerInv, NEW p \in Projects
    PROVE  LiveQuota(p) <= Commitment(p, Now(p))
<1> DEFINE w == Now(p)
           f == [k \in Keys |-> CommitmentOf(k, w)]
           K == {k \in Keys : ProjectOf[k] = p}
           L == LiveKeys(p)
<1>1. TypeOK /\ WorkedBucketsFollow /\ w \in Months
  BY WorkedMonth DEF LedgerInv
<1>2. L \subseteq K /\ K \in SUBSET Keys /\ L \in SUBSET Keys
  BY DEF LiveKeys
<1>3. ASSUME NEW k \in Keys
      PROVE  /\ f[k] \in Nat /\ keyQuota[k] \in Nat
             /\ Live(k) /\ k \in K => keyQuota[k] <= f[k]
  <2> DEFINE d == keyBucket[k][w]
             x == IF d.open THEN d.quota ELSE keyQuota[k]
  <2>1. d \in KeyBucket /\ keyQuota[k] \in Nat
    BY <1>1 DEF TypeOK
  <2>2. /\ x \in Nat /\ d.charged \in Nat /\ d.charged + d.pending \in Nat
        /\ Live(k) /\ k \in K => x = keyQuota[k]
    BY <1>1, <2>1 DEF KeyBucket, WorkedBucketsFollow
  <2>3. f[k] = IF Live(k) THEN Larger(x, d.charged + d.pending)
               ELSE IF keyStatus[k] = "revoked" THEN d.charged ELSE 0
    BY DEF CommitmentOf
  <2> HIDE DEF f, x, d, K
  <2> QED
    BY <2>1, <2>2, <2>3 DEF Larger
<1> HIDE DEF f, w
<1>4. \A k \in L : f[k] \in Nat /\ keyQuota[k] \in Nat /\ keyQuota[k] <= f[k]
  BY <1>3 DEF LiveKeys
<1> HIDE DEF K
<1>5. IsFiniteSet(L) /\ SumOver(keyQuota, L) \in Nat /\ SumOver(f, L) \in Nat
  BY <1>2, <1>4, KeySums
<1>6. SumOver(keyQuota, L) <= SumOver(f, L)
  BY <1>4, <1>5, SumOverPointwise
<1>7. IsFiniteSet(K) /\ SumOver(f, K) \in Nat /\ \A k \in K : f[k] \in Nat
  BY <1>2, <1>3, KeySums
<1>8. SumOver(f, L) <= SumOver(f, K)
  BY <1>2, <1>7, SumOverMonotone
<1> QED
  BY <1>5, <1>6, <1>7, <1>8 DEF LiveQuota, Commitment, f, K, w

\* A new quota of project p opens its bucket of the month worked in and sets it, above the live
\* quotas.
ProjectQuotaMoved(p, w) ==
    /\ Worked(p, w) /\ Overtakes(p, w)
    /\ UNCHANGED <<month, keyStatus, keyQuota, ensure, callState, callMonth, keyBucket>>
    /\ \A r \in Projects, m \in Months : ~(r = p /\ m = w) =>
             projectBucket'[r][m] = projectBucket[r][m]
    /\ projectBucket'[p][w].open
    /\ projectBucket'[p][w].quota = projectQuota'[p]
    /\ <<p, w>> \notin outdated =>
         projectBucket'[p][w].allocated >= LiveQuota(p) + RevokedCharge(p, w)
    /\ LiveQuota(p) <= projectQuota'[p]
    /\ \A r \in Projects : /\ r # p => projectQuota'[r] = projectQuota[r]
                           /\ LiveQuota(r)' = LiveQuota(r)
                           /\ RevokedCharge(r, w)' = RevokedCharge(r, w)

\* So does UpdateProjectQuota.
LEMMA ProjectQuotaEffect ==
    ASSUME LedgerInv, NEW p \in Projects, NEW q \in Quotas, NEW w \in Months,
           UpdateProjectQuota(p, q, w)
    PROVE  ProjectQuotaMoved(p, w)
<1> DEFINE b == OpenedProjectBucket(p, w)
<1>1. TypeOK
  BY DEF LedgerInv
<1>2. q \in Nat
  BY LedgerAssumption
<1>3. /\ UNCHANGED <<month, keyStatus, keyQuota, ensure, callState, callMonth, keyBucket>>
      /\ Works(p, w) /\ Commits(p) /\ Overtakes(p, w) /\ w = Now(p)
      /\ q >= Commitment(p, w)
      /\ projectQuota' = [projectQuota EXCEPT ![p] = q]
  BY DEF UpdateProjectQuota, callVars, Works
<1>4. Worked(p, w)
  BY <1>1, <1>3, WorkedStep
<1>5. /\ b \in ProjectBucket /\ b.open
      /\ <<p, w>> \notin outdated => b.allocated >= LiveQuota(p) + RevokedCharge(p, w)
  BY <1>3, OpenedProject
<1> HIDE DEF b
<1>6. projectBucket' = [projectBucket EXCEPT ![p][w] = [b EXCEPT !.quota = q]]
  BY DEF UpdateProjectQuota, b
<1> DEFINE e == [b EXCEPT !.quota = q]
<1>7. e.open = b.open /\ e.quota = q /\ e.allocated = b.allocated
  BY <1>5 DEF ProjectBucket
<1> HIDE DEF e
<1>8. /\ projectBucket'[p][w] = e
      /\ \A r \in Projects, m \in Months : ~(r = p /\ m = w) =>
                projectBucket'[r][m] = projectBucket[r][m]
  BY <1>1, <1>2, <1>6 DEF TypeOK, e
<1>9. ASSUME NEW r \in Projects
      PROVE  LiveQuota(r)' = LiveQuota(r) /\ RevokedCharge(r, w)' = RevokedCharge(r, w)
  BY <1>3, LiveQuotaKept, RevokedChargeKept DEF Live
<1>10. LiveQuota(p) <= q
  <2>1. LiveQuota(p) <= Commitment(p, w) /\ LiveQuota(p) \in Nat
    BY <1>1, <1>3, CommitmentCovers, KeySumsNat
  <2>2. Commitment(p, w) \in Nat
    <3> DEFINE f == [k \in Keys |-> CommitmentOf(k, w)]
    <3>1. \A k \in Keys : keyBucket[k][w] \in KeyBucket /\ keyQuota[k] \in Nat
      BY <1>1 DEF TypeOK
    <3>2. \A k \in Keys : f[k] \in Nat
      BY <3>1 DEF CommitmentOf, KeyBucket, Larger
    <3> HIDE DEF f
    <3>3. SumOver(f, {k \in Keys : ProjectOf[k] = p}) \in Nat
      BY <3>2, KeySums
    <3> QED
      BY <3>3 DEF Commitment, f
  <2> QED
    BY <1>2, <1>3, <2>1, <2>2
<1>11. projectQuota'[p] = q /\ \A r \in Projects : r # p => projectQuota'[r] = projectQuota[r]
  BY <1>1, <1>3 DEF TypeOK
<1> QED
  BY <1>2, <1>5, <1>3, <1>7, <1>8, <1>9, <1>10, <1>11, <1>4 DEF ProjectQuotaMoved

\* A reservation opens both buckets of its month and leaves quotas and allocations alone.
LEMMA ReserveEffect ==
    ASSUME LedgerInv, NEW c \in Calls, NEW m \in Months, Reserve(c, m)
    PROVE  LET k == KeyOf[c]
               p == ProjectOf[k]
           IN  /\ k \in Keys /\ p \in Projects /\ p \notin LockedByEnsure
               /\ opMonth[p] = Free /\ m <= month /\ callState[c] = "unused"
               /\ UNCHANGED <<month, quotaVars, ensure, opVars>>
               /\ callState' = [callState EXCEPT ![c] = "pending"]
               /\ callMonth' = [callMonth EXCEPT ![c] = m]
               /\ Live(k)
               /\ \A r \in Projects, x \in Months : ~(r = p /\ x = m) =>
                        projectBucket'[r][x] = projectBucket[r][x]
               /\ \A k1 \in Keys, x \in Months : ~(k1 = k /\ x = m) =>
                        keyBucket'[k1][x] = keyBucket[k1][x]
               /\ projectBucket'[p][m].open /\ keyBucket'[k][m].open
               /\ m = month /\ <<p, m>> \notin outdated =>
                    /\ projectBucket'[p][m].quota = projectQuota[p]
                    /\ projectBucket'[p][m].allocated >= LiveQuota(p) + RevokedCharge(p, m)
               /\ m = month => keyBucket'[k][m].quota = keyQuota[k]
               /\ \A r \in Projects : LiveQuota(r)' = LiveQuota(r)
               /\ \A r \in Projects, x \in Months : RevokedCharge(r, x)' = RevokedCharge(r, x)
<1> DEFINE k == KeyOf[c]
           p == ProjectOf[k]
           b == OpenedProjectBucket(p, m)
           d == OpenedKeyBucket(k, m)
           n == CreditOf[c]
<1>1. TypeOK
  BY DEF LedgerInv
<1>2. k \in Keys /\ p \in Projects /\ n \in Nat /\ month \in Months
  BY <1>1, LedgerAssumption DEF TypeOK
<1>3. /\ m \in {month - 1, month} /\ p \notin LockedByEnsure /\ opMonth[p] = Free
      /\ callState[c] = "unused" /\ Now(p) = month
      /\ keyStatus[k] = "active"
      /\ UNCHANGED <<month, quotaVars, ensure, opVars>>
      /\ callState' = [callState EXCEPT ![c] = "pending"]
      /\ callMonth' = [callMonth EXCEPT ![c] = m]
  BY DEF Reserve, Lockable, Now
<1>4. m <= month
  BY <1>2, <1>3, LedgerAssumption DEF Months
<1>5. Live(k)
  BY <1>3 DEF Live
<1>6. /\ b \in ProjectBucket /\ b.open /\ d \in KeyBucket /\ d.open
      /\ d.charged = keyBucket[k][m].charged
      /\ m = month /\ <<p, m>> \notin outdated =>
            b.quota = projectQuota[p] /\ b.allocated >= LiveQuota(p) + RevokedCharge(p, m)
      /\ m = month => d.quota = keyQuota[k]
  BY <1>2, <1>3, <1>5, OpenedProject, OpenedKey
<1> HIDE DEF b, d, n
<1>7. /\ projectBucket' = [projectBucket EXCEPT ![p][m] = Held(b, n)]
      /\ keyBucket' = [keyBucket EXCEPT ![k][m] = Held(d, n)]
  BY DEF Reserve, b, d, n
<1>8. /\ Held(b, n).open = b.open /\ Held(b, n).quota = b.quota
      /\ Held(b, n).allocated = b.allocated
      /\ Held(d, n).open = d.open /\ Held(d, n).quota = d.quota
      /\ Held(d, n).charged = d.charged
  BY <1>6 DEF Held, ProjectBucket, KeyBucket
<1> HIDE DEF k, p
<1>9. /\ projectBucket'[p][m] = Held(b, n)
      /\ keyBucket'[k][m] = Held(d, n)
      /\ \A r \in Projects, x \in Months : ~(r = p /\ x = m) =>
                projectBucket'[r][x] = projectBucket[r][x]
      /\ \A k1 \in Keys, x \in Months : ~(k1 = k /\ x = m) =>
                keyBucket'[k1][x] = keyBucket[k1][x]
  BY <1>1, <1>2, <1>7 DEF TypeOK
<1>10. ASSUME NEW r \in Projects, NEW x \in Months
       PROVE  LiveQuota(r)' = LiveQuota(r) /\ RevokedCharge(r, x)' = RevokedCharge(r, x)
  <2>1. \A k1 \in Keys : keyBucket'[k1][x].charged = keyBucket[k1][x].charged
    BY <1>2, <1>6, <1>8, <1>9
  <2>2. keyStatus' = keyStatus /\ keyQuota' = keyQuota
    BY <1>3 DEF quotaVars
  <2> QED
    BY <2>1, <2>2, LiveQuotaKept, RevokedChargeKept DEF Live
<1> QED
  BY <1>2, <1>3, <1>4, <1>5, <1>6, <1>8, <1>9, <1>10 DEF k, p

\* Settling a call neither opens a bucket nor touches a quota, an allocation or what a
\* revoked key has spent.
LEMMA FinalizeEffect ==
    ASSUME LedgerInv, NEW c \in Calls, NEW success \in BOOLEAN, Finalize(c, success),
           UNCHANGED <<month, quotaVars, opVars>>
    PROVE  /\ \A r \in Projects, m \in Months :
                    /\ projectBucket'[r][m].open = projectBucket[r][m].open
                    /\ projectBucket'[r][m].quota = projectBucket[r][m].quota
                    /\ projectBucket'[r][m].allocated = projectBucket[r][m].allocated
                    /\ ~projectBucket[r][m].open => projectBucket'[r][m] = projectBucket[r][m]
           /\ \A k \in Keys, m \in Months :
                    /\ keyBucket'[k][m].open = keyBucket[k][m].open
                    /\ keyBucket'[k][m].quota = keyBucket[k][m].quota
                    /\ ~keyBucket[k][m].open => keyBucket'[k][m] = keyBucket[k][m]
           /\ callMonth' = callMonth
           /\ \A x \in Calls : callState'[x] # "unused" => callState[x] # "unused"
           /\ \A r \in Projects : LiveQuota(r)' = LiveQuota(r) /\ Now(r)' = Now(r)
           /\ \A r \in Projects, m \in Months : RevokedCharge(r, m)' = RevokedCharge(r, m)
<1> DEFINE k == KeyOf[c]
           p == ProjectOf[k]
           m == callMonth[c]
           n == CreditOf[c]
<1>1. TypeOK /\ OpenBuckets /\ PendingCallHasActiveKey
  BY DEF LedgerInv
<1>2. k \in Keys /\ p \in Projects /\ m \in Months /\ n \in Nat /\ month \in Months
  BY <1>1, LedgerAssumption DEF TypeOK
<1>3. keyStatus' = keyStatus /\ keyQuota' = keyQuota /\ month' = month /\ opMonth' = opMonth
  BY DEF quotaVars, opVars
<1>4. \A r \in Projects : LiveQuota(r)' = LiveQuota(r) /\ Now(r)' = Now(r)
  BY <1>3, LiveQuotaKept DEF Live, Now
<1>5. CASE callState[c] # "pending"
  <2>1. UNCHANGED <<callState, callMonth, projectBucket, keyBucket>>
    BY <1>5 DEF Finalize, bookVars
  <2>2. \A r \in Projects, x \in Months : RevokedCharge(r, x)' = RevokedCharge(r, x)
    BY <1>3, <2>1, RevokedChargeKept
  <2> QED
    BY <1>4, <2>1, <2>2
<1>6. CASE callState[c] = "pending"
  <2> DEFINE b  == projectBucket[p][m]
             d  == keyBucket[k][m]
             b1 == Settled(b, n, success)
             d1 == Settled(d, n, success)
  <2>1. /\ projectBucket' = [projectBucket EXCEPT ![p][m] = b1]
        /\ keyBucket' = [keyBucket EXCEPT ![k][m] = d1]
        /\ callMonth' = callMonth
        /\ callState' = [callState EXCEPT ![c] = IF success THEN "charged" ELSE "failed"]
    BY <1>1, <1>2, <1>6 DEF Finalize, TypeOK
  <2>2. b \in ProjectBucket /\ d \in KeyBucket /\ b.open /\ d.open /\ keyStatus[k] = "active"
    BY <1>1, <1>2, <1>6 DEF TypeOK, OpenBuckets, PendingCallHasActiveKey
  <2> HIDE DEF b, d
  <2>3. /\ b1.open = b.open /\ b1.quota = b.quota /\ b1.allocated = b.allocated
        /\ d1.open = d.open /\ d1.quota = d.quota
    BY <2>2 DEF Settled, Moved, Released, ProjectBucket, KeyBucket
  <2> HIDE DEF b1, d1, k, p, m
  <2>4. /\ projectBucket'[p][m] = b1 /\ keyBucket'[k][m] = d1
        /\ \A r \in Projects, x \in Months : ~(r = p /\ x = m) =>
                projectBucket'[r][x] = projectBucket[r][x]
        /\ \A k1 \in Keys, x \in Months : ~(k1 = k /\ x = m) =>
                keyBucket'[k1][x] = keyBucket[k1][x]
    BY <1>1, <1>2, <2>1 DEF TypeOK
  <2>5. \A r \in Projects, x \in Months :
            /\ projectBucket'[r][x].open = projectBucket[r][x].open
            /\ projectBucket'[r][x].quota = projectBucket[r][x].quota
            /\ projectBucket'[r][x].allocated = projectBucket[r][x].allocated
            /\ ~projectBucket[r][x].open => projectBucket'[r][x] = projectBucket[r][x]
    BY <2>2, <2>3, <2>4 DEF b
  <2>6. \A k1 \in Keys, x \in Months :
            /\ keyBucket'[k1][x].open = keyBucket[k1][x].open
            /\ keyBucket'[k1][x].quota = keyBucket[k1][x].quota
            /\ ~keyBucket[k1][x].open => keyBucket'[k1][x] = keyBucket[k1][x]
    BY <2>2, <2>3, <2>4 DEF d
  <2>7. \A x \in Calls : callState'[x] # "unused" => callState[x] # "unused"
    BY <1>1, <1>6, <2>1 DEF TypeOK
  <2>8. \A r \in Projects, x \in Months : RevokedCharge(r, x)' = RevokedCharge(r, x)
    <3>1. \A k1 \in Keys, x \in Months : keyStatus[k1] = "revoked" =>
                keyBucket'[k1][x].charged = keyBucket[k1][x].charged
      BY <1>2, <2>2, <2>4
    <3> QED
      BY <1>3, <3>1, RevokedChargeKept
  <2> QED
    BY <1>4, <2>1, <2>5, <2>6, <2>7, <2>8
<1> QED
  BY <1>5, <1>6

\* A month in which the key has no bucket has no call to sweep.
LEMMA NothingSwept ==
    ASSUME LedgerInv, NEW k \in Keys, NEW m \in Months, ~keyBucket[k][m].open
    PROVE  SweptCredit(k, m) = 0
<1>1. SweptBy(k, m) = {}
  BY DEF LedgerInv, OpenBuckets, SweptBy, PendingOf
<1> QED
  BY <1>1, SumOverEmpty DEF SweptCredit

\* A revocation opens no bucket; the allocation it leaves in the month worked in covers the
\* other live keys and what the revoked ones have spent, this one included.
LEMMA RevokeEffect ==
    ASSUME LedgerInv, TypeOK', NEW k \in Keys, NEW w \in Months, RevokeKey(k, w)
    PROVE  /\ ProjectOf[k] \in Projects /\ Worked(ProjectOf[k], w)
           /\ UNCHANGED <<month, keyQuota, projectQuota, callMonth, ensure, overtaken, outdated>>
           /\ \A r \in Projects, m \in Months :
                    /\ projectBucket'[r][m].open = projectBucket[r][m].open
                    /\ projectBucket'[r][m].quota = projectBucket[r][m].quota
                    /\ ~projectBucket[r][m].open => projectBucket'[r][m] = NoProjectBucket
           /\ \A k1 \in Keys, m \in Months :
                    /\ keyBucket'[k1][m].open = keyBucket[k1][m].open
                    /\ keyBucket'[k1][m].quota = keyBucket[k1][m].quota
                    /\ ~keyBucket[k1][m].open => keyBucket'[k1][m] = NoKeyBucket
           /\ \A x \in Calls : callState'[x] # "unused" => callState[x] # "unused"
           /\ \A k1 \in Keys : Live(k1)' => Live(k1)
           /\ \A r \in Projects :
                    /\ LiveQuota(r)' <= LiveQuota(r)
                    /\ r # ProjectOf[k] =>
                            /\ projectBucket'[r] = projectBucket[r]
                            /\ \A m \in Months : RevokedCharge(r, m)' = RevokedCharge(r, m)
           /\ projectBucket[ProjectOf[k]][w].open /\ <<ProjectOf[k], w>> \notin outdated =>
                    projectBucket'[ProjectOf[k]][w].allocated >=
                            LiveQuota(ProjectOf[k])' + RevokedCharge(ProjectOf[k], w)'
<1> DEFINE p == ProjectOf[k]
<1>1. TypeOK /\ OpenBuckets /\ WorkedBucketsFollow /\ WorkedBucketsCover
  BY DEF LedgerInv
<1>2. p \in Projects /\ month \in Months /\ keyQuota[k] \in Nat
  BY <1>1, LedgerAssumption DEF TypeOK
<1>3. /\ UNCHANGED <<month, keyQuota, projectQuota, callMonth, ensure, overtaken, outdated>>
      /\ Works(p, w) /\ Commits(p) /\ w = Now(p)
      /\ keyStatus[k] = "active" /\ keyStatus'[k] = "revoked"
      /\ \A k1 \in Keys \ {k} : keyStatus'[k1] = keyStatus[k1]
      /\ callState' = [c \in Calls |-> IF c \in PendingOf(k) THEN "charged" ELSE callState[c]]
  BY <1>1 DEF RevokeKey, Works, TypeOK
<1>4. \A x \in Calls : callState'[x] # "unused" => callState[x] # "unused"
  BY <1>3 DEF PendingOf
<1>5. Live(k) /\ ~Live(k)' /\ \A k1 \in Keys \ {k} : Live(k1)' <=> Live(k1)
  BY <1>3 DEF Live
<1>6. ASSUME NEW m \in Months
      PROVE  /\ keyBucket'[k][m].open = keyBucket[k][m].open
             /\ keyBucket'[k][m].quota = keyBucket[k][m].quota
             /\ ~keyBucket[k][m].open => keyBucket'[k][m] = NoKeyBucket
  <2> DEFINE n == SweptCredit(k, m)
  <2>1. keyBucket'[k][m] = Moved(keyBucket[k][m], n) /\ n \in Nat /\ keyBucket[k][m] \in KeyBucket
    BY <1>1, RevokeCounters DEF TypeOK
  <2>2. ~keyBucket[k][m].open => n = 0 /\ keyBucket[k][m] = NoKeyBucket
    BY <1>1, NothingSwept DEF OpenBuckets
  <2> HIDE DEF n
  <2>3. /\ Moved(keyBucket[k][m], n).open = keyBucket[k][m].open
        /\ Moved(keyBucket[k][m], n).quota = keyBucket[k][m].quota
        /\ Moved(keyBucket[k][m], n).charged = keyBucket[k][m].charged + n
        /\ Moved(keyBucket[k][m], n).pending = keyBucket[k][m].pending - n
    BY <2>1 DEF Moved, KeyBucket
  <2>4. ASSUME ~keyBucket[k][m].open
        PROVE  keyBucket'[k][m] = NoKeyBucket
    <3> DEFINE e == keyBucket'[k][m]
    <3>1. e \in KeyBucket
      BY DEF TypeOK
    <3>2. e.open = FALSE /\ e.quota = 0 /\ e.charged = 0 /\ e.pending = 0
      BY <2>1, <2>2, <2>3, <2>4 DEF NoKeyBucket
    <3> HIDE DEF e
    <3>3. e = NoKeyBucket
      BY <3>1, <3>2 DEF KeyBucket, NoKeyBucket
    <3> QED
      BY <3>3 DEF e
  <2> QED
    BY <2>1, <2>3, <2>4
<1>7. ASSUME NEW m \in Months, ~projectBucket[p][m].open
      PROVE  projectBucket'[p][m] = NoProjectBucket
  <2>1. ~keyBucket[k][m].open /\ projectBucket[p][m] = NoProjectBucket
    BY <1>1, <1>2, <1>7 DEF OpenBuckets
  <2>2. SweptCredit(k, m) = 0
    BY <2>1, NothingSwept
  <2>3. ~(m = w /\ keyBucket'[k][w].open)
    BY <1>6, <2>1
  <2>4. projectBucket'[p][m] \in ProjectBucket
    BY <1>2 DEF TypeOK
  <2>5. /\ projectBucket'[p][m].open = FALSE
        /\ projectBucket'[p][m].quota = 0
        /\ projectBucket'[p][m].allocated = 0
        /\ projectBucket'[p][m].charged = 0
        /\ projectBucket'[p][m].pending = 0
    BY <2>1, <2>2, <2>3, RevokeCounters DEF NoProjectBucket
  <2> QED
    BY <2>4, <2>5 DEF ProjectBucket, NoProjectBucket
<1>8. /\ \A k1 \in Keys : k1 # k => keyBucket'[k1] = keyBucket[k1]
      /\ \A p1 \in Projects : p1 # p => projectBucket'[p1] = projectBucket[p1]
  BY <1>2, RevokeCounters
<1>9. \A r \in Projects, m \in Months :
          /\ projectBucket'[r][m].open = projectBucket[r][m].open
          /\ projectBucket'[r][m].quota = projectBucket[r][m].quota
          /\ ~projectBucket[r][m].open => projectBucket'[r][m] = NoProjectBucket
  BY <1>1, <1>7, <1>8, RevokeCounters DEF OpenBuckets
<1>10. \A k1 \in Keys, m \in Months :
          /\ keyBucket'[k1][m].open = keyBucket[k1][m].open
          /\ keyBucket'[k1][m].quota = keyBucket[k1][m].quota
          /\ ~keyBucket[k1][m].open => keyBucket'[k1][m] = NoKeyBucket
  BY <1>1, <1>6, <1>8 DEF OpenBuckets
<1>11. ASSUME NEW r \in Projects, r # p
       PROVE  /\ LiveQuota(r)' = LiveQuota(r)
              /\ \A m \in Months : RevokedCharge(r, m)' = RevokedCharge(r, m)
  BY <1>3, <1>5, <1>8, <1>11, LiveQuotaKept, RevokedChargeKept
<1>12. LiveQuota(p)' = LiveQuota(p) - keyQuota[k]
  <2>1. QuotaOf(k) = keyQuota[k] /\ QuotaOf(k)' = 0
    BY <1>5 DEF QuotaOf
  <2>2. LiveQuota(p)' = (LiveQuota(p) - QuotaOf(k)) + QuotaOf(k)'
    BY <1>1, <1>3, <1>5, LiveQuotaMoves
  <2>3. LiveQuota(p) \in Nat
    BY <1>1, <1>2, KeySumsNat
  <2> QED
    BY <1>2, <2>1, <2>2, <2>3
<1>13. RevokedCharge(p, w)' = RevokedCharge(p, w) + keyBucket'[k][w].charged
  BY <1>1, <1>3, <1>8, RevokedChargeGrows
<1>14. ASSUME projectBucket[p][w].open, <<p, w>> \notin outdated
       PROVE  projectBucket'[p][w].allocated >= LiveQuota(p)' + RevokedCharge(p, w)'
  <2> DEFINE a  == projectBucket[p][w].allocated
             d1 == keyBucket'[k][w]
             lq == LiveQuota(p)
             rc == RevokedCharge(p, w)
  <2>1. a \in Nat /\ d1 \in KeyBucket /\ lq \in Nat /\ rc \in Nat
    BY <1>1, <1>2, <1>3, KeySumsNat DEF TypeOK, ProjectBucket
  <2>2. a >= lq + rc
    BY <1>1, <1>2, <1>3, <1>14 DEF WorkedBucketsCover
  <2>3. projectBucket'[p][w].allocated =
            IF d1.open THEN Larger(a + d1.charged, d1.quota) - d1.quota ELSE a
    BY <1>2, RevokeCounters
  <2>4. keyQuota[k] <= lq
    BY <1>1, <1>5, QuotaIsLive
  <2>5. d1.open => d1.quota = keyQuota[k]
    BY <1>1, <1>2, <1>3, <1>5, <1>6 DEF WorkedBucketsFollow
  <2>6. ~d1.open => d1.charged = 0
    BY <1>2, <1>6 DEF NoKeyBucket
  <2>7. d1.charged \in Nat /\ d1.quota \in Nat
    BY <2>1 DEF KeyBucket
  <2> HIDE DEF a, d1, lq, rc
  <2> QED
    BY <1>2, <1>12, <1>13, <2>1, <2>2, <2>3, <2>4, <2>5, <2>6, <2>7 DEF Larger, d1, lq, rc
<1>15. ASSUME NEW r \in Projects
       PROVE  /\ LiveQuota(r)' <= LiveQuota(r)
              /\ r # p => /\ projectBucket'[r] = projectBucket[r]
                          /\ \A m \in Months : RevokedCharge(r, m)' = RevokedCharge(r, m)
  <2>1. LiveQuota(r) \in Nat
    BY <1>1, KeySumsNat
  <2>2. CASE r = p
    BY <1>2, <1>12, <2>1, <2>2
  <2>3. CASE r # p
    BY <1>8, <1>11, <2>1, <2>3
  <2> QED
    BY <2>2, <2>3
<1>16. Worked(p, w)
  BY <1>1, <1>2, <1>3, WorkedStep
<1> QED
  BY <1>2, <1>3, <1>4, <1>5, <1>9, <1>10, <1>14, <1>15, <1>16

\* What EnsureCurrentBuckets inserts is current or recorded as outdated, and it replaces no
\* bucket.
LEMMA EnsureEffect ==
    ASSUME LedgerInv, EnsureCommit
    PROVE  /\ UNCHANGED <<month, quotaVars, callVars, opMonth>> /\ ensure' = NoEnsure
           /\ ensure.month \in Months /\ ensure.month <= month /\ ensure.live \subseteq Keys
           /\ outdated \subseteq outdated'
           /\ \A r \in Projects, m \in Months :
                IF ~projectBucket[r][m].open /\ m = ensure.month
                THEN /\ projectBucket'[r][m].open
                     /\ opMonth[r] = Free
                     /\ m = Now(r) /\ <<r, m>> \notin outdated' =>
                            /\ projectBucket'[r][m].quota = projectQuota[r]
                            /\ projectBucket'[r][m].allocated >= LiveQuota(r)
                ELSE projectBucket'[r][m] = projectBucket[r][m]
           /\ \A k \in Keys, m \in Months :
                IF k \in ensure.live /\ ~keyBucket[k][m].open /\ m = ensure.month
                THEN /\ keyBucket'[k][m].open
                     /\ m = Now(ProjectOf[k]) /\ Live(k) => keyBucket'[k][m].quota = keyQuota[k]
                ELSE keyBucket'[k][m] = keyBucket[k][m]
           /\ \A r \in Projects : LiveQuota(r)' = LiveQuota(r) /\ Now(r)' = Now(r)
           /\ \A r \in Projects, m \in Months : RevokedCharge(r, m)' = RevokedCharge(r, m)
<1>1. TypeOK /\ OpenBuckets /\ FreshSnapshot
  BY DEF LedgerInv
<1>2. ensure.phase = "inserted"
  BY DEF EnsureCommit
<1>3. /\ ensure.month \in Months /\ ensure.month <= month /\ ensure.live \subseteq Keys
      /\ month \in Months
  BY <1>1, <1>2 DEF TypeOK, EnsureStates, NoEnsure, FreshSnapshot
<1>4. /\ UNCHANGED <<month, quotaVars, callVars, opMonth>> /\ ensure' = NoEnsure
      /\ outdated' = outdated \cup {<<p, ensure.month>> : p \in ensure.missing \cap overtaken}
  BY DEF EnsureCommit
<1>5. ASSUME NEW r \in Projects, NEW m \in Months
      PROVE  IF ~projectBucket[r][m].open /\ m = ensure.month
             THEN /\ projectBucket'[r][m].open
                  /\ opMonth[r] = Free
                  /\ m = Now(r) /\ <<r, m>> \notin outdated' =>
                        /\ projectBucket'[r][m].quota = projectQuota[r]
                        /\ projectBucket'[r][m].allocated >= LiveQuota(r)
             ELSE projectBucket'[r][m] = projectBucket[r][m]
  <2>1. /\ r \in ensure.missing <=> ~projectBucket[r][ensure.month].open
        /\ r \in ensure.missing => opMonth[r] = Free
    BY <1>1, <1>2 DEF FreshSnapshot
  <2>2. ASSUME ~projectBucket[r][m].open, m = ensure.month, m = Now(r), <<r, m>> \notin outdated'
        PROVE  ensure.quota[r] = projectQuota[r] /\ ensure.allocated[r] >= LiveQuota(r)
    <3>1. r \notin overtaken
      BY <1>4, <2>1, <2>2
    <3>2. Now(r) <= ensure.month
      BY <1>3, <2>2, LedgerAssumption DEF Months
    <3> QED
      BY <1>1, <1>2, <2>2, <3>1, <3>2 DEF FreshSnapshot
  <2>3. projectBucket'[r][m] =
            IF r \in ensure.missing /\ m = ensure.month
            THEN [open |-> TRUE, quota |-> ensure.quota[r],
                  allocated |-> ensure.allocated[r], charged |-> 0, pending |-> 0]
            ELSE projectBucket[r][m]
    BY DEF EnsureCommit
  <2> QED
    BY <2>1, <2>2, <2>3
<1>6. ASSUME NEW k \in Keys, NEW m \in Months
      PROVE  /\ IF k \in ensure.live /\ ~keyBucket[k][m].open /\ m = ensure.month
                THEN /\ keyBucket'[k][m].open
                     /\ m = Now(ProjectOf[k]) /\ Live(k) => keyBucket'[k][m].quota = keyQuota[k]
                ELSE keyBucket'[k][m] = keyBucket[k][m]
             /\ keyBucket'[k][m].charged = keyBucket[k][m].charged
  <2>1. keyBucket'[k][m] =
            IF k \in ensure.live /\ m = ensure.month /\ ~keyBucket[k][m].open
            THEN [open |-> TRUE, quota |-> ensure.keyQuota[k], charged |-> 0, pending |-> 0]
            ELSE keyBucket[k][m]
    BY DEF EnsureCommit
  <2>2. ASSUME k \in ensure.live, ~keyBucket[k][m].open, m = ensure.month,
               m = Now(ProjectOf[k]), Live(k)
        PROVE  ensure.keyQuota[k] = keyQuota[k]
    <3>1. Now(ProjectOf[k]) <= ensure.month
      BY <1>3, <2>2, LedgerAssumption DEF Months
    <3> QED
      BY <1>1, <1>2, <2>2, <3>1 DEF FreshSnapshot
  <2>3. ~keyBucket[k][m].open => keyBucket[k][m].charged = 0
    BY <1>1 DEF OpenBuckets, NoKeyBucket
  <2> QED
    BY <2>1, <2>2, <2>3
<1>7. /\ \A r \in Projects : LiveQuota(r)' = LiveQuota(r) /\ Now(r)' = Now(r)
      /\ \A r \in Projects, m \in Months : RevokedCharge(r, m)' = RevokedCharge(r, m)
  BY <1>4, <1>6, LiveQuotaKept, RevokedChargeKept DEF Live, Now, quotaVars
<1> QED
  BY <1>3, <1>4, <1>5, <1>6, <1>7

-------------------------------------------------------------------------------
(* Buckets, snapshots and allocations, step by step *)

\* Steps that touch neither the clock, the calls' states and months nor the two tables of
\* buckets, keys nor quotas.
QuietStep == UNCHANGED <<month, callState, callMonth, bookVars, quotaVars>>

\* The steps of an EnsureCurrentBuckets that leave them alone.
ScanStep == (\E m \in Months : EnsureScan(m)) \/ EnsureInsert \/ EnsureRollback

\* Which steps do.
LEMMA LedgerCases ==
    ASSUME [Next]_vars
    PROVE  \/ QuietStep /\ UNCHANGED <<ensure, opVars>>
           \/ QuietStep /\ UNCHANGED <<opMonth, outdated>> /\ ScanStep
           \/ \E p \in Projects : RollBack(p)
           \/ \E S \in SUBSET Projects : NextMonth(S)
           \/ EnsureCommit
           \/ \E k \in Keys, q \in Quotas, m \in Months :
                ApproveKey(k, q, m) \/ UpdateKeyQuota(k, q, m)
           \/ \E k \in Keys : ClaimKey(k)
           \/ \E k \in Keys, m \in Months : RevokeKey(k, m)
           \/ \E p \in Projects, q \in Quotas, m \in Months : UpdateProjectQuota(p, q, m)
           \/ \E c \in Calls, m \in Months : Reserve(c, m)
           \/ \E c \in Calls, success \in BOOLEAN :
                Finalize(c, success) /\ UNCHANGED <<month, quotaVars, ensure, opVars>>
<1>1. UNCHANGED vars \/ RecoverAbort
      \/ (\E c \in Calls : LeaseRunsOut(c) \/ MarkSent(c) \/ WorkerLost(c))
      \/ (\E S \in SUBSET Calls : RecoverScan(S))
      => QuietStep /\ UNCHANGED <<ensure, opVars>>
  BY DEF QuietStep, vars, callVars, runVars, RecoverAbort, LeaseRunsOut, MarkSent,
         WorkerLost, RecoverScan
<1>2. ScanStep => QuietStep /\ UNCHANGED <<opMonth, outdated>>
  BY DEF QuietStep, ScanStep, callVars, opVars, EnsureScan, EnsureInsert, EnsureRollback
<1> QED
  BY <1>1, <1>2 DEF Next, ScanStep, WorkerFinalize, RecoverCall

\* A bucket that stays open stays open for its calls.
LEMMA CallStaysOpen ==
    ASSUME LedgerInv, NEW c \in Calls, callState[c] # "unused", callMonth'[c] = callMonth[c],
           \A k \in Keys, m \in Months : keyBucket[k][m].open => keyBucket'[k][m].open
    PROVE  keyBucket'[KeyOf[c]][callMonth'[c]].open
<1>1. KeyOf[c] \in Keys /\ callMonth[c] \in Months
  BY LedgerAssumption DEF LedgerInv, TypeOK
<1>2. keyBucket[KeyOf[c]][callMonth[c]].open
  BY DEF LedgerInv, OpenBuckets
<1> QED
  BY <1>1, <1>2

\* The month worked in of a project only moves on, and never past the clock.
LEMMA MonthsStep ==
    ASSUME LedgerInv, TypeOK', [Next]_vars
    PROVE  /\ MonthsRead'
           /\ month' \in {month, month + 1}
           /\ \A p \in Projects : Now(p) <= Now(p)' /\ Now(p)' \in Months
<1>1. TypeOK /\ MonthsRead
  BY DEF LedgerInv
<1>2. month \in Nat /\ month' \in Nat
  BY <1>1, LedgerAssumption DEF TypeOK, Months
<1>3. ASSUME NEW p \in Projects
      PROVE  /\ Now(p) \in Nat /\ Now(p) <= month /\ (opMonth[p] = Free => Now(p) = month)
             /\ Now(p)' \in Months
  BY <1>1, LedgerAssumption DEF Now, TypeOK, Months, MonthsRead
<1>4. CASE UNCHANGED <<month, opMonth>>
  <2>1. \A p \in Projects : Now(p)' = Now(p)
    BY <1>4 DEF Now
  <2> QED
    BY <1>2, <1>3, <1>4, <2>1 DEF MonthsRead
<1>5. ASSUME NEW S \in SUBSET Projects, NextMonth(S)
      PROVE  /\ MonthsRead' /\ month' = month + 1
             /\ \A p \in Projects : Now(p) <= Now(p)'
  <2>1. /\ month' = month + 1
        /\ opMonth' = [p \in Projects |-> IF p \in S THEN month ELSE opMonth[p]]
        /\ \A p \in S : opMonth[p] = Free
    BY <1>5 DEF NextMonth, Lockable
  <2>2. ASSUME NEW p \in Projects
        PROVE  Now(p) <= Now(p)' /\ Now(p)' <= month'
    <3>1. CASE p \in S
      BY <1>2, <1>3, <2>1, <3>1 DEF Now
    <3>2. CASE p \notin S
      BY <1>2, <1>3, <2>1, <3>2 DEF Now
    <3> QED
      BY <3>1, <3>2
  <2> QED
    BY <2>1, <2>2 DEF MonthsRead
<1>6. ASSUME NEW p \in Projects, month' = month, Now(p)' = month,
             \A r \in Projects : r # p => Now(r)' = Now(r)
      PROVE  MonthsRead' /\ \A r \in Projects : Now(r) <= Now(r)'
  <2>1. ASSUME NEW r \in Projects
        PROVE  Now(r) <= Now(r)' /\ Now(r)' <= month
    BY <1>2, <1>3, <1>6
  <2> QED
    BY <1>6, <2>1 DEF MonthsRead
<1>7. ASSUME NEW p \in Projects, RollBack(p)
      PROVE  month' = month /\ MonthsRead' /\ \A r \in Projects : Now(r) <= Now(r)'
  BY <1>1, <1>6, <1>7, CommitFrees DEF RollBack
<1>8. ASSUME NEW p \in Projects, NEW w \in Months, Worked(p, w)
      PROVE  month' = month /\ MonthsRead' /\ \A r \in Projects : Now(r) <= Now(r)'
  BY <1>6, <1>8 DEF Worked
<1>9. ASSUME NEW k \in Keys, NEW w \in Months,
             RevokeKey(k, w) \/ \E q \in Quotas : ApproveKey(k, q, w) \/ UpdateKeyQuota(k, q, w)
      PROVE  month' = month /\ MonthsRead' /\ \A r \in Projects : Now(r) <= Now(r)'
  BY <1>8, <1>9, QuotaEffect, RevokeEffect DEF QuotaMoved
<1>10. ASSUME NEW p \in Projects, NEW q \in Quotas, NEW w \in Months, UpdateProjectQuota(p, q, w)
       PROVE  month' = month /\ MonthsRead' /\ \A r \in Projects : Now(r) <= Now(r)'
  BY <1>8, <1>10, ProjectQuotaEffect DEF ProjectQuotaMoved
<1>11. \/ EnsureCommit \/ (\E k \in Keys : ClaimKey(k))
       \/ (\E c \in Calls, m \in Months : Reserve(c, m))
       \/ QuietStep /\ UNCHANGED opMonth
       => UNCHANGED <<month, opMonth>>
  BY DEF EnsureCommit, ClaimKey, Reserve, QuietStep, runVars, opVars
<1> QED
  BY <1>2, <1>3, <1>4, <1>5, <1>7, <1>9, <1>10, <1>11, LedgerCases DEF opVars

\* A project and its keys have no bucket of a later month.
LEMMA LaterMonth ==
    ASSUME LedgerInv, NEW p \in Projects, NEW m \in Months, ~(m <= Now(p))
    PROVE  /\ ~projectBucket[p][m].open
           /\ \A k \in Keys : ProjectOf[k] = p => ~keyBucket[k][m].open
BY DEF LedgerInv, OpenBuckets

\* Every step keeps the buckets of calls and keys open, and empty what is not.
LEMMA OpenBucketsStep ==
    ASSUME LedgerInv, TypeOK', [Next]_vars
    PROVE  OpenBuckets'
<1>1. TypeOK /\ OpenBuckets /\ \A p \in Projects : Now(p) \in Months /\ Now(p) <= Now(p)
  <2>1. \A p \in Projects : Now(p) \in Months /\ Now(p) \in Nat
    BY WorkedMonth DEF LedgerInv
  <2> QED
    BY <2>1 DEF LedgerInv
<1> DEFINE Grown ==
        /\ \A r \in Projects, m \in Months :
              /\ projectBucket'[r][m].open => m <= Now(r)
              /\ ~projectBucket'[r][m].open => projectBucket'[r][m] = NoProjectBucket
        /\ \A k \in Keys, m \in Months :
              /\ keyBucket'[k][m].open => projectBucket'[ProjectOf[k]][m].open
              /\ ~keyBucket'[k][m].open => keyBucket'[k][m] = NoKeyBucket
        /\ \A c \in Calls : callState'[c] # "unused" => keyBucket'[KeyOf[c]][callMonth'[c]].open
<1>2. ASSUME Grown
      PROVE  OpenBuckets'
  <2>1. ASSUME NEW r \in Projects, NEW m \in Months, m <= Now(r)
        PROVE  m <= Now(r)'
    <3>1. Now(r) <= Now(r)' /\ Now(r)' \in Int /\ Now(r) \in Int /\ m \in Int
      BY <1>1, MonthsStep DEF Months
    <3> QED
      BY <2>1, <3>1
  <2> QED
    BY <1>2, <2>1 DEF OpenBuckets
<1>3. CASE UNCHANGED <<callState, callMonth, projectBucket, keyBucket>>
  <2>1. Grown
    BY <1>1, <1>3 DEF OpenBuckets
  <2> QED
    BY <1>2, <2>1
<1>4. CASE EnsureCommit
  <2>1. UNCHANGED <<callState, callMonth>>
    BY <1>4 DEF EnsureCommit, callVars
  <2>2. ensure.month \in Months /\ \A r \in Projects : opMonth[r] = Free => ensure.month <= Now(r)
    BY <1>1, <1>4, EnsureEffect, WorkedMonth
  <2>3. \A r \in Projects, m \in Months :
            /\ projectBucket'[r][m].open => m <= Now(r)
            /\ ~projectBucket'[r][m].open => projectBucket'[r][m] = NoProjectBucket
            /\ projectBucket[r][m].open => projectBucket'[r][m].open
            /\ m = ensure.month => projectBucket'[r][m].open
    <3>1. ASSUME NEW r \in Projects, NEW m \in Months
          PROVE  /\ ~projectBucket[r][m].open /\ m = ensure.month =>
                        projectBucket'[r][m].open /\ opMonth[r] = Free
                 /\ ~(~projectBucket[r][m].open /\ m = ensure.month) =>
                        projectBucket'[r][m] = projectBucket[r][m]
      BY <1>4, EnsureEffect
    <3> QED
      BY <1>1, <2>2, <3>1 DEF OpenBuckets
  <2>4. \A k \in Keys, m \in Months :
            /\ keyBucket'[k][m].open => projectBucket'[ProjectOf[k]][m].open
            /\ ~keyBucket'[k][m].open => keyBucket'[k][m] = NoKeyBucket
            /\ keyBucket[k][m].open => keyBucket'[k][m].open
    BY <1>1, <1>4, <2>3, EnsureEffect, LedgerAssumption DEF OpenBuckets
  <2>5. Grown
    BY <1>1, <2>1, <2>3, <2>4, LedgerAssumption DEF OpenBuckets, TypeOK
  <2> QED
    BY <1>2, <2>5
<1>5. ASSUME NEW k \in Keys, NEW q \in Quotas, NEW w \in Months,
             ApproveKey(k, q, w) \/ UpdateKeyQuota(k, q, w)
      PROVE  OpenBuckets'
  <2>0. QuotaMoved(k, w) /\ w = Now(ProjectOf[k])
    BY <1>5, QuotaEffect DEF QuotaMoved, Worked
  <2>1. /\ UNCHANGED <<callState, callMonth>>
        /\ ProjectOf[k] \in Projects
        /\ \A r \in Projects, m \in Months : ~(r = ProjectOf[k] /\ m = w) =>
                projectBucket'[r][m] = projectBucket[r][m]
        /\ \A k1 \in Keys, m \in Months : ~(k1 = k /\ m = w) =>
                keyBucket'[k1][m] = keyBucket[k1][m]
        /\ projectBucket'[ProjectOf[k]][w].open /\ keyBucket'[k][w].open
    BY <2>0 DEF QuotaMoved
  <2>2. \A r \in Projects, m \in Months :
            /\ projectBucket'[r][m].open => m <= Now(r)
            /\ ~projectBucket'[r][m].open => projectBucket'[r][m] = NoProjectBucket
            /\ projectBucket[r][m].open => projectBucket'[r][m].open
    BY <1>1, <2>0, <2>1 DEF OpenBuckets
  <2>3. \A k1 \in Keys, m \in Months :
            /\ keyBucket'[k1][m].open => projectBucket'[ProjectOf[k1]][m].open
            /\ ~keyBucket'[k1][m].open => keyBucket'[k1][m] = NoKeyBucket
            /\ keyBucket[k1][m].open => keyBucket'[k1][m].open
    BY <1>1, <2>1, <2>2, LedgerAssumption DEF OpenBuckets
  <2>4. \A c \in Calls : callState'[c] # "unused" => keyBucket'[KeyOf[c]][callMonth'[c]].open
    BY <2>1, <2>3, CallStaysOpen
  <2>5. Grown
    BY <2>2, <2>3, <2>4
  <2> QED
    BY <1>2, <2>5
<1>6. ASSUME NEW p \in Projects, NEW q \in Quotas, NEW w \in Months, UpdateProjectQuota(p, q, w)
      PROVE  OpenBuckets'
  <2>0. ProjectQuotaMoved(p, w)
    BY <1>6, ProjectQuotaEffect
  <2>1. /\ UNCHANGED <<callState, callMonth, keyBucket>> /\ Worked(p, w)
        /\ \A r \in Projects, m \in Months : ~(r = p /\ m = w) =>
                projectBucket'[r][m] = projectBucket[r][m]
        /\ projectBucket'[p][w].open
    BY <2>0 DEF ProjectQuotaMoved
  <2>2. \A r \in Projects, m \in Months :
            /\ projectBucket'[r][m].open => m <= Now(r)
            /\ ~projectBucket'[r][m].open => projectBucket'[r][m] = NoProjectBucket
            /\ projectBucket[r][m].open => projectBucket'[r][m].open
    BY <1>1, <2>1 DEF OpenBuckets, Worked
  <2>3. Grown
    BY <1>1, <2>1, <2>2, LedgerAssumption DEF OpenBuckets
  <2> QED
    BY <1>2, <2>3
<1>7. ASSUME NEW k \in Keys, NEW w \in Months, RevokeKey(k, w)
      PROVE  OpenBuckets'
  <2>1. /\ callMonth' = callMonth
        /\ \A c \in Calls : callState'[c] # "unused" => callState[c] # "unused"
        /\ \A r \in Projects, m \in Months :
                /\ projectBucket'[r][m].open = projectBucket[r][m].open
                /\ ~projectBucket[r][m].open => projectBucket'[r][m] = NoProjectBucket
        /\ \A k1 \in Keys, m \in Months :
                /\ keyBucket'[k1][m].open = keyBucket[k1][m].open
                /\ ~keyBucket[k1][m].open => keyBucket'[k1][m] = NoKeyBucket
    BY <1>7, RevokeEffect
  <2>2. \A c \in Calls : callState'[c] # "unused" => keyBucket'[KeyOf[c]][callMonth'[c]].open
    BY <2>1, CallStaysOpen
  <2>3. \A r \in Projects, m \in Months :
            /\ projectBucket'[r][m].open => m <= Now(r)
            /\ ~projectBucket'[r][m].open => projectBucket'[r][m] = NoProjectBucket
    BY <1>1, <2>1 DEF OpenBuckets
  <2>4. \A k1 \in Keys, m \in Months :
            /\ keyBucket'[k1][m].open => projectBucket'[ProjectOf[k1]][m].open
            /\ ~keyBucket'[k1][m].open => keyBucket'[k1][m] = NoKeyBucket
    <3>1. \A k1 \in Keys : ProjectOf[k1] \in Projects
      BY LedgerAssumption
    <3>2. \A k1 \in Keys, m \in Months :
              keyBucket[k1][m].open => projectBucket[ProjectOf[k1]][m].open
      BY <1>1 DEF OpenBuckets
    <3> QED
      BY <2>1, <3>1, <3>2
  <2>5. Grown
    BY <2>2, <2>3, <2>4
  <2> QED
    BY <1>2, <2>5
<1>8. ASSUME NEW c \in Calls, NEW m \in Months, Reserve(c, m)
      PROVE  OpenBuckets'
  <2> DEFINE k == KeyOf[c]
             p == ProjectOf[k]
  <2>1. /\ k \in Keys /\ p \in Projects /\ m <= Now(p)
        /\ callState' = [callState EXCEPT ![c] = "pending"]
        /\ callMonth' = [callMonth EXCEPT ![c] = m]
        /\ \A r \in Projects, x \in Months : ~(r = p /\ x = m) =>
                projectBucket'[r][x] = projectBucket[r][x]
        /\ \A k1 \in Keys, x \in Months : ~(k1 = k /\ x = m) =>
                keyBucket'[k1][x] = keyBucket[k1][x]
        /\ projectBucket'[p][m].open /\ keyBucket'[k][m].open
    BY <1>1, <1>8, ReserveEffect, WorkedMonth
  <2>2. \A r \in Projects, x \in Months :
            /\ projectBucket'[r][x].open => x <= Now(r)
            /\ ~projectBucket'[r][x].open => projectBucket'[r][x] = NoProjectBucket
            /\ projectBucket[r][x].open => projectBucket'[r][x].open
    BY <1>1, <2>1 DEF OpenBuckets
  <2>3. \A k1 \in Keys, x \in Months :
            /\ keyBucket'[k1][x].open => projectBucket'[ProjectOf[k1]][x].open
            /\ ~keyBucket'[k1][x].open => keyBucket'[k1][x] = NoKeyBucket
            /\ keyBucket[k1][x].open => keyBucket'[k1][x].open
    BY <1>1, <2>1, <2>2, LedgerAssumption DEF OpenBuckets
  <2>4. ASSUME NEW c1 \in Calls, callState'[c1] # "unused"
        PROVE  keyBucket'[KeyOf[c1]][callMonth'[c1]].open
    <3>1. CASE c1 = c
      BY <1>1, <2>1, <3>1 DEF TypeOK
    <3>2. CASE c1 # c
      <4>1. callState[c1] # "unused" /\ callMonth'[c1] = callMonth[c1]
        BY <1>1, <2>1, <2>4, <3>2 DEF TypeOK
      <4> QED
        BY <2>3, <4>1, CallStaysOpen
    <3> QED
      BY <3>1, <3>2
  <2>5. Grown
    BY <2>2, <2>3, <2>4
  <2> QED
    BY <1>2, <2>5
<1>9. ASSUME NEW c \in Calls, NEW success \in BOOLEAN, Finalize(c, success),
             UNCHANGED <<month, quotaVars, ensure, opVars>>
      PROVE  OpenBuckets'
  <2>1. \A x \in Calls : callState'[x] # "unused" => keyBucket'[KeyOf[x]][callMonth'[x]].open
    BY <1>9, FinalizeEffect, CallStaysOpen
  <2>2. /\ \A r \in Projects, m \in Months :
                /\ projectBucket'[r][m].open = projectBucket[r][m].open
                /\ ~projectBucket[r][m].open => projectBucket'[r][m] = projectBucket[r][m]
        /\ \A k1 \in Keys, m \in Months :
                /\ keyBucket'[k1][m].open = keyBucket[k1][m].open
                /\ ~keyBucket[k1][m].open => keyBucket'[k1][m] = keyBucket[k1][m]
    BY <1>9, FinalizeEffect
  <2>3. \A r \in Projects, m \in Months :
            /\ projectBucket'[r][m].open => m <= Now(r)
            /\ ~projectBucket'[r][m].open => projectBucket'[r][m] = NoProjectBucket
    BY <1>1, <2>2 DEF OpenBuckets
  <2>4. \A k \in Keys, m \in Months :
            /\ keyBucket'[k][m].open => projectBucket'[ProjectOf[k]][m].open
            /\ ~keyBucket'[k][m].open => keyBucket'[k][m] = NoKeyBucket
    BY <1>1, <2>2, LedgerAssumption DEF OpenBuckets
  <2>5. Grown
    BY <2>1, <2>3, <2>4
  <2> QED
    BY <1>2, <2>5
<1>10. QuietStep \/ (\E k \in Keys : ClaimKey(k)) \/ (\E p \in Projects : RollBack(p))
       \/ (\E S \in SUBSET Projects : NextMonth(S))
       => UNCHANGED <<callState, callMonth, projectBucket, keyBucket>>
  BY DEF QuietStep, bookVars, ClaimKey, RollBack, NextMonth, callVars
<1> QED
  BY <1>3, <1>4, <1>5, <1>6, <1>7, <1>8, <1>9, <1>10, LedgerCases

\* After a step, too, a project's live quotas sum to a natural number.
LEMMA LiveQuotaNext ==
    ASSUME TypeOK', NEW p \in Projects
    PROVE  LiveQuota(p)' \in Nat
<1>1. LiveKeys(p)' \in SUBSET Keys /\ \A k \in LiveKeys(p)' : keyQuota'[k] \in Nat
  BY DEF LiveKeys, TypeOK
<1>2. SumOver(keyQuota', LiveKeys(p)') \in Nat
  BY <1>1, KeySums
<1> QED
  BY <1>2 DEF LiveQuota

\* The snapshot of a running EnsureCurrentBuckets stays good over a step that opens no
\* bucket it is about to insert and changes no quota without opening its bucket or telling it.
LEMMA SnapshotKept ==
    ASSUME LedgerInv, TypeOK', [Next]_vars, ensure' = ensure, overtaken \subseteq overtaken',
           \A r \in Projects, m \in Months :
                projectBucket[r][m].open => projectBucket'[r][m].open,
           ensure.phase = "inserted" => \A r \in Projects :
                /\ projectBucket'[r][ensure.month].open => projectBucket[r][ensure.month].open
                /\ r \in ensure.missing /\ opMonth[r] = Free => opMonth'[r] = Free,
           ensure.phase # "idle" => \A r \in Projects :
                (/\ Now(r)' <= ensure.month
                 /\ ~projectBucket'[r][ensure.month].open
                 /\ r \notin overtaken') =>
                    projectQuota'[r] = projectQuota[r] /\ LiveQuota(r)' <= LiveQuota(r),
           ensure.phase = "inserted" => \A k \in Keys :
                (/\ Now(ProjectOf[k])' <= ensure.month
                 /\ Live(k)' /\ ~keyBucket'[k][ensure.month].open) =>
                    Live(k) /\ ~keyBucket[k][ensure.month].open /\ keyQuota'[k] = keyQuota[k]
    PROVE  FreshSnapshot'
<1>1. TypeOK /\ FreshSnapshot
  BY DEF LedgerInv
<1>2. ensure.phase # "idle" => /\ ensure.month \in Months
                               /\ ensure.allocated \in [Projects -> Nat]
  BY <1>1 DEF TypeOK, EnsureStates, NoEnsure
<1>3. ensure.phase = "inserted" => ensure.live \subseteq Keys /\ ensure.missing \subseteq Projects
  BY <1>1 DEF TypeOK, EnsureStates, NoEnsure
<1>4. \A r \in Projects : LiveQuota(r) \in Nat /\ LiveQuota(r)' \in Nat
  BY <1>1, KeySumsNat, LiveQuotaNext
<1>5. \A r \in Projects : /\ Now(r) \in Int /\ Now(r)' \in Int
                          /\ Now(r) <= Now(r)'
  BY <1>1, MonthsStep, WorkedMonth DEF Months
<1>6. month \in Int /\ month' \in Int /\ month <= month'
  <2>1. month \in Int /\ month' \in {month, month + 1}
    BY <1>1, MonthsStep DEF TypeOK, Months
  <2> QED
    BY <2>1
<1>7. ASSUME ensure.phase # "idle"
      PROVE  ensure.month \in Int /\ ensure.month <= month'
  <2>1. ensure.month <= month /\ ensure.month \in Int
    BY <1>1, <1>2, <1>7 DEF FreshSnapshot, Months
  <2> QED
    BY <1>6, <2>1
<1>8. ASSUME ensure.phase # "idle", NEW r \in Projects, Now(r)' <= ensure.month,
             ~projectBucket'[r][ensure.month].open, r \notin overtaken'
      PROVE  ensure.quota[r] = projectQuota'[r] /\ ensure.allocated[r] >= LiveQuota(r)'
  <2>1. ~projectBucket[r][ensure.month].open /\ r \notin overtaken /\ Now(r) <= ensure.month
    BY <1>2, <1>5, <1>7, <1>8
  <2>2. ensure.quota[r] = projectQuota[r] /\ ensure.allocated[r] >= LiveQuota(r)
    BY <1>1, <1>8, <2>1 DEF FreshSnapshot
  <2>3. ensure.allocated[r] \in Nat
    BY <1>2, <1>8
  <2>4. projectQuota'[r] = projectQuota[r] /\ LiveQuota(r)' <= LiveQuota(r)
    BY <1>8
  <2> QED
    BY <1>4, <2>2, <2>3, <2>4
<1>9. ASSUME ensure.phase = "inserted", NEW r \in Projects
      PROVE  /\ r \in ensure.missing <=> ~projectBucket'[r][ensure.month].open
             /\ r \in ensure.missing => opMonth'[r] = Free
  BY <1>1, <1>2, <1>9 DEF FreshSnapshot
<1>10. ASSUME ensure.phase = "inserted", NEW k \in ensure.live,
              Now(ProjectOf[k])' <= ensure.month, Live(k)', ~keyBucket'[k][ensure.month].open
       PROVE  ensure.keyQuota[k] = keyQuota'[k]
  <2>1. k \in Keys /\ ProjectOf[k] \in Projects
    BY <1>3, <1>10, LedgerAssumption
  <2>2. Live(k) /\ ~keyBucket[k][ensure.month].open /\ keyQuota'[k] = keyQuota[k]
    BY <1>10, <2>1
  <2>3. Now(ProjectOf[k]) <= ensure.month
    BY <1>5, <1>7, <1>10, <2>1
  <2> QED
    BY <1>1, <1>10, <2>2, <2>3 DEF FreshSnapshot
<1> QED
  BY <1>3, <1>7, <1>8, <1>9, <1>10 DEF FreshSnapshot

\* A transaction that has the project's lock knows its bucket of the snapshot's month.
LEMMA LockedMeansInserted ==
    ASSUME LedgerInv, NEW p \in Projects, p \notin LockedByEnsure, ensure.phase = "inserted"
    PROVE  projectBucket[p][ensure.month].open
BY DEF LedgerInv, FreshSnapshot, LockedByEnsure

\* So the quota operation it is done with has worked in the snapshot's month, or told it, unless
\* that month is over.
LEMMA SnapshotTold ==
    ASSUME LedgerInv, NEW p \in Projects, NEW w \in Months, Worked(p, w), Overtakes(p, w),
           ensure.phase # "idle", Now(p)' <= ensure.month
    PROVE  /\ ensure.month = month
           /\ ensure.phase = "inserted" => w = ensure.month
           /\ w = ensure.month \/ p \in overtaken'
<1>1. /\ TypeOK /\ ensure.month <= month /\ ensure.month \in Int /\ month \in Int /\ w \in Int
      /\ w <= month /\ w = Now(p) /\ Now(p)' = month /\ p \notin LockedByEnsure
      /\ ensure.month \in Months
  BY DEF LedgerInv, FreshSnapshot, MonthsRead, TypeOK, EnsureStates, NoEnsure, Months, Worked
<1>2. ensure.month = month
  BY <1>1
<1>3. ASSUME ensure.phase = "inserted"
      PROVE  w = ensure.month
  <2>1. projectBucket[p][ensure.month].open
    BY <1>1, <1>3, LockedMeansInserted
  <2>2. ensure.month <= w
    BY <1>1, <2>1 DEF LedgerInv, OpenBuckets
  <2> QED
    BY <1>1, <1>2, <2>2
<1>4. ASSUME ensure.phase = "scanned", w # ensure.month
      PROVE  p \in overtaken'
  BY <1>1, <1>2, <1>4 DEF Overtakes
<1>5. ensure.phase \in {"scanned", "inserted"}
  BY <1>1 DEF TypeOK, EnsureStates, NoEnsure
<1> QED
  BY <1>2, <1>3, <1>4, <1>5

\* Every step keeps the snapshot good, or ends it.
LEMMA FreshSnapshotStep ==
    ASSUME LedgerInv, TypeOK', [Next]_vars
    PROVE  FreshSnapshot'
<1>1. TypeOK /\ FreshSnapshot
  BY DEF LedgerInv
<1>2. \A r \in Projects : LiveQuota(r) \in Nat /\ LiveQuota(r) <= LiveQuota(r)
  <2>1. \A r \in Projects : LiveQuota(r) \in Nat
    BY <1>1, KeySumsNat
  <2> QED
    BY <2>1
<1>3. /\ ensure.phase = "inserted" => ensure.month \in Months /\ ensure.missing \subseteq Projects
      /\ ensure.phase # "idle" => ensure.month \in Months
  BY <1>1 DEF TypeOK, EnsureStates, NoEnsure
<1>4. CASE /\ UNCHANGED <<ensure, projectBucket, keyBucket, keyQuota, projectQuota, overtaken>>
           /\ \A k \in Keys : Live(k)' <=> Live(k)
           /\ \A r \in LockedByEnsure : opMonth[r] = Free => opMonth'[r] = Free
  <2>1. \A r \in Projects : LiveQuota(r)' = LiveQuota(r)
    BY <1>4, LiveQuotaKept
  <2>2. ensure.phase = "inserted" => \A r \in Projects :
            r \in ensure.missing /\ opMonth[r] = Free => opMonth'[r] = Free
    BY <1>4 DEF LockedByEnsure
  <2> QED
    BY <1>2, <1>4, <2>1, <2>2, SnapshotKept
<1>5. CASE EnsureRollback \/ EnsureCommit
  <2>1. ensure' = NoEnsure
    BY <1>5 DEF EnsureRollback, EnsureCommit
  <2>2. ensure'.phase = "idle"
    BY <2>1 DEF NoEnsure
  <2> QED
    BY <2>2 DEF FreshSnapshot
<1>6. ASSUME NEW m \in Months, EnsureScan(m)
      PROVE  FreshSnapshot'
  <2>1. /\ m \in {month - 1, month}
        /\ ensure' = [phase     |-> "scanned",
                      month     |-> m,
                      quota     |-> projectQuota,
                      allocated |-> [p \in Projects |-> LiveQuota(p)]]
        /\ UNCHANGED <<month, projectBucket, keyStatus, keyQuota, projectQuota>>
    BY <1>6 DEF EnsureScan, bookVars, quotaVars
  <2>2. \A r \in Projects : LiveQuota(r)' = LiveQuota(r)
    BY <2>1, LiveQuotaKept DEF Live
  <2>3. m <= month
    BY <1>1, <2>1 DEF TypeOK, Months
  <2> QED
    BY <1>2, <2>1, <2>2, <2>3 DEF FreshSnapshot
<1>7. CASE EnsureInsert
  <2>1. /\ ensure.phase = "scanned"
        /\ \A p \in Projects : ~projectBucket[p][ensure.month].open => opMonth[p] = Free
        /\ ensure' = [phase     |-> "inserted",
                      month     |-> ensure.month,
                      quota     |-> ensure.quota,
                      allocated |-> ensure.allocated,
                      missing   |-> {p \in Projects : ~projectBucket[p][ensure.month].open},
                      live      |-> {k \in Keys : Live(k)},
                      keyQuota  |-> keyQuota]
        /\ UNCHANGED <<month, projectBucket, keyBucket, keyStatus, keyQuota, projectQuota,
                       opMonth, overtaken>>
    BY <1>7 DEF EnsureInsert, bookVars, quotaVars, opVars
  <2>2. \A r \in Projects : LiveQuota(r)' = LiveQuota(r) /\ Now(r)' = Now(r)
    BY <2>1, LiveQuotaKept DEF Live, Now
  <2> QED
    BY <1>1, <2>1, <2>2 DEF FreshSnapshot
<1>8. ASSUME NEW k \in Keys, NEW q \in Quotas, NEW w \in Months,
             ApproveKey(k, q, w) \/ UpdateKeyQuota(k, q, w)
      PROVE  FreshSnapshot'
  <2> DEFINE p == ProjectOf[k]
  <2>1. QuotaMoved(k, w)
    BY <1>8, QuotaEffect
  <2>2. /\ p \in Projects /\ Worked(p, w) /\ Overtakes(p, w)
        /\ ensure' = ensure /\ projectQuota' = projectQuota
        /\ \A r \in Projects, m \in Months : ~(r = p /\ m = w) =>
                projectBucket'[r][m] = projectBucket[r][m]
        /\ \A k1 \in Keys, m \in Months : ~(k1 = k /\ m = w) =>
                keyBucket'[k1][m] = keyBucket[k1][m]
        /\ projectBucket'[p][w].open /\ keyBucket'[k][w].open
        /\ \A r \in Projects : r # p => LiveQuota(r)' = LiveQuota(r)
        /\ \A k1 \in Keys \ {k} : (Live(k1)' <=> Live(k1)) /\ keyQuota'[k1] = keyQuota[k1]
    BY <2>1 DEF QuotaMoved
  <2>3. /\ p \notin LockedByEnsure /\ overtaken \subseteq overtaken' /\ opMonth'[p] = Free
        /\ \A r \in Projects : r # p => opMonth'[r] = opMonth[r]
    BY <2>2 DEF Worked
  <2>4. ASSUME ensure.phase # "idle", Now(p)' <= ensure.month
        PROVE  /\ ensure.phase = "inserted" => w = ensure.month
               /\ w = ensure.month \/ p \in overtaken'
    BY <2>2, <2>4, SnapshotTold
  <2>5. \A r \in Projects, x \in Months :
            projectBucket[r][x].open => projectBucket'[r][x].open
    BY <2>2
  <2>6. ensure.phase = "inserted" => \A r \in Projects :
            /\ projectBucket'[r][ensure.month].open => projectBucket[r][ensure.month].open
            /\ r \in ensure.missing /\ opMonth[r] = Free => opMonth'[r] = Free
    BY <1>3, <2>2, <2>3, LockedMeansInserted
  <2>7. ASSUME ensure.phase # "idle", NEW r \in Projects, Now(r)' <= ensure.month,
               ~projectBucket'[r][ensure.month].open, r \notin overtaken'
        PROVE  projectQuota'[r] = projectQuota[r] /\ LiveQuota(r)' <= LiveQuota(r)
    <3>1. r # p
      BY <2>2, <2>4, <2>7
    <3> QED
      BY <1>2, <2>2, <3>1
  <2>8. ASSUME ensure.phase = "inserted", NEW k1 \in Keys, Now(ProjectOf[k1])' <= ensure.month,
               Live(k1)', ~keyBucket'[k1][ensure.month].open
        PROVE  Live(k1) /\ ~keyBucket[k1][ensure.month].open /\ keyQuota'[k1] = keyQuota[k1]
    <3>1. k1 # k
      BY <2>2, <2>4, <2>8
    <3> QED
      BY <1>3, <2>2, <2>8, <3>1
  <2> HIDE DEF p
  <2> QED
    BY <2>2, <2>3, <2>5, <2>6, <2>7, <2>8, SnapshotKept
<1>9. ASSUME NEW p \in Projects, NEW q \in Quotas, NEW w \in Months, UpdateProjectQuota(p, q, w)
      PROVE  FreshSnapshot'
  <2>1. ProjectQuotaMoved(p, w)
    BY <1>9, ProjectQuotaEffect
  <2>2. /\ Worked(p, w) /\ Overtakes(p, w)
        /\ UNCHANGED <<keyStatus, keyQuota, ensure, keyBucket>>
        /\ \A r \in Projects, m \in Months : ~(r = p /\ m = w) =>
                projectBucket'[r][m] = projectBucket[r][m]
        /\ projectBucket'[p][w].open
        /\ \A r \in Projects : /\ r # p => projectQuota'[r] = projectQuota[r]
                               /\ LiveQuota(r)' = LiveQuota(r)
    BY <2>1 DEF ProjectQuotaMoved
  <2>3. /\ p \notin LockedByEnsure /\ overtaken \subseteq overtaken' /\ opMonth'[p] = Free
        /\ \A r \in Projects : r # p => opMonth'[r] = opMonth[r]
    BY <2>2 DEF Worked
  <2>4. ASSUME ensure.phase # "idle", Now(p)' <= ensure.month
        PROVE  w = ensure.month \/ p \in overtaken'
    BY <2>2, <2>4, SnapshotTold
  <2>5. \A r \in Projects, x \in Months :
            projectBucket[r][x].open => projectBucket'[r][x].open
    BY <2>2
  <2>6. ensure.phase = "inserted" => \A r \in Projects :
            /\ projectBucket'[r][ensure.month].open => projectBucket[r][ensure.month].open
            /\ r \in ensure.missing /\ opMonth[r] = Free => opMonth'[r] = Free
    BY <1>3, <2>2, <2>3, LockedMeansInserted
  <2>7. ASSUME ensure.phase # "idle", NEW r \in Projects, Now(r)' <= ensure.month,
               ~projectBucket'[r][ensure.month].open, r \notin overtaken'
        PROVE  projectQuota'[r] = projectQuota[r] /\ LiveQuota(r)' <= LiveQuota(r)
    <3>1. r # p
      BY <2>2, <2>4, <2>7
    <3> QED
      BY <1>2, <2>2, <3>1
  <2>8. \A k \in Keys : Live(k)' <=> Live(k)
    BY <2>2 DEF Live
  <2> QED
    BY <2>2, <2>3, <2>5, <2>6, <2>7, <2>8, SnapshotKept
<1>10. ASSUME NEW k \in Keys, NEW w \in Months, RevokeKey(k, w)
       PROVE  FreshSnapshot'
  <2> DEFINE p == ProjectOf[k]
  <2>1. /\ p \in Projects /\ Worked(p, w)
        /\ UNCHANGED <<keyQuota, projectQuota, ensure, overtaken>>
        /\ \A r \in Projects, m \in Months :
                projectBucket'[r][m].open = projectBucket[r][m].open
        /\ \A k1 \in Keys, m \in Months : keyBucket'[k1][m].open = keyBucket[k1][m].open
        /\ \A k1 \in Keys : Live(k1)' => Live(k1)
        /\ \A r \in Projects : LiveQuota(r)' <= LiveQuota(r)
    BY <1>10, RevokeEffect
  <2>2. \A r \in Projects : opMonth[r] = Free => opMonth'[r] = Free
    BY <2>1 DEF Worked
  <2> QED
    BY <1>3, <2>1, <2>2, SnapshotKept
<1>11. ASSUME NEW c \in Calls, NEW m \in Months, Reserve(c, m)
       PROVE  FreshSnapshot'
  <2> DEFINE k == KeyOf[c]
             p == ProjectOf[k]
  <2>1. /\ k \in Keys /\ p \in Projects /\ p \notin LockedByEnsure
        /\ UNCHANGED <<month, quotaVars, ensure, opVars>>
        /\ \A r \in Projects, x \in Months : ~(r = p /\ x = m) =>
                projectBucket'[r][x] = projectBucket[r][x]
        /\ \A k1 \in Keys, x \in Months : ~(k1 = k /\ x = m) =>
                keyBucket'[k1][x] = keyBucket[k1][x]
        /\ projectBucket'[p][m].open /\ keyBucket'[k][m].open
        /\ \A r \in Projects : LiveQuota(r)' = LiveQuota(r)
    BY <1>11, ReserveEffect
  <2>2. UNCHANGED <<keyStatus, keyQuota, projectQuota, opMonth, overtaken>>
    BY <2>1 DEF quotaVars, opVars
  <2>3. \A r \in Projects, x \in Months :
            projectBucket[r][x].open => projectBucket'[r][x].open
    BY <2>1
  <2>4. ensure.phase = "inserted" => \A r \in Projects :
            projectBucket'[r][ensure.month].open => projectBucket[r][ensure.month].open
    BY <1>3, <2>1, LockedMeansInserted
  <2>5. ASSUME ensure.phase = "inserted", NEW k1 \in Keys,
               Live(k1)', ~keyBucket'[k1][ensure.month].open
        PROVE  Live(k1) /\ ~keyBucket[k1][ensure.month].open
    BY <1>3, <2>1, <2>2, <2>5 DEF Live
  <2> HIDE DEF k, p
  <2> QED
    BY <1>2, <2>1, <2>2, <2>3, <2>4, <2>5, SnapshotKept
<1>12. ASSUME NEW c \in Calls, NEW success \in BOOLEAN, Finalize(c, success),
              UNCHANGED <<month, quotaVars, ensure, opVars>>
       PROVE  FreshSnapshot'
  <2>1. /\ \A r \in Projects, x \in Months :
                projectBucket'[r][x].open = projectBucket[r][x].open
        /\ \A k1 \in Keys, x \in Months : keyBucket'[k1][x].open = keyBucket[k1][x].open
        /\ \A r \in Projects : LiveQuota(r)' = LiveQuota(r)
    BY <1>12, FinalizeEffect
  <2>2. UNCHANGED <<keyStatus, keyQuota, projectQuota, ensure, opMonth, overtaken>>
    BY <1>12 DEF quotaVars, opVars
  <2>3. \A k \in Keys : Live(k)' <=> Live(k)
    BY <2>2 DEF Live
  <2> QED
    BY <1>2, <1>3, <2>1, <2>2, <2>3, SnapshotKept
<1>13. ASSUME NEW k \in Keys, ClaimKey(k)
       PROVE  FreshSnapshot'
  <2>1. /\ keyStatus[k] = "approved" /\ keyStatus' = [keyStatus EXCEPT ![k] = "active"]
        /\ UNCHANGED <<ensure, projectBucket, keyBucket, keyQuota, projectQuota, opMonth,
                       overtaken>>
    BY <1>13 DEF ClaimKey, bookVars, runVars, opVars
  <2>2. \A k1 \in Keys : Live(k1)' <=> Live(k1)
    BY <1>1, <2>1 DEF Live, TypeOK
  <2> QED
    BY <1>4, <2>1, <2>2
<1>14. ASSUME NEW S \in SUBSET Projects, NextMonth(S)
       PROVE  FreshSnapshot'
  <2>1. /\ UNCHANGED <<ensure, projectBucket, keyBucket, keyStatus, keyQuota, projectQuota,
                       overtaken>>
        /\ \A p \in S : p \notin LockedByEnsure
        /\ opMonth' = [p \in Projects |-> IF p \in S THEN month ELSE opMonth[p]]
    BY <1>14 DEF NextMonth, Lockable, bookVars, quotaVars
  <2>2. \A r \in LockedByEnsure : opMonth[r] = Free => opMonth'[r] = Free
    BY <1>3, <2>1 DEF LockedByEnsure
  <2> QED
    BY <1>4, <2>1, <2>2 DEF Live
<1>15. ASSUME NEW p \in Projects, RollBack(p)
       PROVE  FreshSnapshot'
  <2>1. UNCHANGED <<ensure, projectBucket, keyBucket, keyStatus, keyQuota, projectQuota,
                    overtaken>>
    BY <1>15 DEF RollBack, bookVars, quotaVars
  <2>2. \A r \in LockedByEnsure : opMonth[r] = Free => opMonth'[r] = Free
    BY <1>1, <1>3, <1>15 DEF LockedByEnsure, RollBack, Commits, TypeOK
  <2> QED
    BY <1>4, <2>1, <2>2 DEF Live
<1>16. QuietStep /\ UNCHANGED <<ensure, opVars>> =>
            UNCHANGED <<ensure, projectBucket, keyBucket, keyStatus, keyQuota, projectQuota,
                        opMonth, overtaken>>
  BY DEF QuietStep, bookVars, quotaVars, opVars
<1>17. CASE QuietStep /\ UNCHANGED <<ensure, opVars>>
  BY <1>4, <1>16, <1>17 DEF Live
<1> QED
  BY <1>5, <1>6, <1>7, <1>8, <1>9, <1>10, <1>11, <1>12, <1>13, <1>14, <1>15, <1>17, LedgerCases
     DEF ScanStep

\* After a step, the month worked in of a project is the one before, or a later one.
LEMMA SameOrLater ==
    ASSUME LedgerInv, TypeOK', [Next]_vars, NEW p \in Projects
    PROVE  /\ Now(p) \in Months /\ Now(p)' \in Months
           /\ Now(p)' = Now(p) \/ ~(Now(p)' <= Now(p))
<1>1. Now(p) \in Months /\ Now(p)' \in Months /\ Now(p) <= Now(p)'
  BY MonthsStep, WorkedMonth DEF LedgerInv
<1> QED
  BY <1>1 DEF Months

\* Every step keeps the quotas of the buckets worked in the current quotas.
LEMMA WorkedBucketsFollowStep ==
    ASSUME LedgerInv, TypeOK', [Next]_vars
    PROVE  WorkedBucketsFollow'
<1>1. TypeOK /\ OpenBuckets /\ WorkedBucketsFollow
  BY DEF LedgerInv
<1>2. \A k \in Keys : ProjectOf[k] \in Projects
  BY LedgerAssumption
<1> DEFINE Follow(p) ==
             /\ projectBucket'[p][Now(p)].open /\ <<p, Now(p)>> \notin outdated' =>
                    projectBucket'[p][Now(p)].quota = projectQuota'[p]
             /\ \A k \in Keys : ProjectOf[k] = p =>
                    (keyBucket'[k][Now(p)].open /\ Live(k)' =>
                        keyBucket'[k][Now(p)].quota = keyQuota'[k])
           Closed(p) ==
             Now(p)' # Now(p) => /\ ~projectBucket'[p][Now(p)'].open
                                 /\ \A k \in Keys : ProjectOf[k] = p => ~keyBucket'[k][Now(p)'].open
<1>3. ASSUME \A p \in Projects : Follow(p) /\ Closed(p)
      PROVE  WorkedBucketsFollow'
  <2>1. ASSUME NEW p \in Projects
        PROVE  /\ projectBucket'[p][Now(p)'].open /\ <<p, Now(p)'>> \notin outdated' =>
                    projectBucket'[p][Now(p)'].quota = projectQuota'[p]
               /\ \A k \in Keys : ProjectOf[k] = p =>
                    (keyBucket'[k][Now(p)'].open /\ Live(k)' =>
                        keyBucket'[k][Now(p)'].quota = keyQuota'[k])
    <3>1. Follow(p) /\ Closed(p)
      BY <1>3
    <3>2. CASE Now(p)' = Now(p)
      BY <3>1, <3>2
    <3>3. CASE Now(p)' # Now(p)
      BY <3>1, <3>3
    <3> QED
      BY <3>2, <3>3
  <2> HIDE DEF Follow, Closed
  <2> QED
    BY <1>2, <2>1 DEF WorkedBucketsFollow
<1>4. ASSUME NEW p \in Projects, Now(p)' = Now(p)
      PROVE  Closed(p)
  BY <1>4
<1>5. ASSUME NEW p \in Projects,
             \A m \in Months : ~(m <= Now(p)) => projectBucket'[p][m] = projectBucket[p][m],
             \A k \in Keys, m \in Months : ProjectOf[k] = p /\ ~(m <= Now(p)) =>
                    keyBucket'[k][m] = keyBucket[k][m]
      PROVE  Closed(p)
  <2>1. CASE Now(p)' = Now(p)
    BY <2>1
  <2>2. CASE Now(p)' # Now(p)
    <3>1. Now(p)' \in Months /\ ~(Now(p)' <= Now(p))
      BY <2>2, SameOrLater
    <3> DEFINE n == Now(p)'
    <3>2. ~projectBucket[p][n].open /\ \A k \in Keys : ProjectOf[k] = p => ~keyBucket[k][n].open
      BY <3>1, LaterMonth
    <3>3. n \in Months /\ ~(n <= Now(p))
      BY <3>1
    <3> HIDE DEF n
    <3>4. projectBucket'[p][n] = projectBucket[p][n]
          /\ \A k \in Keys : ProjectOf[k] = p => keyBucket'[k][n] = keyBucket[k][n]
      BY <1>5, <3>3
    <3> QED
      BY <3>2, <3>4 DEF n
  <2> QED
    BY <2>1, <2>2
<1>6. ASSUME NEW p \in Projects
      PROVE  /\ projectBucket[p][Now(p)].open /\ <<p, Now(p)>> \notin outdated =>
                    projectBucket[p][Now(p)].quota = projectQuota[p]
             /\ \A k \in Keys : ProjectOf[k] = p =>
                    (keyBucket[k][Now(p)].open /\ Live(k) => keyBucket[k][Now(p)].quota = keyQuota[k])
             /\ Now(p) \in Months /\ Now(p) <= Now(p)
  <2>1. Now(p) \in Months /\ Now(p) \in Nat
    BY <1>1, WorkedMonth
  <2>2. Now(p) <= Now(p)
    BY <2>1
  <2> QED
    BY <1>1, <2>1, <2>2 DEF WorkedBucketsFollow
<1> HIDE DEF Closed
<1>7. CASE /\ UNCHANGED <<projectBucket, keyBucket, keyQuota, projectQuota, outdated>>
           /\ \A k \in Keys : Live(k)' <=> Live(k)
  <2>1. \A p \in Projects : Follow(p)
    BY <1>6, <1>7
  <2>2. \A p \in Projects : Closed(p)
    BY <1>5, <1>7
  <2> QED
    BY <1>3, <2>1, <2>2
<1>8. CASE EnsureCommit
  <2>1. UNCHANGED <<projectQuota, keyQuota, keyStatus>> /\ outdated \subseteq outdated'
        /\ \A p \in Projects : Now(p)' = Now(p)
    BY <1>8, EnsureEffect DEF quotaVars
  <2>2. ASSUME NEW p \in Projects
        PROVE  Follow(p)
    <3>1. projectBucket'[p][Now(p)].open /\ <<p, Now(p)>> \notin outdated' =>
                projectBucket'[p][Now(p)].quota = projectQuota[p]
      <4>1. CASE ~projectBucket[p][Now(p)].open /\ Now(p) = ensure.month
        BY <1>6, <1>8, <4>1, EnsureEffect
      <4>2. CASE ~(~projectBucket[p][Now(p)].open /\ Now(p) = ensure.month)
        <5>1. projectBucket'[p][Now(p)] = projectBucket[p][Now(p)]
          BY <1>6, <1>8, <4>2, EnsureEffect
        <5> QED
          BY <1>6, <2>1, <5>1
      <4> QED
        BY <4>1, <4>2
    <3>2. ASSUME NEW k \in Keys, ProjectOf[k] = p, keyBucket'[k][Now(p)].open, Live(k)
          PROVE  keyBucket'[k][Now(p)].quota = keyQuota[k]
      <4>1. CASE k \in ensure.live /\ ~keyBucket[k][Now(p)].open /\ Now(p) = ensure.month
        BY <1>6, <1>8, <3>2, <4>1, EnsureEffect
      <4>2. CASE ~(k \in ensure.live /\ ~keyBucket[k][Now(p)].open /\ Now(p) = ensure.month)
        <5>1. keyBucket'[k][Now(p)] = keyBucket[k][Now(p)]
          BY <1>6, <1>8, <4>2, EnsureEffect
        <5> QED
          BY <1>6, <3>2, <5>1
      <4> QED
        BY <4>1, <4>2
    <3> QED
      BY <2>1, <3>1, <3>2 DEF Live
  <2>3. \A p \in Projects : Closed(p)
    BY <1>4, <2>1
  <2> QED
    BY <1>3, <2>2, <2>3
<1>9. ASSUME NEW k \in Keys, NEW q \in Quotas, NEW w \in Months,
             ApproveKey(k, q, w) \/ UpdateKeyQuota(k, q, w)
      PROVE  WorkedBucketsFollow'
  <2> DEFINE r == ProjectOf[k]
  <2>1. QuotaMoved(k, w)
    BY <1>9, QuotaEffect
  <2>2. /\ r \in Projects /\ w = Now(r) /\ projectQuota' = projectQuota /\ outdated' = outdated
        /\ \A x \in Projects, m \in Months : ~(x = r /\ m = w) =>
                projectBucket'[x][m] = projectBucket[x][m]
        /\ \A k1 \in Keys, m \in Months : ~(k1 = k /\ m = w) =>
                keyBucket'[k1][m] = keyBucket[k1][m]
        /\ <<r, w>> \notin outdated => projectBucket'[r][w].quota = projectQuota[r]
        /\ keyBucket'[k][w].quota = keyQuota'[k]
        /\ \A k1 \in Keys \ {k} : (Live(k1)' <=> Live(k1)) /\ keyQuota'[k1] = keyQuota[k1]
    BY <2>1 DEF QuotaMoved, Worked
  <2>3. ASSUME NEW p \in Projects
        PROVE  Follow(p)
    <3>1. CASE p = r
      BY <1>6, <2>2, <3>1
    <3>2. CASE p # r
      BY <1>6, <2>2, <3>2
    <3> QED
      BY <3>1, <3>2
  <2>4. ASSUME NEW p \in Projects
        PROVE  Closed(p)
    BY <1>5, <1>6, <2>2
  <2> QED
    BY <1>3, <2>3, <2>4
<1>10. ASSUME NEW r \in Projects, NEW q \in Quotas, NEW w \in Months, UpdateProjectQuota(r, q, w)
       PROVE  WorkedBucketsFollow'
  <2>1. ProjectQuotaMoved(r, w)
    BY <1>10, ProjectQuotaEffect
  <2>2. /\ w = Now(r) /\ UNCHANGED <<keyStatus, keyQuota, keyBucket, outdated>>
        /\ \A x \in Projects, m \in Months : ~(x = r /\ m = w) =>
                projectBucket'[x][m] = projectBucket[x][m]
        /\ projectBucket'[r][w].quota = projectQuota'[r]
        /\ \A x \in Projects : x # r => projectQuota'[x] = projectQuota[x]
    BY <2>1 DEF ProjectQuotaMoved, Worked
  <2>3. \A k \in Keys : Live(k)' <=> Live(k)
    BY <2>2 DEF Live
  <2>4. ASSUME NEW p \in Projects
        PROVE  Follow(p)
    BY <1>6, <2>2, <2>3
  <2>5. ASSUME NEW p \in Projects
        PROVE  Closed(p)
    BY <1>5, <1>6, <2>2
  <2> QED
    BY <1>3, <2>4, <2>5
<1>11. ASSUME NEW k \in Keys, NEW w \in Months, RevokeKey(k, w)
       PROVE  WorkedBucketsFollow'
  <2>1. /\ UNCHANGED <<keyQuota, projectQuota, outdated>>
        /\ \A r \in Projects, m \in Months :
                /\ projectBucket'[r][m].open = projectBucket[r][m].open
                /\ projectBucket'[r][m].quota = projectBucket[r][m].quota
        /\ \A k1 \in Keys, m \in Months :
                /\ keyBucket'[k1][m].open = keyBucket[k1][m].open
                /\ keyBucket'[k1][m].quota = keyBucket[k1][m].quota
        /\ \A k1 \in Keys : Live(k1)' => Live(k1)
    BY <1>11, RevokeEffect
  <2>2. ASSUME NEW p \in Projects
        PROVE  Follow(p)
    BY <1>6, <2>1
  <2>3. ASSUME NEW p \in Projects
        PROVE  Closed(p)
    <3>1. CASE Now(p)' = Now(p)
      BY <1>4, <3>1
    <3>2. CASE Now(p)' # Now(p)
      <4>1. Now(p)' \in Months /\ ~(Now(p)' <= Now(p))
        BY <3>2, SameOrLater
      <4> QED
        BY <2>1, <4>1, LaterMonth DEF Closed
    <3> QED
      BY <3>1, <3>2
  <2> QED
    BY <1>3, <2>2, <2>3
<1>12. ASSUME NEW c \in Calls, NEW m \in Months, Reserve(c, m)
       PROVE  WorkedBucketsFollow'
  <2> DEFINE k == KeyOf[c]
             r == ProjectOf[k]
  <2>1. /\ k \in Keys /\ r \in Projects /\ opMonth[r] = Free
        /\ UNCHANGED <<month, quotaVars, opVars>>
        /\ \A p \in Projects, x \in Months : ~(p = r /\ x = m) =>
                projectBucket'[p][x] = projectBucket[p][x]
        /\ \A k1 \in Keys, x \in Months : ~(k1 = k /\ x = m) =>
                keyBucket'[k1][x] = keyBucket[k1][x]
        /\ m = month /\ <<r, m>> \notin outdated => projectBucket'[r][m].quota = projectQuota[r]
        /\ m = month => keyBucket'[k][m].quota = keyQuota[k]
    BY <1>12, ReserveEffect
  <2>2. UNCHANGED <<keyStatus, keyQuota, projectQuota, outdated>>
        /\ \A p \in Projects : Now(p)' = Now(p)
    BY <2>1 DEF quotaVars, opVars, Now
  <2>3. Now(r) = month
    BY <2>1 DEF Now
  <2>4. \A k1 \in Keys : Live(k1)' <=> Live(k1)
    BY <2>2 DEF Live
  <2> HIDE DEF k
  <2>5. ASSUME NEW p \in Projects
        PROVE  Follow(p)
    <3>1. projectBucket'[p][Now(p)].open /\ <<p, Now(p)>> \notin outdated =>
                projectBucket'[p][Now(p)].quota = projectQuota[p]
      BY <1>6, <2>1, <2>3
    <3>2. ASSUME NEW k1 \in Keys, ProjectOf[k1] = p, keyBucket'[k1][Now(p)].open, Live(k1)
          PROVE  keyBucket'[k1][Now(p)].quota = keyQuota[k1]
      <4>1. CASE k1 = k /\ Now(p) = m
        BY <2>1, <2>3, <3>2, <4>1
      <4>2. CASE ~(k1 = k /\ Now(p) = m)
        <5>1. keyBucket'[k1][Now(p)] = keyBucket[k1][Now(p)]
          BY <1>6, <2>1, <4>2
        <5> QED
          BY <1>6, <3>2, <5>1
      <4> QED
        BY <4>1, <4>2
    <3> QED
      BY <2>2, <2>4, <3>1, <3>2
  <2>6. \A p \in Projects : Closed(p)
    BY <1>4, <2>2
  <2> QED
    BY <1>3, <2>5, <2>6
<1>13. ASSUME NEW c \in Calls, NEW success \in BOOLEAN, Finalize(c, success),
              UNCHANGED <<month, quotaVars, ensure, opVars>>
       PROVE  WorkedBucketsFollow'
  <2>1. /\ \A r \in Projects, m \in Months :
                /\ projectBucket'[r][m].open = projectBucket[r][m].open
                /\ projectBucket'[r][m].quota = projectBucket[r][m].quota
        /\ \A k \in Keys, m \in Months :
                /\ keyBucket'[k][m].open = keyBucket[k][m].open
                /\ keyBucket'[k][m].quota = keyBucket[k][m].quota
        /\ \A p \in Projects : Now(p)' = Now(p)
    BY <1>13, FinalizeEffect
  <2>2. UNCHANGED <<keyStatus, keyQuota, projectQuota, outdated>>
    BY <1>13 DEF quotaVars, opVars
  <2>3. \A k \in Keys : Live(k)' <=> Live(k)
    BY <2>2 DEF Live
  <2>4. ASSUME NEW p \in Projects
        PROVE  Follow(p)
    BY <1>6, <2>1, <2>2, <2>3
  <2>5. \A p \in Projects : Closed(p)
    BY <1>4, <2>1
  <2> QED
    BY <1>3, <2>4, <2>5
<1>14. ASSUME NEW k \in Keys, ClaimKey(k)
       PROVE  WorkedBucketsFollow'
  <2>1. /\ keyStatus[k] = "approved" /\ keyStatus' = [keyStatus EXCEPT ![k] = "active"]
        /\ UNCHANGED <<projectBucket, keyBucket, keyQuota, projectQuota, outdated>>
    BY <1>14 DEF ClaimKey, bookVars, runVars, opVars
  <2>2. \A k1 \in Keys : Live(k1)' <=> Live(k1)
    BY <1>1, <2>1 DEF Live, TypeOK
  <2> QED
    BY <1>7, <2>1, <2>2
<1>15. (QuietStep /\ outdated' = outdated) \/ (\E p \in Projects : RollBack(p))
       \/ (\E S \in SUBSET Projects : NextMonth(S))
       => UNCHANGED <<projectBucket, keyBucket, keyStatus, keyQuota, projectQuota, outdated>>
  BY DEF QuietStep, RollBack, NextMonth, bookVars, quotaVars
<1>16. CASE (QuietStep /\ outdated' = outdated) \/ (\E p \in Projects : RollBack(p))
            \/ (\E S \in SUBSET Projects : NextMonth(S))
  BY <1>7, <1>15, <1>16 DEF Live
<1> QED
  BY <1>8, <1>9, <1>10, <1>11, <1>12, <1>13, <1>14, <1>16, LedgerCases DEF opVars

\* Every step keeps the allocations of the buckets worked in over what is handed out and spent.
LEMMA WorkedBucketsCoverStep ==
    ASSUME LedgerInv, TypeOK', [Next]_vars
    PROVE  WorkedBucketsCover'
<1>1. TypeOK /\ OpenBuckets /\ WorkedBucketsCover
  BY DEF LedgerInv
<1> DEFINE Covered(p, w) ==
             projectBucket'[p][w].open /\ <<p, w>> \notin outdated' =>
                projectBucket'[p][w].allocated >= LiveQuota(p)' + RevokedCharge(p, w)'
           Closed(p) == Now(p)' # Now(p) => ~projectBucket'[p][Now(p)'].open
<1>2. ASSUME \A p \in Projects : Closed(p) /\ \A w \in Months : w = Now(p) => Covered(p, w)
      PROVE  WorkedBucketsCover'
  <2>1. ASSUME NEW p \in Projects, NEW n \in Months, Now(p)' = n
        PROVE  Covered(p, n)
    <3>1. CASE n = Now(p)
      BY <1>2, <3>1
    <3>2. CASE n # Now(p)
      <4>1. Closed(p)
        BY <1>2
      <4>2. ~projectBucket'[p][n].open
        BY <2>1, <3>2, <4>1
      <4> QED
        BY <4>2
    <3> QED
      BY <3>1, <3>2
  <2>2. ASSUME NEW p \in Projects
        PROVE  projectBucket'[p][Now(p)'].open /\ <<p, Now(p)'>> \notin outdated' =>
                    projectBucket'[p][Now(p)'].allocated >=
                        LiveQuota(p)' + RevokedCharge(p, Now(p))'
    <3>1. PICK n \in Months : Now(p)' = n
      BY SameOrLater
    <3>2. RevokedCharge(p, Now(p))' = RevokedCharge(p, n)'
      BY <3>1 DEF RevokedCharge
    <3>3. Covered(p, n)
      BY <2>1, <3>1
    <3> QED
      BY <3>1, <3>2, <3>3
  <2> QED
    BY <2>2 DEF WorkedBucketsCover
<1>3. ASSUME NEW p \in Projects, Now(p)' = Now(p)
      PROVE  Closed(p)
  BY <1>3
<1>4. ASSUME NEW p \in Projects,
             \A m \in Months : ~(m <= Now(p)) => projectBucket'[p][m].open = projectBucket[p][m].open
      PROVE  Closed(p)
  <2>1. CASE Now(p)' = Now(p)
    BY <2>1
  <2>2. CASE Now(p)' # Now(p)
    <3> DEFINE n == Now(p)'
    <3>1. n \in Months /\ ~(n <= Now(p))
      BY <2>2, SameOrLater
    <3> HIDE DEF n
    <3>2. ~projectBucket[p][n].open
      BY <3>1, LaterMonth
    <3>3. projectBucket'[p][n].open = projectBucket[p][n].open
      BY <1>4, <3>1
    <3> QED
      BY <3>2, <3>3 DEF n
  <2> QED
    BY <2>1, <2>2
<1>5. ASSUME NEW p \in Projects, NEW w \in Months, w = Now(p)
      PROVE  projectBucket[p][w].open /\ <<p, w>> \notin outdated =>
                projectBucket[p][w].allocated >= LiveQuota(p) + RevokedCharge(p, w)
  BY <1>1, <1>5 DEF WorkedBucketsCover
<1>6. \A p \in Projects : Now(p) \in Months /\ Now(p) <= Now(p)
  <2>1. \A p \in Projects : Now(p) \in Months /\ Now(p) \in Nat
    BY <1>1, WorkedMonth
  <2> QED
    BY <2>1
<1> HIDE DEF Closed
<1>7. CASE /\ UNCHANGED <<projectBucket, keyBucket, keyQuota, outdated>>
           /\ \A k \in Keys : /\ Live(k)' <=> Live(k)
                              /\ keyStatus'[k] = "revoked" <=> keyStatus[k] = "revoked"
  <2>1. \A p \in Projects : LiveQuota(p)' = LiveQuota(p)
    BY <1>7, LiveQuotaKept
  <2>2. \A p \in Projects, m \in Months : RevokedCharge(p, m)' = RevokedCharge(p, m)
    BY <1>7, RevokedChargeKept
  <2>3. \A p \in Projects, w \in Months : w = Now(p) => Covered(p, w)
    BY <1>5, <1>7, <2>1, <2>2
  <2>4. \A p \in Projects : Closed(p)
    BY <1>4, <1>7
  <2> QED
    BY <1>2, <2>3, <2>4
<1>8. CASE EnsureCommit
  <2>1. outdated \subseteq outdated' /\ \A p \in Projects : Now(p)' = Now(p)
    BY <1>8, EnsureEffect
  <2>2. ASSUME NEW p \in Projects, NEW w \in Months, w = Now(p), projectBucket'[p][w].open,
               <<p, w>> \notin outdated'
        PROVE  projectBucket'[p][w].allocated >= LiveQuota(p)' + RevokedCharge(p, w)'
    <3>1. LiveQuota(p)' = LiveQuota(p) /\ RevokedCharge(p, w)' = RevokedCharge(p, w)
          /\ LiveQuota(p) \in Nat
      BY <1>1, <1>8, EnsureEffect, KeySumsNat
    <3>2. CASE ~projectBucket[p][w].open /\ w = ensure.month
      <4>1. RevokedCharge(p, w) = 0
        BY <3>2, ClosedMonthUnused
      <4>2. projectBucket'[p][w].allocated >= LiveQuota(p)
        BY <1>8, <2>2, <3>2, EnsureEffect
      <4> QED
        BY <3>1, <4>1, <4>2
    <3>3. CASE ~(~projectBucket[p][w].open /\ w = ensure.month)
      <4>1. projectBucket'[p][w] = projectBucket[p][w]
        BY <1>8, <3>3, EnsureEffect
      <4> QED
        BY <1>5, <2>1, <2>2, <3>1, <4>1
    <3> QED
      BY <3>2, <3>3
  <2>3. \A p \in Projects : Closed(p)
    BY <1>3, <2>1
  <2> QED
    BY <1>2, <2>2, <2>3
<1>9. ASSUME NEW k \in Keys, NEW q \in Quotas, NEW n \in Months,
             ApproveKey(k, q, n) \/ UpdateKeyQuota(k, q, n)
      PROVE  WorkedBucketsCover'
  <2> DEFINE r == ProjectOf[k]
  <2>1. QuotaMoved(k, n)
    BY <1>9, QuotaEffect
  <2>2. /\ r \in Projects /\ n = Now(r) /\ outdated' = outdated
        /\ \A x \in Projects, m \in Months : ~(x = r /\ m = n) =>
                projectBucket'[x][m] = projectBucket[x][m]
        /\ \A k1 \in Keys, m \in Months : ~(k1 = k /\ m = n) =>
                keyBucket'[k1][m] = keyBucket[k1][m]
        /\ <<r, n>> \notin outdated =>
                projectBucket'[r][n].allocated >= LiveQuota(r)' + RevokedCharge(r, n)'
        /\ \A x \in Projects : x # r => LiveQuota(x)' = LiveQuota(x)
    BY <2>1 DEF QuotaMoved, Worked
  <2>3. \A k1 \in Keys : keyStatus'[k1] = "revoked" <=> keyStatus[k1] = "revoked"
    BY <1>1, <1>9 DEF ApproveKey, UpdateKeyQuota, TypeOK
  <2>4. ASSUME NEW p \in Projects, NEW w \in Months, w = Now(p)
        PROVE  Covered(p, w)
    <3>1. CASE p = r
      BY <2>2, <2>4, <3>1
    <3>2. CASE p # r
      <4>1. \A k1 \in Keys : ProjectOf[k1] = p => keyBucket'[k1][w] = keyBucket[k1][w]
        BY <2>2, <3>2
      <4>2. RevokedCharge(p, w)' = RevokedCharge(p, w)
        BY <2>3, <4>1, RevokedChargeKept
      <4>3. projectBucket'[p][w] = projectBucket[p][w] /\ LiveQuota(p)' = LiveQuota(p)
        BY <2>2, <3>2
      <4> QED
        BY <1>5, <2>2, <2>4, <4>2, <4>3
    <3> QED
      BY <3>1, <3>2
  <2>5. ASSUME NEW p \in Projects
        PROVE  Closed(p)
    BY <1>4, <1>6, <2>2
  <2> QED
    BY <1>2, <2>4, <2>5
<1>10. ASSUME NEW r \in Projects, NEW q \in Quotas, NEW n \in Months, UpdateProjectQuota(r, q, n)
       PROVE  WorkedBucketsCover'
  <2>1. ProjectQuotaMoved(r, n)
    BY <1>10, ProjectQuotaEffect
  <2>2. /\ n = Now(r) /\ UNCHANGED <<keyStatus, keyQuota, keyBucket, outdated>>
        /\ \A x \in Projects, m \in Months : ~(x = r /\ m = n) =>
                projectBucket'[x][m] = projectBucket[x][m]
        /\ <<r, n>> \notin outdated =>
                projectBucket'[r][n].allocated >= LiveQuota(r) + RevokedCharge(r, n)
        /\ \A x \in Projects : LiveQuota(x)' = LiveQuota(x)
    BY <2>1 DEF ProjectQuotaMoved, Worked
  <2>3. \A p \in Projects, m \in Months : RevokedCharge(p, m)' = RevokedCharge(p, m)
    BY <2>2, RevokedChargeKept
  <2>4. ASSUME NEW p \in Projects, NEW w \in Months, w = Now(p)
        PROVE  Covered(p, w)
    <3>1. CASE p = r
      BY <2>2, <2>3, <2>4, <3>1
    <3>2. CASE p # r
      BY <1>5, <2>2, <2>3, <2>4, <3>2
    <3> QED
      BY <3>1, <3>2
  <2>5. ASSUME NEW p \in Projects
        PROVE  Closed(p)
    BY <1>4, <1>6, <2>2
  <2> QED
    BY <1>2, <2>4, <2>5
<1>11. ASSUME NEW k \in Keys, NEW n \in Months, RevokeKey(k, n)
       PROVE  WorkedBucketsCover'
  <2> DEFINE r == ProjectOf[k]
  <2>1. /\ r \in Projects /\ Worked(r, n) /\ outdated' = outdated
        /\ \A x \in Projects, m \in Months :
                projectBucket'[x][m].open = projectBucket[x][m].open
        /\ \A x \in Projects : x # r => /\ projectBucket'[x] = projectBucket[x]
                                        /\ \A m \in Months :
                                                RevokedCharge(x, m)' = RevokedCharge(x, m)
        /\ projectBucket[r][n].open /\ <<r, n>> \notin outdated =>
                projectBucket'[r][n].allocated >= LiveQuota(r)' + RevokedCharge(r, n)'
    BY <1>11, RevokeEffect
  <2>2. n = Now(r)
    BY <2>1 DEF Worked
  <2>3. \A k1 \in Keys \ {k} : keyStatus'[k1] = keyStatus[k1] /\ keyQuota'[k1] = keyQuota[k1]
    BY <1>1, <1>11 DEF RevokeKey, TypeOK
  <2>4. ASSUME NEW p \in Projects, NEW w \in Months, w = Now(p)
        PROVE  Covered(p, w)
    <3>1. CASE p = r
      BY <2>1, <2>2, <2>4, <3>1
    <3>2. CASE p # r
      <4>1. LiveQuota(p)' = LiveQuota(p)
        BY <2>3, <3>2, LiveQuotaKept DEF Live
      <4>2. projectBucket'[p] = projectBucket[p] /\ RevokedCharge(p, w)' = RevokedCharge(p, w)
        BY <2>1, <3>2
      <4> QED
        BY <1>5, <2>1, <2>4, <4>1, <4>2
    <3> QED
      BY <3>1, <3>2
  <2>5. ASSUME NEW p \in Projects
        PROVE  Closed(p)
    BY <1>4, <2>1
  <2> QED
    BY <1>2, <2>4, <2>5
<1>12. ASSUME NEW c \in Calls, NEW m \in Months, Reserve(c, m)
       PROVE  WorkedBucketsCover'
  <2> DEFINE r == ProjectOf[KeyOf[c]]
  <2>1. /\ r \in Projects /\ opMonth[r] = Free
        /\ UNCHANGED <<month, quotaVars, opVars>>
        /\ \A p \in Projects, x \in Months : ~(p = r /\ x = m) =>
                projectBucket'[p][x] = projectBucket[p][x]
        /\ m = month /\ <<r, m>> \notin outdated =>
                projectBucket'[r][m].allocated >= LiveQuota(r) + RevokedCharge(r, m)
        /\ \A p \in Projects : LiveQuota(p)' = LiveQuota(p)
        /\ \A p \in Projects, x \in Months : RevokedCharge(p, x)' = RevokedCharge(p, x)
    BY <1>12, ReserveEffect
  <2>2. outdated' = outdated /\ Now(r) = month /\ \A p \in Projects : Now(p)' = Now(p)
    BY <2>1 DEF opVars, Now
  <2> HIDE DEF r
  <2>3. ASSUME NEW p \in Projects, NEW w \in Months, w = Now(p)
        PROVE  Covered(p, w)
    <3>1. CASE p = r /\ w = m
      BY <2>1, <2>2, <2>3, <3>1
    <3>2. CASE ~(p = r /\ w = m)
      <4>1. projectBucket'[p][w] = projectBucket[p][w]
        BY <2>1, <3>2
      <4> QED
        BY <1>5, <2>1, <2>2, <2>3, <4>1
    <3> QED
      BY <3>1, <3>2
  <2>4. \A p \in Projects : Closed(p)
    BY <1>3, <2>2
  <2> QED
    BY <1>2, <2>3, <2>4
<1>13. ASSUME NEW c \in Calls, NEW success \in BOOLEAN, Finalize(c, success),
              UNCHANGED <<month, quotaVars, ensure, opVars>>
       PROVE  WorkedBucketsCover'
  <2>1. /\ \A r \in Projects, m \in Months :
                /\ projectBucket'[r][m].open = projectBucket[r][m].open
                /\ projectBucket'[r][m].allocated = projectBucket[r][m].allocated
        /\ \A p \in Projects : LiveQuota(p)' = LiveQuota(p) /\ Now(p)' = Now(p)
        /\ \A p \in Projects, x \in Months : RevokedCharge(p, x)' = RevokedCharge(p, x)
    BY <1>13, FinalizeEffect
  <2>2. outdated' = outdated
    BY <1>13 DEF opVars
  <2>3. ASSUME NEW p \in Projects, NEW w \in Months, w = Now(p)
        PROVE  Covered(p, w)
    BY <1>5, <2>1, <2>2, <2>3
  <2>4. \A p \in Projects : Closed(p)
    BY <1>3, <2>1
  <2> QED
    BY <1>2, <2>3, <2>4
<1>14. ASSUME NEW k \in Keys, ClaimKey(k)
       PROVE  WorkedBucketsCover'
  <2>1. /\ keyStatus[k] = "approved" /\ keyStatus' = [keyStatus EXCEPT ![k] = "active"]
        /\ UNCHANGED <<projectBucket, keyBucket, keyQuota, outdated>>
    BY <1>14 DEF ClaimKey, bookVars, runVars, opVars
  <2>2. \A k1 \in Keys : /\ Live(k1)' <=> Live(k1)
                         /\ keyStatus'[k1] = "revoked" <=> keyStatus[k1] = "revoked"
    BY <1>1, <2>1 DEF Live, TypeOK
  <2> QED
    BY <1>7, <2>1, <2>2
<1>15. (QuietStep /\ outdated' = outdated) \/ (\E p \in Projects : RollBack(p))
       \/ (\E S \in SUBSET Projects : NextMonth(S))
       => UNCHANGED <<projectBucket, keyBucket, keyStatus, keyQuota, outdated>>
  BY DEF QuietStep, RollBack, NextMonth, bookVars, quotaVars
<1>16. CASE (QuietStep /\ outdated' = outdated) \/ (\E p \in Projects : RollBack(p))
            \/ (\E S \in SUBSET Projects : NextMonth(S))
  BY <1>7, <1>15, <1>16 DEF Live
<1> QED
  BY <1>8, <1>9, <1>10, <1>11, <1>12, <1>13, <1>14, <1>16, LedgerCases DEF opVars

\* Every step keeps the live keys' quotas within their project's, while no bucket is outdated.
LEMMA LiveQuotasFitStep ==
    ASSUME LedgerInv, TypeOK', [Next]_vars
    PROVE  LiveQuotasFit'
<1>1. TypeOK /\ LiveQuotasFit
  BY DEF LedgerInv
<1>2. CASE UNCHANGED <<keyStatus, keyQuota, projectQuota>> /\ outdated \subseteq outdated'
  <2>1. \A r \in Projects : LiveQuota(r)' = LiveQuota(r)
    BY <1>2, LiveQuotaKept DEF Live
  <2> QED
    BY <1>1, <1>2, <2>1 DEF LiveQuotasFit
<1>3. ASSUME NEW k \in Keys, NEW q \in Quotas, NEW w \in Months,
             ApproveKey(k, q, w) \/ UpdateKeyQuota(k, q, w)
      PROVE  LiveQuotasFit'
  <2>1. QuotaMoved(k, w)
    BY <1>3, QuotaEffect
  <2>2. /\ projectQuota' = projectQuota /\ outdated' = outdated
        /\ <<ProjectOf[k], w>> \notin outdated =>
                LiveQuota(ProjectOf[k])' <= projectQuota[ProjectOf[k]]
        /\ \A r \in Projects : r # ProjectOf[k] => LiveQuota(r)' = LiveQuota(r)
    BY <2>1 DEF QuotaMoved, Worked
  <2> QED
    BY <1>1, <2>2 DEF LiveQuotasFit
<1>4. ASSUME NEW p \in Projects, NEW q \in Quotas, NEW w \in Months, UpdateProjectQuota(p, q, w)
      PROVE  LiveQuotasFit'
  <2>1. ProjectQuotaMoved(p, w)
    BY <1>4, ProjectQuotaEffect
  <2> QED
    BY <1>1, <2>1 DEF LiveQuotasFit, ProjectQuotaMoved, Worked
<1>5. ASSUME NEW k \in Keys, ClaimKey(k)
      PROVE  LiveQuotasFit'
  <2>1. /\ keyStatus[k] = "approved" /\ keyStatus' = [keyStatus EXCEPT ![k] = "active"]
        /\ UNCHANGED <<keyQuota, projectQuota, outdated>>
    BY <1>5 DEF ClaimKey, runVars, opVars
  <2>2. \A k1 \in Keys : Live(k1)' <=> Live(k1)
    BY <1>1, <2>1 DEF Live, TypeOK
  <2>3. \A r \in Projects : LiveQuota(r)' = LiveQuota(r)
    BY <2>1, <2>2, LiveQuotaKept
  <2> QED
    BY <1>1, <2>1, <2>3 DEF LiveQuotasFit
<1>6. ASSUME NEW k \in Keys, NEW w \in Months, RevokeKey(k, w)
      PROVE  LiveQuotasFit'
  <2>1. projectQuota' = projectQuota /\ outdated' = outdated
        /\ \A r \in Projects : LiveQuota(r)' <= LiveQuota(r)
    BY <1>6, RevokeEffect
  <2>2. ASSUME NEW r \in Projects, LiveQuota(r) <= projectQuota[r]
        PROVE  LiveQuota(r)' <= projectQuota'[r]
    <3>1. LiveQuota(r) \in Nat /\ LiveQuota(r)' \in Nat /\ projectQuota[r] \in Nat
      BY <1>1, KeySumsNat, LiveQuotaNext DEF TypeOK
    <3> QED
      BY <2>1, <2>2, <3>1
  <2> QED
    BY <1>1, <2>1, <2>2 DEF LiveQuotasFit
<1>7. CASE EnsureCommit
  BY <1>2, <1>7, EnsureEffect DEF quotaVars
<1>8. (QuietStep /\ outdated' = outdated) \/ (\E p \in Projects : RollBack(p))
      \/ (\E S \in SUBSET Projects : NextMonth(S))
      \/ (\E c \in Calls, m \in Months : Reserve(c, m))
      => UNCHANGED <<keyStatus, keyQuota, projectQuota>> /\ outdated' = outdated
  BY DEF QuietStep, RollBack, NextMonth, Reserve, quotaVars, opVars
<1>9. ASSUME UNCHANGED <<month, quotaVars, ensure, opVars>>
      PROVE  LiveQuotasFit'
  BY <1>2, <1>9 DEF quotaVars, opVars
<1>10. CASE (QuietStep /\ outdated' = outdated) \/ (\E p \in Projects : RollBack(p))
            \/ (\E S \in SUBSET Projects : NextMonth(S))
            \/ (\E c \in Calls, m \in Months : Reserve(c, m))
  BY <1>2, <1>8, <1>10
<1> QED
  BY <1>3, <1>4, <1>5, <1>6, <1>7, <1>9, <1>10, LedgerCases DEF opVars

-------------------------------------------------------------------------------
(* The theorems *)

\* The tables are empty at first.
LEMMA InitInv == Init => LedgerInv
<1> SUFFICES ASSUME Init PROVE LedgerInv
  OBVIOUS
<1>1. 0 \in Months
  BY LedgerAssumption DEF Months
<1>2. TypeOK
  <2>1. NoProjectBucket \in ProjectBucket /\ NoKeyBucket \in KeyBucket /\ NoCubeRow \in CubeRow
    BY DEF ProjectBucket, KeyBucket, CubeRow, NoProjectBucket, NoKeyBucket, NoCubeRow
  <2>2. /\ projectBucket \in [Projects -> [Months -> ProjectBucket]]
        /\ keyBucket \in [Keys -> [Months -> KeyBucket]]
        /\ cube \in [Keys -> [Months -> CubeRow]]
    BY <2>1 DEF Init
  <2>3. projectQuota \in [Projects -> Nat]
    BY LedgerAssumption DEF Init
  <2>4. responses \in [Calls -> 0..MaxResponses]
    BY LedgerAssumption DEF Init
  <2>5. ensure \in EnsureStates
    BY DEF Init, EnsureStates
  <2> QED
    BY <1>1, <2>2, <2>3, <2>4, <2>5 DEF Init, TypeOK, Free
<1>3. \A k, p, m : /\ KeyCalls(k, m, {"pending"}) = {} /\ KeyCalls(k, m, {"charged"}) = {}
                   /\ ProjectCalls(p, m, {"pending"}) = {} /\ ProjectCalls(p, m, {"charged"}) = {}
  BY DEF Init, KeyCalls, ProjectCalls
<1>4. SumOver(CreditOf, {}) = 0
  BY SumOverEmpty
<1>5. BucketsMatchCalls
  BY <1>3, <1>4 DEF Init, BucketsMatchCalls, NoKeyBucket, NoProjectBucket
<1>6. Counted(NoCubeRow, {}) = NoCubeRow
  <2>1. {c \in {} : CreditOf[c] > 0} = {} /\ {c \in {} : CreditOf[c] = 0} = {}
    OBVIOUS
  <2>2. Cardinality({}) = 0
    BY FS_EmptySet
  <2> QED
    BY <1>4, <2>1, <2>2 DEF Counted, NoCubeRow
<1>7. CubeMatchesCalls
  BY <1>3, <1>6 DEF Init, CubeMatchesCalls
<1>8. PendingCallHasActiveKey /\ PromptFollowsBilling
  BY DEF Init, PendingCallHasActiveKey, PromptFollowsBilling
<1>9. OpenBuckets /\ FreshSnapshot /\ MonthsRead /\ WorkedBucketsFollow /\ WorkedBucketsCover
  <2>1. \A p \in Projects : Now(p) = 0
    BY DEF Init, Now
  <2>2. MonthsRead
    BY <2>1 DEF Init, MonthsRead
  <2> QED
    BY <1>1, <2>1, <2>2, LedgerAssumption DEF Init, OpenBuckets, FreshSnapshot,
       WorkedBucketsFollow, WorkedBucketsCover, NoKeyBucket, NoProjectBucket, NoEnsure
<1>10. LiveQuotasFit
  <2>1. \A p \in Projects : LiveKeys(p) = {}
    BY DEF Init, LiveKeys, Live
  <2>2. SumOver(keyQuota, {}) = 0
    BY SumOverEmpty
  <2>3. \A p \in Projects : projectQuota[p] \in Nat
    BY <1>2 DEF TypeOK
  <2> QED
    BY <2>1, <2>2, <2>3 DEF LiveQuotasFit, LiveQuota
<1> QED
  BY <1>2, <1>5, <1>7, <1>8, <1>9, <1>10 DEF LedgerInv

\* Every step keeps the inductive invariant.
LEMMA LedgerStep == LedgerInv /\ [Next]_vars => LedgerInv'
<1> SUFFICES ASSUME LedgerInv, [Next]_vars
             PROVE  LedgerInv'
  OBVIOUS
<1>1. TypeOK'
  BY TypeStep
<1>2. BucketsMatchCalls' /\ CubeMatchesCalls' /\ PendingCallHasActiveKey' /\ PromptFollowsBilling'
  BY BooksStep, CubeStep, PendingStep, PromptStep
<1>3. OpenBuckets' /\ FreshSnapshot'
  BY <1>1, OpenBucketsStep, FreshSnapshotStep
<1>4. MonthsRead' /\ WorkedBucketsFollow' /\ WorkedBucketsCover' /\ LiveQuotasFit'
  BY <1>1, MonthsStep, WorkedBucketsFollowStep, WorkedBucketsCoverStep, LiveQuotasFitStep
<1> QED
  BY <1>1, <1>2, <1>3, <1>4 DEF LedgerInv

\* The inductive invariant holds in every reachable state of the ledger.
THEOREM LedgerInvariant == Spec => []LedgerInv
BY InitInv, LedgerStep, PTL DEF Spec

\* Every column keeps to its domain and no counter of a bucket goes below zero: no UPDATE of
\* store.go runs into a CHECK constraint of the credit tables, except UpdateKeyQuota's, whose
\* guard the allocation of an outdated bucket needs.
THEOREM TypesHold == Spec => []TypeOK
<1>1. LedgerInv => TypeOK
  BY DEF LedgerInv
<1> QED
  BY <1>1, LedgerInvariant, PTL

\* What is pending and charged in every bucket is what its calls add up to, whoever
\* settles them: Finalize, RecoverExpired or RevokeKey.
THEOREM BooksHold == Spec => []BucketsMatchCalls
<1>1. LedgerInv => BucketsMatchCalls
  BY DEF LedgerInv
<1> QED
  BY <1>1, LedgerInvariant, PTL

\* The usage cube counts every charged call once.
THEOREM CubeHolds == Spec => []CubeMatchesCalls
<1>1. LedgerInv => CubeMatchesCalls
  BY DEF LedgerInv
<1> QED
  BY <1>1, LedgerInvariant, PTL

\* No call is left pending under a revoked key.
THEOREM RevocationLeavesNothingPending == Spec => []PendingCallHasActiveKey
<1>1. LedgerInv => PendingCallHasActiveKey
  BY DEF LedgerInv
<1> QED
  BY <1>1, LedgerInvariant, PTL

\* A prompt is read only when its call has been charged, and always then.
THEOREM PromptsFollow == Spec => []PromptFollowsBilling
<1>1. LedgerInv => PromptFollowsBilling
  BY DEF LedgerInv
<1> QED
  BY <1>1, LedgerInvariant, PTL

\* The bucket of the current month is the one worked in of its project, if it is there.
LEMMA OpenNow ==
    ASSUME LedgerInv, NEW p \in Projects, projectBucket[p][month].open
    PROVE  Now(p) = month
<1>1. /\ Now(p) \in Months /\ month \in Months /\ Now(p) <= month
      /\ month <= Now(p)
  BY WorkedMonth DEF LedgerInv, TypeOK, MonthsRead, OpenBuckets
<1> QED
  BY <1>1, LedgerAssumption DEF Months

\* The current allocation covers what is handed out and spent, unless the bucket was outdated
\* when EnsureCurrentBuckets made it, from quotas that an operation has changed since in the
\* month it had read before midnight: otherwise ApproveKey and UpdateKeyQuota can trust it.
THEOREM AllocationHolds == Spec => []AllocationCovers
<1>1. LedgerInv => AllocationCovers
  <2> SUFFICES ASSUME LedgerInv, NEW p \in Projects, projectBucket[p][month].open,
                      <<p, month>> \notin outdated
               PROVE  projectBucket[p][month].allocated >=
                            LiveQuota(p) + RevokedCharge(p, month)
    BY DEF AllocationCovers
  <2>1. Now(p) = month
    BY OpenNow
  <2> QED
    BY <2>1 DEF LedgerInv, WorkedBucketsCover
<1> QED
  BY <1>1, LedgerInvariant, PTL

\* A project hands out no more than its quota to its live keys, unless one of its buckets was
\* outdated when it was made.
THEOREM QuotasFit == Spec => []LiveQuotasFit
<1>1. LedgerInv => LiveQuotasFit
  BY DEF LedgerInv
<1> QED
  BY <1>1, LedgerInvariant, PTL

\* A current bucket of a live key holds its current quota, whoever creates it, and whenever; so
\* does a project's, unless it was outdated when it was made.
THEOREM BucketsFollow == Spec => []BucketsFollowQuotas
<1>1. LedgerInv => BucketsFollowQuotas
  <2> SUFFICES ASSUME LedgerInv
               PROVE  BucketsFollowQuotas
    OBVIOUS
  <2>1. ASSUME NEW p \in Projects, projectBucket[p][month].open, <<p, month>> \notin outdated
        PROVE  projectBucket[p][month].quota = projectQuota[p]
    BY <2>1, OpenNow DEF LedgerInv, WorkedBucketsFollow
  <2>2. ASSUME NEW k \in Keys, keyBucket[k][month].open, Live(k)
        PROVE  keyBucket[k][month].quota = keyQuota[k]
    <3>1. ProjectOf[k] \in Projects /\ month \in Months
      BY LedgerAssumption DEF LedgerInv, TypeOK
    <3>2. projectBucket[ProjectOf[k]][month].open
      BY <2>2, <3>1 DEF LedgerInv, OpenBuckets
    <3>3. Now(ProjectOf[k]) = month
      BY <3>1, <3>2, OpenNow
    <3> QED
      BY <2>2, <3>3 DEF LedgerInv, WorkedBucketsFollow
  <2> QED
    BY <2>1, <2>2 DEF BucketsFollowQuotas
<1> QED
  BY <1>1, LedgerInvariant, PTL
===============================================================================
