SPECIFICATION Spec
CONSTANTS
    p1 = p1
    k1 = k1
    k2 = k2
    c1 = c1
    c2 = c2
    c3 = c3
    Projects = {p1}
    Keys = {k1, k2}
    Calls = {c2}
    ProjectOf <- KeysOfOneProject
    KeyOf <- TwoKeys
    CreditOf <- PaidCredits
    Prompted = {}
    Quotas = {1, 3}
    LastMonth = 1
    MaxResponses = 0
    RecoveryBatch = 1
INVARIANTS
    LiveQuotasFit
    AllocationCovers
    BucketsFollowQuotas
PROPERTIES
    PastMonthsKeepQuotas
CHECK_DEADLOCK FALSE
