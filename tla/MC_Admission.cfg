SPECIFICATION FairSpec
CONSTANTS
    p1 = p1
    k1 = k1
    k2 = k2
    c1 = c1
    c2 = c2
    c3 = c3
    Projects = {p1}
    Keys = {k1, k2}
    Calls = {c1, c2}
    ProjectOf <- KeysOfOneProject
    KeyOf <- OneKey
    CreditOf <- PaidCredits
    Prompted = {}
    Quotas = {1, 3}
    LastMonth = 0
    MaxResponses = 1
    RecoveryBatch = 1
INVARIANTS
    OverageIsOneCall
PROPERTIES
    CallsKeepContract
    EveryCallSettles
CHECK_DEADLOCK FALSE
