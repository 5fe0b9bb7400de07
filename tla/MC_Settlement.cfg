SPECIFICATION Spec
CONSTANTS
    p1 = p1
    k1 = k1
    k2 = k2
    c1 = c1
    c2 = c2
    c3 = c3
    Projects = {p1}
    Keys = {k1}
    Calls = {c1, c2, c3}
    ProjectOf <- KeysOfOneProject
    KeyOf <- OneKey
    CreditOf <- MixedCredits
    Prompted = {c1, c3}
    Quotas = {2}
    LastMonth = 1
    MaxResponses = 0
    RecoveryBatch = 2
INVARIANTS
    TypeOK
    BucketsMatchCalls
    CubeMatchesCalls
    PendingCallHasActiveKey
    PromptFollowsBilling
PROPERTIES
    SettledOnce
    BillsOnce
CHECK_DEADLOCK FALSE
