SPECIFICATION Spec
CONSTANTS
    NoOne = NoOne
    NoKey = NoKey
    Keys = {k1}
    Handlers = {h1, h2, h3}
    MaxAdjustments = 2
    Faults = {"request", "redis"}
SYMMETRY HandlersAreAlike
INVARIANTS
    TypeOK
    AuditsTellStatus
    QuotasAreDecided
    OneSecret
    EventsFollowCommits
CHECK_DEADLOCK FALSE
