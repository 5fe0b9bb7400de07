SPECIFICATION NoticesSpec
CONSTANTS
    NoOne = NoOne
    NoKey = NoKey
    Keys = {k1}
    Handlers = {h1}
    Loads = {l1}
    Count = 2
    StreamMaxLength = 3
    MaxCatalogEvents = 1
    MaxDrops = 1
    MaxAdjustments = 0
    Faults = {"request", "redis"}
SYMMETRY AreAlike
INVARIANTS
    NothingSkipped
CHECK_DEADLOCK FALSE
