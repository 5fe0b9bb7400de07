SPECIFICATION NoticesSpec
CONSTANTS
    NoOne = NoOne
    NoKey = NoKey
    Keys = {k1}
    Handlers = {h1}
    Loads = {l1, l2}
    Count = 2
    StreamMaxLength = 3
    MaxCatalogEvents = 0
    MaxDrops = 0
    MaxAdjustments = 0
    Faults = {}
PROPERTIES
    SecretStaysUntilClosed
CHECK_DEADLOCK FALSE
