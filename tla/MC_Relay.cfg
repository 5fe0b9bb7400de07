SPECIFICATION FairSpec
CONSTANTS
    MaxCalls = 3
    Endpoints = {"responses", "realtime"}
    Faults = {"client", "upstream", "database", "revocation", "crash", "slow"}
INVARIANTS
    TypeOK
    ServedIsBilled
PROPERTIES
    CreatesKeepContract
    RelayIsTornDown
CHECK_DEADLOCK FALSE
