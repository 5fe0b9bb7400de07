SPECIFICATION Spec
CONSTANTS
    LastRoute = 3
    Faults = {"client", "database", "crash", "revocation", "slow"}
INVARIANTS
    TypeOK
    SuccessIsCharged
    LastAnswerIsRelayed
PROPERTIES
    NoSwitchAfterReply
    KeepsContract
CHECK_DEADLOCK FALSE
