SPECIFICATION Spec
CONSTANTS
    None = None
    r1 = r1
    r2 = r2
    r3 = r3
    r4 = r4
    Requests = {r1, r2, r3, r4}
    Faults = {"redis", "expiry"}
SYMMETRY Symmetry
INVARIANTS
    TypeOK
    OneTokenPerFamily
    SurvivorsWereLate
PROPERTIES
    EndedFamilyStaysEnded
CHECK_DEADLOCK FALSE
