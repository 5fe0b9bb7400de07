SPECIFICATION Spec
CONSTANTS
    NoCode = NoCode
    s1 = s1
    s2 = s2
    g1 = g1
    g2 = g2
    g3 = g3
    Sends = {s1, s2}
    Guesses = {g1, g2, g3}
    MaxAttempts = 2
    MaxTries = 2
    Faults = {"redis", "mail", "slow"}
SYMMETRY Symmetry
INVARIANTS
    TypeOK
    AcceptedOnce
    WrongGuessesAreCounted
PROPERTIES
    LockedCodeRejects
    MailedCodeStays
CHECK_DEADLOCK FALSE
