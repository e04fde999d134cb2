SPECIFICATION AccountsSpec
CONSTANTS
    ACCOUNTS = 1
    LINKS = 2
    SESSIONS = 1
    LOSSES = 1
INVARIANTS
    LinksFitCredential
    ResetSignsOut
PROPERTIES
    RegistrantGetsIn
CHECK_DEADLOCK FALSE
