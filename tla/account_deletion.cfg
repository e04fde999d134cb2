SPECIFICATION Unfair
CONSTANTS
    ACCOUNTS = 2
    LINKS = 2
    SESSIONS = 1
    LOSSES = 1
INVARIANTS
    DeletedKeepsNothing
CHECK_DEADLOCK FALSE
