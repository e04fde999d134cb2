SPECIFICATION BrowserSpec
CONSTANTS
    Keys <- MCKeys
    FREEZE = 2
    TURN = 2
    NITRO_TURN = 3
    RUN_UP = 2
    BRAKE = 2
    TIMES = 7
    Names <- MCNames
    NAME_LIMIT = 1
    ASKS = 3
INVARIANTS
    ControlsSafe
    NoStuckKey
    ChosenNameGone
PROPERTIES
    AttemptSettles
    FrozenStops
    HeldKeysSteady
CHECK_DEADLOCK FALSE
