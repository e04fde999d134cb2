SPECIFICATION LoopSpec
CONSTANTS
    u1 = u1
    u2 = u2
    u3 = u3
    u4 = u4
    c1 = c1
    c2 = c2
    c3 = c3
    d1 = d1
    d2 = d2
    d3 = d3
    Users = {u1, u2, u3, u4}
    Cars = {c1, c2, c3}
    Devices = {d1, d2, d3}
    CarOf <- TripleCarOf
    AdminBlocked = {}
    Sessions = {}
    None = None
    QUEUE_LEASE = 2
    QUEUE_OFFER = 1
    DEVICE_FRESHNESS = 1
    DRIVE_DURATION = 1
    DRIVE_CONNECTION_TIMEOUT = 1
    Place <- InTurn
INVARIANTS
    AdvancedIsTheLoop
    AdvanceSettles
