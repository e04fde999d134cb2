SPECIFICATION PromptSpec
CONSTANTS
    c1 = c1
    d1 = d1
    Users = {u1, u2, u3}
    Cars = {c1}
    Devices = {d1}
    CarOf <- OneCarOf
    AdminBlocked = {}
    Sessions = {s1}
    None = None
    DEVICE_FRESHNESS = 2
    DRIVE_DURATION = 1
    DRIVE_CONNECTION_TIMEOUT = 1
    Patient = u1
    QUEUE_LEASE = 2
    QUEUE_OFFER = 1
INVARIANTS
    QueueOrder
PROPERTIES
    PlacesKept
    WaitingGetsOffer
