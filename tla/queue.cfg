SPECIFICATION CalmSpec
CONSTANTS
    c1 = c1
    d1 = d1
    Users = {u1, u2}
    Cars = {c1}
    Devices = {d1}
    CarOf <- OneCarOf
    AdminBlocked = {}
    Sessions = {s1, s2}
    None = None
    DEVICE_FRESHNESS = 1
    DRIVE_DURATION = 2
    DRIVE_CONNECTION_TIMEOUT = 1
    QUEUE_LEASE = 2
    QUEUE_OFFER = 1
INVARIANTS
    TypeOK
    OneDrive
    OffersAtTheFront
    DriverNotQueued
    AcceptedRowHasDrive
    ConnectedCarNotFreed
PROPERTIES
    OfferNotExtended
    OfferWithdrawnForCapacity
    OffersMatchCapacity
    LendsCars
