SPECIFICATION TablesSpec
CONSTANTS
    c1 = c1
    d1 = d1
    Users = {u1}
    Cars = {c1}
    Devices = {d1}
    CarOf <- OneCarOf
    AdminBlocked = {}
    Sessions = {s1}
    None = None
    DEVICE_FRESHNESS = 1
    DRIVE_DURATION = 2
    DRIVE_CONNECTION_TIMEOUT = 1
SYMMETRY Symm
INVARIANTS
    HeartbeatFreesNoCar
