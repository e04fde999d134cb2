SPECIFICATION SteadySpec
CONSTANTS
    c1 = c1
    d1 = d1
    Users = {u1}
    Cars = {c1}
    Devices = {d1}
    CarOf <- OneCarOf
    AdminBlocked = {}
    Sessions = {s1}
    None = None
    DEVICE_FRESHNESS = 1
    DRIVE_DURATION = 1
    DRIVE_CONNECTION_TIMEOUT = 1
    DeviceSockets = {k1}
    BrowserSockets = {b1}
SYMMETRY Symm
INVARIANTS
    DisconnectedIsOffline
