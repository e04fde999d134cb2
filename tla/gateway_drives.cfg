SPECIFICATION FewSpec
CONSTANTS
    c1 = c1
    d1 = d1
    Users = {u1}
    Cars = {c1}
    Devices = {d1}
    CarOf <- OneCarOf
    AdminBlocked = {}
    Sessions = {s1, s2}
    None = None
    DEVICE_FRESHNESS = 1
    DRIVE_DURATION = 1
    DRIVE_CONNECTION_TIMEOUT = 1
    DeviceSockets = {k1, k2}
    BrowserSockets = {b1, b2}
SYMMETRY Symm
INVARIANTS
    NoLeakedDrive
    ActiveIsConnected
    PairedWithDevice
