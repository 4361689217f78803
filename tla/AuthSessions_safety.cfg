SPECIFICATION Spec
CONSTANTS
    c1 = c1
    c2 = c2
    d1 = d1
    d2 = d2
    Clients = {c1, c2}
    Devices = {d1, d2}
    DeviceOf <- MCDeviceOf
    UserDevice = d1
    NoDevice = NoDevice
    NoToken = NoToken
    MaxClock = 1
    MaxFaults = 2
INVARIANTS
    KeepsAccess
    DeletedStaysDeleted
