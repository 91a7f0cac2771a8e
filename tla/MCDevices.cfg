SPECIFICATION Spec
CONSTANTS
    w1 = w1
    w2 = w2
    v1 = v1
    Devices = {w1, w2, v1}
    Vless = {v1}
    NoDevice = NoDevice
    Keys = {k1, k2, k3, k4}
    NoKey = NoKey
    Ips = {1, 2}
    Requests = {t1, t2}
    DeviceLimit = 2
    MaxIpAttempts = 2
    MaxStarts = 5
    MaxFaults = 1
SYMMETRY Symmetric
INVARIANTS
    TypeOK
    NoOrphanWithoutFailure
    RowsMatchNodes
    LimitUnlessReenabled
    ExpiredUserIsOff
CHECK_DEADLOCK FALSE
