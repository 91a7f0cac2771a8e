SPECIFICATION FairSpec
CONSTANTS
    u1 = u1
    u2 = u2
    v1 = v1
    d1 = d1
    d2 = d2
    Uuids = {u1, u2}
    Devices = {d1}
    DeviceOf <- MCDeviceOf
    NoUuid = NoUuid
    Calls = {c1, c2}
    AddExisting = {"replaces"}
    RemoveAbsent = {"ignores"}
    MaxAttempts = 1
    MaxFaults = 0
PROPERTIES
    RevokedCredentialStops
CHECK_DEADLOCK FALSE
