SPECIFICATION FairSpec
CONSTANTS
    u1 = u1
    u2 = u2
    v1 = v1
    d1 = d1
    d2 = d2
    Uuids = {u1, u2, v1}
    Devices = {d1, d2}
    DeviceOf <- MCDeviceOf
    NoUuid = NoUuid
    Calls = {c1, c2}
    AddExisting = {"rejects", "ignores", "replaces"}
    RemoveAbsent = {"rejects", "ignores"}
    MaxAttempts = 2
    MaxFaults = 1
INVARIANTS
    TypeOK
    QuietPassConverges
    SettledUserIsStored
    RevokedUserIsNotStored
PROPERTIES
    EmailsConverge
CHECK_DEADLOCK FALSE
