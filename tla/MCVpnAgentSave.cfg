SPECIFICATION Spec
CONSTANTS
    Keys = {k1, k2}
    Ips = {i1, i2}
    Calls = {c1, c2, c3}
    NoKey = NoKey
    NoIp = NoIp
    NotPeer = NotPeer
    MaxFaults = 1
SYMMETRY Symmetric
INVARIANTS
    RemovalSurvivesReboot
CHECK_DEADLOCK FALSE
