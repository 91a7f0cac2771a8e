SPECIFICATION Spec
CONSTANTS
    Keys = {k1, k2}
    Ips = {i1, i2}
    Calls = {c1, c2, c3, c4}
    NoKey = NoKey
    NoIp = NoIp
    NotPeer = NotPeer
    MaxFaults = 2
SYMMETRY Symmetric
INVARIANTS
    TypeOK
    RevokedPeerStaysOff
    SettledPeerStaysOn
    StartupReapplies
PROPERTIES
    ImplementsPeerAccess
CHECK_DEADLOCK FALSE
