SPECIFICATION Spec
CONSTANTS
    w1 = w1
    v1 = v1
    Devices = {w1, v1}
    Wireguard = {w1}
    Servers = {s1}
    Categories = {c1}
    Plans = {p1}
    Messages = {m1, m2}
    None = None
    MaxUpdates = 4
    MaxFaults = 2
SYMMETRY Symmetric
INVARIANTS
    TypeOK
    OneRequestPerPrompt
    CreatesWhatWasAsked
    ShownIsCurrent
    LinkShownWorks
PROPERTIES
    TextAnswersPrompt
    RevokedStaysRevoked
CHECK_DEADLOCK FALSE
