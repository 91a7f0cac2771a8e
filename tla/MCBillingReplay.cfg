SPECIFICATION Spec
CONSTANTS
    p1 = p1
    p2 = p2
    alice = alice
    bob = bob
    Payments = {p1}
    Users = {alice}
    Owner <- SameOwner
    Requests = {t1, t2}
    NoPayment = NoPayment
    Duration = 1
    MaxUses = 1
    MaxStarts = 2
    MaxTime = 2
    MaxFaults = 0
INVARIANTS
    WebhookIsIdempotent
CHECK_DEADLOCK FALSE
