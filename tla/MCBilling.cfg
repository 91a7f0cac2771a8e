SPECIFICATION Spec
CONSTANTS
    p1 = p1
    p2 = p2
    alice = alice
    bob = bob
    Payments = {p1, p2}
    Users = {alice, bob}
    Owner <- OtherOwner
    Requests = {t1, t2}
    NoPayment = NoPayment
    Duration = 1
    MaxUses = 1
    MaxStarts = 3
    MaxTime = 2
    MaxFaults = 1
SYMMETRY Symmetric
INVARIANTS
    TypeOK
    OnePeriodPerPayment
    RefundedOnce
    ExpiredIsOver
    PromoWithinMaxUses
CHECK_DEADLOCK FALSE
