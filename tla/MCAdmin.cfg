SPECIFICATION Spec
CONSTANTS
    Admins = {a1, a2}
    Roles = {"viewer", "superadmin"}
    Databases <- Installations
    Tabs = {t1, t2}
    Requests = {r1, r2}
    MaxLogins = 2
    MaxWrites = 2
SYMMETRY Symmetric
CONSTRAINT Focus
INVARIANTS
    TypeOK
    SessionEndsWithItsToken
    AuditAccountsForStatus
    BootstrapMakesTheFirst
PROPERTIES
    ClosedStaysClosed
    ListNeverGoesBack
