SPECIFICATION Spec
CONSTANTS
    Admins = {a1, a2}
    Roles = {"viewer", "superadmin"}
    Databases <- FreshOnly
    Tabs = {t1}
    Requests = {r1, r2}
    MaxLogins = 0
    MaxWrites = 2
SYMMETRY Symmetric
INVARIANT BootstrapOnce
