SPECIFICATION DeliverySpec
CONSTANTS
    listed = listed
    own = own
    c1 = c1
    Domains = {listed, own}
    Catalogue = {listed}
    Categories = {c1}
    CategoryOf <- Category
    Jobs = {j1, j2}
    MaxGens = 3
    MaxEdits = 3
    MaxFailures = 2
    Protocols = {"wireguard", "vless"}
    Fetches = {f1, f2}
    LinkOps = {o1, o2}
    MaxFetches = 2
    MaxLinkOps = 4
    MaxChanges = 2
SYMMETRY Symmetric
CONSTRAINT Focus
INVARIANTS
    DeliveryTypeOK
    CurrentProfile
    FreshProfileIsExact
    DeadFetchDeliversNothing
    AccessCounted
    TokenHandedOutWorks
CHECK_DEADLOCK FALSE
