SPECIFICATION RoutingSpec
CONSTANTS
    listed = listed
    own = own
    c1 = c1
    Domains = {listed, own}
    Catalogue = {listed}
    Categories = {c1}
    CategoryOf <- Category
    Jobs = {j1}
    MaxGens = 2
    MaxEdits = 3
    MaxFailures = 1
PROPERTIES
    FlakyDnsKeepsDomain
CHECK_DEADLOCK FALSE
