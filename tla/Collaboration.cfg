CONSTANTS
    o = o  a = a  b = b
    Members = {o, a, b}
    Stranger = Stranger
    Role <- Roles
    ReportsTo <- Reporting
    FirstOwner = a
    Bodies <- Texts
    Requests = {r1, r2}
    MaxRequests = 3
SPECIFICATION Spec
SYMMETRY Workers
INVARIANTS TypeOK OneMailLost
PROPERTY ImplementsThread
CHECK_DEADLOCK FALSE
