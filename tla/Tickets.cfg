CONSTANTS
    o = o  s = s
    Tickets = {t1}
    Members = {o, s}
    Null = Null
    Role <- Roles
    ReportsTo <- Reporting
    Requests = {r1, r2}
    Earlier = {t1}
    MaxRequests = 3
    MaxAssigns = 1
SPECIFICATION Spec
SYMMETRY Workers
INVARIANTS TypeOK EveryEventToldOnce
PROPERTY ImplementsLifecycle
CHECK_DEADLOCK FALSE
