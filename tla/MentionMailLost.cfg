CONSTANTS
    o = o  a = a  b = b
    Members = {o, a, b}
    Stranger = Stranger
    Role <- Roles
    ReportsTo <- Reporting
    FirstOwner = a
    Bodies <- Texts
    Requests = {r1}
    MaxRequests = 1
SPECIFICATION Spec
INVARIANT MentionMailed
CHECK_DEADLOCK FALSE
