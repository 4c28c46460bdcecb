CONSTANTS
    m1 = m1
    Memberships = {m1, m2, m3}
    Users = {u1, u2}
    Founder = m1
    Staff = {"sales_agent"}
    Requests = {r1, r2}
    Null = Null
    Managers = {Null, m1}
    MaxRequests = 3
SPECIFICATION Spec
SYMMETRY Symmetry
INVARIANTS TypeOK OneActiveMembership LogAccountsForRole ActorsHadTheRole LogIsAChain
PROPERTY OwnersNeverMultiply NeverElevatesSelf
CHECK_DEADLOCK FALSE
