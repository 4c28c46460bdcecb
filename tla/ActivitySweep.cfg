CONSTANTS
    g1 = g1
    a1 = a1
    m1 = m1  m2 = m2
    Orgs = {g1}
    Activities = {a1}
    Members = {m1, m2}
    Null = Null
    OrgOf <- Places
    Role <- Roles
    ReportsTo <- Reporting
    Sweepers = {w1, w2}
    Requests = {r1}
    Soon = 1
    Dates = {1, 2}
    MaxTime = 1
    MaxEdits = 1
    MaxFaults = 1
SPECIFICATION Spec
INVARIANTS TypeOK NoticedOnce ToldOnlyWhenDue
PROPERTY OverdueTold
CHECK_DEADLOCK FALSE
