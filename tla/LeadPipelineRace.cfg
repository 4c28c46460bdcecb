CONSTANTS
    l1 = l1  l2 = l2  l3 = l3
    c1 = c1  c2 = c2  c3 = c3
    e1 = e1  p1 = p1
    Leads = {l1, l2, l3}
    Customers = {c1, c2, c3}
    Contacts = {k1}
    Requests = {r1, r2}
    Emails = {e1}
    Phones = {p1}
    Digitless = {}
    OpenStages = {"new"}
    Null = Null
    Past <- TwoPast
    PastCustomer <- TwoPastCustomers
    Overlap = TRUE
    MaxRequests = 4
    MaxEdits = 1
SPECIFICATION Spec
SYMMETRY Workers
INVARIANTS TypeOK LinkAgreesWithLead NoOrphanCustomer WonHasOutcome ReasonIffLost HistoryEndsAtStage
PROPERTY ImplementsAssignment
CHECK_DEADLOCK FALSE
