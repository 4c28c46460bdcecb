CONSTANTS
    l1 = l1  l2 = l2  l3 = l3
    c1 = c1  c2 = c2  c3 = c3
    e1 = e1  p1 = p1
    Leads = {l1, l2, l3}
    Customers = {c1, c2, c3}
    Contacts = {k1}
    Requests = {r1}
    Emails = {e1}
    Phones = {p1}
    Digitless = {}
    OpenStages = {"new"}
    Null = Null
    Past <- TwoPast
    PastCustomer <- TwoPastCustomers
    Overlap = FALSE
    MaxRequests = 3
    MaxEdits = 3
SPECIFICATION Spec
INVARIANTS HistoryIsAChain ManualMeansUnlinked
PROPERTY WonIsTerminal NewCustomerIsNew
CHECK_DEADLOCK FALSE
