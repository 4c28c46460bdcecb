CONSTANTS
    Orgs = {o1, o2}
    Workers = {w1, w2}
    Null = Null
    CACHE_TTL_SECONDS = 1
    IDEMPOTENCY_TTL_SECONDS = 2
    Lag = 1
    MaxRequests = 3
    MaxTime = 2
SPECIFICATION Spec
SYMMETRY Alike
INVARIANTS TypeOK TenantIsolation AnsweredTheSame StaleAtMost
CHECK_DEADLOCK FALSE
