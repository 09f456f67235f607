SPECIFICATION Spec
CONSTANTS
    Requests = {r1, r2}
    Instances = {i1}
    Tokens = {t1}
    CacheTTL = 10
    NoRequest = NoRequest
    RedisFails = TRUE
    DatabaseFails = FALSE
    Cancels = TRUE
INVARIANTS OwnContextOnly
