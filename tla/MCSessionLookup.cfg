SPECIFICATION FairSpec
CONSTANTS
    Requests = {r1, r2}
    Instances = {i1, i2}
    Tokens = {t1}
    CacheTTL = 10
    NoRequest = NoRequest
    RedisFails = TRUE
    DatabaseFails = FALSE
    Cancels = TRUE
INVARIANTS TypeOK Coalesced RedisOutageHarmless
PROPERTIES EffectiveIsStable RevocationTakesEffect RequestsFinish
