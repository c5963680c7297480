SPECIFICATION FairSpec
CONSTANTS
    Tenant = {t1, t2, t3}
    Request = {r1, r2, r3}
    Timer = {k1, k2}
    CacheSize = 1
    MaxConns = 1
    None = None
CHECK_DEADLOCK FALSE
INVARIANTS TypeOK CacheBounded OneLivePoolPerTenant OpenWhileCached TimersMatchEntries InflightIsUnsettled TenantIsolation
PROPERTY CallsSettle
