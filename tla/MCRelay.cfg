SPECIFICATION Spec
CONSTANTS
    Gateways = {g0, g1, g2}
    DefaultGateway = g0
    Capacity = 2
    Short = 1
    MaxRetryAfter = 2
    Long = 3
    Forever = Forever
    Requests = {r1, r2}
    MaxTunnels = 1
    Tunnels = {t1, t2}
INVARIANTS
    OneProbe
    CacheTracked
    TunnelBudget
PROPERTIES
    AdmittedOnOptIn
    TunnelsEnd
