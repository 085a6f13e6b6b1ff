SPECIFICATION FairEngineSpec
CONSTANTS
    Procs = {p1, p2}
    Servers = {s1}
    Drivers = {d1, d2}
    MaxVersion = 2
    NoDriver = NoDriver
    MaxFails = 2
    Cooldown = 1
INVARIANTS
    EngineTypeOK
    Exclusive
PROPERTIES
    PoolBehaviour
    BreakerBehaviour
    RequestsEnd
    ServedOnceHealthy
