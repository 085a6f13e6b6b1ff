SPECIFICATION FairBreakerSpec
CONSTANTS
    Callers = {c1, c2, c3}
    MaxFails = 3
    Cooldown = 2
INVARIANTS
    BreakerTypeOK
    OpenIffTripped
    FailuresBound
PROPERTIES
    QuietStaysOpen
    Recovers
