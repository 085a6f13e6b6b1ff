SPECIFICATION FairSpec
CONSTANTS
    Procs = {p1, p2}
    Tables = {t1}
    Funcs = {}
    TTL = 1
    MaxWrites = 2
    NoEntry = NoEntry
INVARIANTS
    TypeOK
PROPERTIES
    OnlyRacesHide
    EventuallyFresh
