SPECIFICATION Spec
CONSTANTS
    Procs = {p1, p2}
    Tables = {t1}
    Funcs = {}
    TTL = 1
    MaxWrites = 1
    NoEntry = NoEntry
INVARIANTS
    SeesCoveredWrites
