SPECIFICATION MCSpec
CONSTANTS
    Procs = {p1, p2}
    s1 = s1
    s2 = s2
    t1 = t1
    f1 = f1
    c1 = c1
    x1 = x1
    x2 = x2
    Servers = {s1, s2}
    Tables = {t1}
    Funcs = {f1}
    Columns = {c1}
    Secrets = {x1, x2}
    Values = {1, 2}
    None = None
    Docs <- MCDocs
    MaxWrites = 2
INVARIANTS
    DbTypeOK
    RefsIntact
    AckedStays
PROPERTIES
    QuietMergeKeeps
    GoneStaysGone
    PatchKeepsOthers
SYMMETRY Symmetry
CHECK_DEADLOCK FALSE
