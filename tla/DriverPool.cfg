SPECIFICATION Spec
CONSTANTS
    Procs = {p1, p2, p3}
    Servers = {s1, s2}
    Drivers = {d1, d2, d3}
    MaxVersion = 2
    NoDriver = NoDriver
SYMMETRY Symmetry
INVARIANTS
    TypeOK
    NoLeak
    PooledIsOpen
    OpenBound
    UsesOwnConfig
    ClosedUnderUseOnlyAfterChange
PROPERTIES
    LifecycleSpec
