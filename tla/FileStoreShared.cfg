SPECIFICATION Spec
CONSTANTS
    a = a
    b = b
    c1 = c1
    t = t
    x = x
    y = y
    env = env
    ServerNames = {a, b}
    CredNames = {c1}
    Objects = {t}
    Bodies = {1, 2}
    Secrets = {x, y, env}
    Expand <- MCExpand
    None = None
    Unknown = Unknown
    Absent = Absent
    Importers = {p1}
    Imports <- MCImports
    Files <- MCFiles
    OtherFiles <- MCNoFile
    OtherLast = FALSE
    Directory = FALSE
    MaxOps = 3
INVARIANTS
    SharedCredentialsLoad
