SPECIFICATION Spec
CONSTANTS
    Vals = {1, 2}
    Null = Null
    None = None
    NilText = 2
    KeyCol = "k"
    MaxOthers = 1
    Served = {"postgres"}
    Mappings <- MCMappings
    Requests <- MCRequests
PROPERTIES
    UpsertTouchesItsRow
