SPECIFICATION Spec
CONSTANTS
    Vals = {1, 2}
    Null = Null
    None = None
    NilText = 2
    KeyCol = "k"
    MaxOthers = 1
    Served <- MCServed
    Mappings <- MCMappings
    Requests <- MCRequests
INVARIANTS
    DataTypeOK
    AnswersMatchQuery
    WritesAsAsked
    BulkInsertIsAPrefix
PROPERTIES
    InsertNeverOverwrites
    UpsertAtOnceTouchesItsRow
CHECK_DEADLOCK TRUE
