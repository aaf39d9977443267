SPECIFICATION ResultSpec
CONSTANTS
    Results = {r1, r2, r3}
    Contents = {x}
    MaxRows = 2
    NULL = NULL
    Wild = Wild
SYMMETRY Symmetry
CHECK_DEADLOCK FALSE
INVARIANTS
    ResultTypeOK
    ResultInv
    ReleasedNeverUsed
    UninitialisedOnlyAtFirst
    RowGivenIsRowRead
    TidyScriptsLeakNothing
