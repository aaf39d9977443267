SPECIFICATION Spec
CONSTANTS
    Results = {r1}
    Contents <- MCContents
    Symbols <- MCSymbols
    Delimiters <- MCDelimiters
    CellNumbers <- MCCellNumbers
    MaxRows = 2
    NULL = NULL
    Wild = Wild
CHECK_DEADLOCK FALSE
INVARIANTS
    NoLeftover
    NativesGiveTheRow
    IntNeedsRow
