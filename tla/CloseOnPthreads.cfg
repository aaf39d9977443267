\* mysql_close with the default pthread mutex: main waits for itself.
SPECIFICATION FairSpec
CONSTANTS
    Recursive = FALSE
    Conns = {c1, c2, c3}
    NULL = NULL
    MaxQueries = 1
    MaxStatements = 0
    MaxDrops = 0
PROPERTY
    CloseReturns
CHECK_DEADLOCK FALSE
