\* mysql_ping relies on the worker's ping.
SPECIFICATION FairSpec
CONSTANTS
    Recursive = TRUE
    Conns = {c1, c2, c3}
    NULL = NULL
    MaxQueries = 1
    MaxStatements = 0
    MaxDrops = 1
PROPERTY
    PingedInThread
CHECK_DEADLOCK FALSE
