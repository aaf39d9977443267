\* mysql_connect with the parameters of a handle.
SPECIFICATION Spec
CONSTANTS
    Recursive = TRUE
    Conns = {c1, c2, c3}
    NULL = NULL
    MaxQueries = 1
    MaxStatements = 0
    MaxDrops = 1
PROPERTY
    NoDoubleInstance
CHECK_DEADLOCK FALSE
