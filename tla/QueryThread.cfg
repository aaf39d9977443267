\* The safety of the threads, and that they keep the abstract specification.
SPECIFICATION Spec
CONSTANTS
    Recursive = TRUE
    Conns = {c1, c2, c3}
    NULL = NULL
    MaxQueries = 2
    MaxStatements = 1
    MaxDrops = 1
SYMMETRY Symmetry
INVARIANTS
    TypeOK
    CallbackOwnsConnection
    OneResultAtATime
    NoUseAfterClose
    PingAndCloseAlone
    IInv
PROPERTY
    KeepsPromise
CHECK_DEADLOCK FALSE
