\* Three handlers made, two of them with the same parameters or all apart;
\* no symmetry under liveness.
SPECIFICATION TableFairSpec
CONSTANTS
    Recursive = TRUE
    Params = {p, q}
    MaxHandlers = 3
    MaxQueries = 2
INVARIANTS
    TableTypeOK
    PopsWhatItTold
    HandlesOnlyMoveUp
    HandlesKeepTheirMeaning
    WorkerKeepsHandler
PROPERTY
    EveryHandlerServed
CHECK_DEADLOCK FALSE
