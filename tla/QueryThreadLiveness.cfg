\* Fair runs; no symmetry under liveness.
SPECIFICATION FairSpec
CONSTANTS
    Recursive = TRUE
    Conns = {c1, c2, c3}
    NULL = NULL
    MaxQueries = 1
    MaxStatements = 1
    MaxDrops = 0
PROPERTIES
    CallbackRuns
    PipelineResumes
    CloseReturns
CHECK_DEADLOCK FALSE
