\* The Windows build: getInstance may make two objects of one kernel mutex.
SPECIFICATION LifeFairSpec
CONSTANTS
    Recursive = TRUE
    HeadStart = FALSE
    MaxHandlers = 4
    MaxMutexes = 4
INVARIANTS LifeTypeOK InsideAlone ClosedUnused UnloadForgetsHalf
PROPERTIES ImplementsMutex UnloadReturns
CHECK_DEADLOCK FALSE
