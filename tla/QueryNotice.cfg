\* Three scripts with different publics, two queries.
SPECIFICATION NoticeSpec
CONSTANTS
    gamemode = gamemode
    filterscript = filterscript
    admin = admin
    Scripts = {gamemode, filterscript, admin}
    HasPublic <- MCHasPublic
    MaxQueries = 2
INVARIANTS
    NoticeTypeOK
    ArgumentsAsDeclared
    EveryScriptTold
    TickSafe
    ErrnoOfCallback
CHECK_DEADLOCK FALSE
