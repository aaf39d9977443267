\* The extra id of a threaded query that failed.
SPECIFICATION NoticeSpec
CONSTANTS
    gamemode = gamemode
    filterscript = filterscript
    admin = admin
    Scripts = {gamemode, filterscript, admin}
    HasPublic <- MCHasPublic
    MaxQueries = 2
INVARIANT ErrorTellsExtra
CHECK_DEADLOCK FALSE
