SPECIFICATION FairSpec
CONSTANTS
    Server = server
    Admins = {}
    Loops <- MCLoops
    NumLanguages = 1
    BuildCanFail = FALSE
    ServerStops = TRUE
    MaxReloads = 1
    NoLoop = NoLoop
PROPERTY ShutdownEnds
CHECK_DEADLOCK FALSE
