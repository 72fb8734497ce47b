SPECIFICATION FairSpec
CONSTANTS
    Server = server
    Admins = {a1}
    Loops <- MCLoops
    NumLanguages = 2
    BuildCanFail = TRUE
    ServerStops = TRUE
    MaxReloads = 2
    NoLoop = NoLoop
INVARIANT ServiceRestored
PROPERTY RequestTaken
CHECK_DEADLOCK FALSE
