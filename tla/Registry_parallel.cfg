SPECIFICATION FairSpec
CONSTANTS
    Files <- MCFiles
    Dirs = {"d", "e"}
    DirOf <- MCTwoDirs
    Ids <- MCIds
    Lower <- MCLower
    Contents <- MCAll
    EnabledMarks = {"demo"}
    BackgroundInit = TRUE
    Polling = FALSE
    QuietEdits = TRUE
    MaxEdits = 1
    NoFile = NoFile
    NoHandler = NoHandler
    NoKey = NoKey
INVARIANT HandlersSound
PROPERTY StaysServed
PROPERTY InitComplete
PROPERTY InitEnds
CHECK_DEADLOCK FALSE
