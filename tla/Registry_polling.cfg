SPECIFICATION FairSpec
CONSTANTS
    Files <- MCFiles
    Dirs = {"d"}
    DirOf <- MCOneDir
    Ids <- MCIds
    Lower <- MCLower
    Contents <- MCMost
    EnabledMarks = {"demo"}
    BackgroundInit = FALSE
    Polling = TRUE
    QuietEdits = TRUE
    MaxEdits = 2
    NoFile = NoFile
    NoHandler = NoHandler
    NoKey = NoKey
INVARIANT ChangesTaken
INVARIANT NoStaleHandler
INVARIANT OneHandlerPerFile
PROPERTY EventuallyServed
CHECK_DEADLOCK FALSE
