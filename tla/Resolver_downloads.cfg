SPECIFICATION Spec
CONSTANTS
    t1 = t1
    t2 = t2
    d1 = d1
    u1 = u1
    None = None
    Threads = {t1, t2}
    Dumpers = {d1}
    Uris = {u1}
    Loaded = {}
    enable_download = TRUE
    GiveUp = 2
    Patience = 2
    ShortPause = 0
    LongPause = 1
    References <- MCReferences
    Reuse = TRUE
    MaxTime = 3
    MaxTasks = 4
INVARIANTS SchemasGenuine OnlyOwnOutput FirstAttemptShared
PROPERTIES RetriesStop LookupEnds
