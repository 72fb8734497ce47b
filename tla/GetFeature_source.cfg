SPECIFICATION Spec
CONSTANTS
    Threads = {t1, t2}
    a = a
    b = b
    d = d
    e = e
    Ids <- MCIds
    Sources = {"querydata", "grid"}
    Hosts = {"h1"}
    Redirects <- MCNowhere
    Qualified = {a}
    HostBound = {a}
    Asks <- MCPlain
    Edited = {a}
    CacheSize = 1
    MaxRequests = 2
    MaxEdits = 0
    MaxData = 1
    NoId = NoId
    NoResponse = NoResponse
    ErrorResponse = ErrorResponse
INVARIANT SourceHonoured
CHECK_DEADLOCK FALSE
