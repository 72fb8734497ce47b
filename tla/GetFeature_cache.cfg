SPECIFICATION FairSpec
CONSTANTS
    Threads = {t1, t2}
    a = a
    b = b
    d = d
    e = e
    Ids <- MCIds
    Sources = {"querydata"}
    Hosts = {"h1"}
    Redirects <- MCRedirects
    Qualified = {a}
    HostBound = {a}
    Asks <- MCAsks
    Edited = {a}
    CacheSize = 1
    MaxRequests = 2
    MaxEdits = 1
    MaxData = 2
    NoId = NoId
    NoResponse = NoResponse
    ErrorResponse = ErrorResponse
INVARIANT AnswersMatch
INVARIANT FreshEnough
PROPERTY RequestEnds
PROPERTY ImplementsService
CHECK_DEADLOCK FALSE
