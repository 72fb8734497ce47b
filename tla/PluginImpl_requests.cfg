CONSTANTS
    SupportedFormats = {"gml32v", "gml32s", "xml32v", "xml32s"}
    HttpRequests <- MCRequests
    Hosts = {"h", "h2", "<h>", "HOST", "localhost"}
    BadHosts = {"<h>", "HOST"}
    ImplConfigs <- MCConfigs
SPECIFICATION ImplSpec
INVARIANT AnswerOrError
INVARIANT CacheHeaders
INVARIANT HostsClean
INVARIANT ThrowsUnlessReported
