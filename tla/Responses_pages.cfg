SPECIFICATION Spec
CONSTANTS
    IntBits = 4
    SizeBits = 8
    Server <- MCServer
    KvpRequests <- MCKvpRequests
    create_from_kvp <- CreatedFromKvp
    create_from_xml <- CreatedFromXml
    XmlRequests <- MCXmlRequests
    StoredCounts = {1, 2, 3}
    Presentations <- MCPresentations
    Bodies <- MCBodies
    MaxQueries = 3
INVARIANTS
    FilterMeansAlternatives
    PageIsTheSlice
    ValuesFromTheStart
CHECK_DEADLOCK FALSE
