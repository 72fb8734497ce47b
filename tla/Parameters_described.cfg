SPECIFICATION Spec
CONSTANTS
    UIntBits = 11
    Configs <- MCConfigs
    KvpRequests <- MCKvpRequests
    XmlRequests <- MCXmlRequests
    Geo <- MCGeo
    LocationOptions <- MCLocationOptions
    DefaultCrs = "EPSG::4258"
    Now = 0
INVARIANTS
    AcceptedAsDescribed
    ResolvedAsRegistered
    TimesMeaningful
CHECK_DEADLOCK FALSE
