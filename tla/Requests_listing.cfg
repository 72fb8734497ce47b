CONSTANTS
    HandlerIds = {1, 2, 3}
    Features = {1, 2, 3}
    FeatureDefs <- MCFeatureDefs
    HandlerConfigs <- MCHandlerConfigs
    MaxLoads = 3
SPECIFICATION RequestsSpec
INVARIANT ListingComplete
INVARIANT ListingFailsOnlyOnChange
INVARIANT ReturnTypesKnown
PROPERTY ListingEnds
