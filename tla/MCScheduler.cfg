CONSTANTS
    Frontends = {f1}
    Backends = {b1, b2}
    Sessions = {"s1", "s2"}
    Cap = 2
    Rates = {0, 1, 3}
    HistoryLen = 1
    StaticWorkloads <- MCStaticWorkloads
    Gpu <- MCGpu
SPECIFICATION Spec
INVARIANT TypeOK
INVARIANT NoCrash
INVARIANT WeightsMatchLoads
PROPERTY OwedPreserved
PROPERTY EpochPlacesAll
