\* A sweep of three addresses by two engines of one probe each.
SPECIFICATION Spec
CONSTANTS
    h1 = h1
    h2 = h2
    h3 = h3
    p1 = p1
    p2 = p2
    p3 = p3
    None = None
    Hosts <- MCHosts
    Pdus <- MCPdus
    WithSerial <- MCWithSerial
    WithMac <- MCWithMac
    PoolSize = 2
    PerEngine = 1
    MaxStale = 1
    MaxTroubles = 1
CHECK_DEADLOCK FALSE
INVARIANTS
    TypeOK
    PermitsConserved
    EnginesOutliveProbes
    SweepComplete
    HealsToItself
PROPERTIES
    SweepEnds
