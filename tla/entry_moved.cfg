\* The PDU moves while Home Assistant is down.
SPECIFICATION Spec
CONSTANTS
    a1 = a1
    a2 = a2
    a3 = a3
    Scanned <- MCScanned
    Nowhere = Nowhere
    Addresses <- MCAddresses
    Intervals <- MCIntervals
    MaxBackoff = 60
    HostsByName <- MCNoNames
    MaxFailures = 3
    MaxOrphans = 1
    MaxMoves = 1
    MaxLosses = 0
    MaxOptions = 0
    MaxRestarts = 1
CHECK_DEADLOCK FALSE
PROPERTIES
    MovedPduReached
