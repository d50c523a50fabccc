\* The user changes the interval while the entry is being set up.
SPECIFICATION Spec
CONSTANTS
    a1 = a1
    a2 = a2
    a3 = a3
    Scanned <- MCScanned
    Nowhere = Nowhere
    Addresses <- MCAddresses
    Intervals <- MCIntervals
    MaxBackoff = 60
    HostsByName <- MCNoNames
    MaxFailures = 2
    MaxOrphans = 1
    MaxMoves = 1
    MaxLosses = 0
    MaxOptions = 1
    MaxRestarts = 0
CHECK_DEADLOCK FALSE
INVARIANTS
    OptionsApplied
