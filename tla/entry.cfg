\* One entry through moves, losses, an option change, reloads and a restart.
SPECIFICATION Spec
CONSTANTS
    a1 = a1
    a2 = a2
    a3 = a3
    Scanned <- MCScanned
    Nowhere = Nowhere
    Addresses <- MCThreeAddresses
    Intervals <- MCIntervals
    MaxBackoff = 60
    HostsByName <- MCNames
    MaxFailures = 2
    MaxOrphans = 1
    MaxMoves = 2
    MaxLosses = 1
    MaxOptions = 1
    MaxRestarts = 1
CHECK_DEADLOCK FALSE
INVARIANTS
    TypeOK
    IntervalFollowsFailures
    HealingIffRunning
    ConfigurationApplied
PROPERTIES
    ReachableEntryLoads
    SelfHealReaches
    BackoffNeverSpeedsUp
