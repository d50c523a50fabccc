\* Setups of one entry over reboots, short walks, swaps of PDUs and restarts.
SPECIFICATION Spec
CONSTANTS
    p1 = p1
    p2 = p2
    p3 = p3
    Nobody = Nobody
    Pdus <- MCPdus
    WithSerial <- MCWithSerial
    OutletTable <- MCOutletTable
    LoadTable <- MCLoadTable
    OutletCount <- MCOutletCount
    MaxShort = 2
    MaxSwaps = 2
    MaxLosses = 1
    MaxRestarts = 1
INVARIANTS
    TypeOK
    OutletsWhole
    CacheInUse
    EntitiesKept
PROPERTIES
    SetupCompletes
