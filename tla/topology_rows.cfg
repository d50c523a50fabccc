\* A walk of the metering rows that ends early.
SPECIFICATION Spec
CONSTANTS
    p1 = p1
    p2 = p2
    p3 = p3
    Nobody = Nobody
    Pdus <- MCPdus
    WithSerial <- MCWithSerial
    OutletTable <- MCOutletTable
    LoadTable <- MCLoadTable
    OutletCount <- MCOutletCount
    MaxShort = 1
    MaxSwaps = 0
    MaxLosses = 0
    MaxRestarts = 0
INVARIANTS
    SensorsWhole
