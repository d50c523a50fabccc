\* Another PDU at the host of an entry.
SPECIFICATION Spec
CONSTANTS
    p1 = p1
    p2 = p2
    p3 = p3
    Nobody = Nobody
    Pdus <- MCPdus
    WithSerial <- MCWithSerial
    OutletTable <- MCOutletTable
    LoadTable <- MCLoadTable
    OutletCount <- MCOutletCount
    MaxShort = 0
    MaxSwaps = 1
    MaxLosses = 0
    MaxRestarts = 0
INVARIANTS
    OwnPdu
