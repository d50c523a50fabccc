\* Two dialogs that add PDUs side by side.
SPECIFICATION Spec
CONSTANTS
    f1 = f1
    f2 = f2
    p1 = p1
    p2 = p2
    p3 = p3
    None = None
    Flows <- MCFlows
    Hosts <- MCHosts
    Targets <- MCTargets
    NoTarget = NoTarget
    MaxHosts = 6
    Width = 4
    OctetSize = 4
    Pdus <- MCPdus
    Anonymous <- MCAnonymous
    MaxTroubles = 1
    MaxRemoved = 1
CHECK_DEADLOCK FALSE
INVARIANTS
    TypeOK
    OneEntryPerPdu
    EntriesAtTheirPdu
    OffersAsMeant
PROPERTIES
    ValidOnesAdded
    ImplementsRegistry
