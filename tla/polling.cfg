\* Polls while the PDU changes, with lost and incomplete answers and a reload.
SPECIFICATION Spec
CONSTANTS
    Layouts <- MCLayouts
    MaxVarbinds = 6
    Changing = {"name", "label", "state", "power"}
    MaxChanges = 2
    MaxTroubles = 1
    MaxReloads = 1
INVARIANTS
    TypeOK
    RegistryNamed
PROPERTIES
    PollsTruthful
    RenamesArrive
