\* One entry: two commands and two kinds of poll over two outlets that are read
\* in different chunks, one request lost, late or answered in part, and a hand
\* at the PDU.
SPECIFICATION Spec
CONSTANTS
    poll = poll
    debounced = debounced
    c1 = c1
    c2 = c2
    o1 = o1
    o2 = o2
    Nobody = Nobody
    Callers <- MCTwoCommands
    Background <- MCBackground
    Debounced = debounced
    Outlets <- MCOutlets
    Chunk <- MCChunk
    Retries = 1
    MaxParts = 2
    MaxCommands = 2
    MaxFaults = 1
CHECK_DEADLOCK FALSE
INVARIANTS
    TypeOK
    PollingNeverStops
PROPERTIES
    DisplayInCommandOrder
    NoPollAfterUnload
    ImplementsDisplay
    DisplayConverges
