\* What is left of the session after the entry is unloaded.
SPECIFICATION Spec
CONSTANTS
    poll = poll
    debounced = debounced
    c1 = c1
    c2 = c2
    o1 = o1
    o2 = o2
    Nobody = Nobody
    Callers <- MCTwoCommands
    Background <- MCBackground
    Debounced = debounced
    Outlets <- MCOutlets
    Chunk <- MCChunk
    Retries = 1
    MaxParts = 2
    MaxCommands = 2
    MaxFaults = 0
CHECK_DEADLOCK FALSE
INVARIANTS
    UnloadClosesSession
