\* One session: four callers, calls of up to two exchanges, close() at any time.
SPECIFICATION SessionSpec
CONSTANTS
    poll = poll
    c1 = c1
    c2 = c2
    c3 = c3
    Nobody = Nobody
    Callers <- MCCallers
    Background <- MCBackground
    Retries = 1
    MaxParts = 2
INVARIANTS
    OneRequestAtATime
    OneLiveEngine
    SharedEngineSurvives
    ExchangeOnOpenEngine
PROPERTIES
    ImplementsLine
    CallsReturn
