SPECIFICATION ServiceSpec
CONSTANTS
    MaxEvents = 4
    CompactAt = 1
    NConns = 2
    MaxEarly = 1
    Values = {1, 2}
    Scenarios <- MCScenarios
CHECK_DEADLOCK FALSE
INVARIANTS
    OneTurn
    WindowComplete
PROPERTIES
    AbsencePass
    AttributedPass
    QuietPass
    CausalPass
    LockReleased
