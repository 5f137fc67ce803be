SPECIFICATION Spec
CONSTANTS
    t1 = t1
    t2 = t2
    t3 = t3
    t4 = t4
    p1 = p1
    p2 = p2
    x = x
    y = y
    n1 = n1
    n2 = n2
    Traces = {t1, t2, t3, t4}
    Replays = {p1, p2}
    SpanIds = {x, y}
    NoteIds = {n1, n2}
    MaxEntries = 1
    None = None
    Carries <- MCCarries
    Scenarios <- MCScenarios
CHECK_DEADLOCK FALSE
INVARIANTS
    StitchExact
PROPERTIES
    NotesKept
