SPECIFICATION Spec
CONSTANTS
    blank = blank
    full = full
    s1 = s1
    s2 = s2
    DatasetIds = {d1, d2}
    MaxDatasets = 1
    MaxRevisions = 3
    QueueIds = {q1}
    Sources = {s1, s2}
    Drafts = {blank, full}
    Complete = {full}
    Blank = blank
    Mutations = {m1, m2}
    Keys = {k1, k2}
    MaxQueues = 1
    MaxItems = 2
    MaxPromotions = 2
    MaxOrdinal = 7
    MaxActive = 2
    MaxKept = 2
    MaxStarted = 3
    MaxChecks = 2
    None = None
    Scenarios <- MCScenarios
CHECK_DEADLOCK FALSE
SYMMETRY MCSymmetry
INVARIANTS
    PromotionExact
    ExperimentsHonest
    ActiveIsOwned
PROPERTIES
    RevisionsNeverReused
    TerminalIsFinal
