SPECIFICATION StoreSpec
CONSTANTS
    j1 = j1
    j2 = j2
    j3 = j3
    k1 = k1
    k2 = k2
    k3 = k3
    raw = raw
    Jobs = {j1, j2, j3}
    Scopes = {s1}
    Keys = {k1, k2, k3}
    Attachments = {x1}
    Actors = {member}
    Reports = {raw, parsed}
    Retains <- MCRetains
    RawLimit = 2
    NormalizedLimit = 5
    RevisionLimit = 3
    MaxNormalized = 2
    ActiveLimit = 1
    QueueLimit = 2
    MaxGeneration = 2
    InitialRole <- MCInitialRole
    None = None
CHECK_DEADLOCK FALSE
SYMMETRY MCSymmetry
INVARIANTS
    QuotaHeld
    ReservedWhilePending
PROPERTIES
    HistoryKept
