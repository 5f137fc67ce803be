SPECIFICATION Spec
CONSTANTS
    raw = raw
    editor = editor
    admin = admin
    Jobs = {j1, j2}
    Scopes = {s1}
    Keys = {k1, k2}
    Attachments = {x1}
    Actors = {admin}
    Reports = {raw}
    Retains <- MCRetains
    RawLimit = 3
    NormalizedLimit = 3
    RevisionLimit = 3
    MaxNormalized = 1
    ActiveLimit = 1
    QueueLimit = 2
    MaxGeneration = 2
    InitialRole <- MCInitialRole
    None = None
    Entries = {e1, e2}
    Sweepers = {w1, w2}
    RoleChanges = {}
SYMMETRY MCSymmetry
INVARIANTS
    SlotsAgree
    ReservationsOwned
    AnchoredWork
PROPERTIES
    RetainedWhenReparsed
    ClearedWhenQuiet
