SPECIFICATION FairSpec
CONSTANTS
    raw = raw
    editor = editor
    admin = admin
    Jobs = {j1, j2}
    Scopes = {s1}
    Keys = {k1}
    Attachments = {x1}
    Actors = {admin}
    Reports = {raw}
    Retains <- MCRetains
    RawLimit = 3
    NormalizedLimit = 3
    RevisionLimit = 3
    MaxNormalized = 1
    ActiveLimit = 1
    QueueLimit = 2
    MaxGeneration = 1
    InitialRole <- MCInitialRole
    None = None
    Entries = {e1, e2}
    Sweepers = {w1}
    RoleChanges = {"none"}
PROPERTIES
    ReceiptsEnd
