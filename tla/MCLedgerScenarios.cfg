SPECIFICATION Spec
CONSTANTS
    o1 = o1
    o2 = o2
    p1 = p1
    p2 = p2
    openai = openai
    anthropic = anthropic
    Ops <- MCOps
    Positions = {0, 1}
    Scopes = {s1}
    Prompts = {p1, p2}
    Providers = {openai, anthropic}
    Requests <- MCEveryRequest
    Available = {openai, anthropic}
    Usages <- MCUsages
    Ceiling <- MCCeiling
    ChargeCap = 2
    ActiveLimit = 2
    QueueLimit = 1
    GlobalLimit = 2
    ScopeLimit = 2
    AttemptLimit = 3
    MaxGeneration = 2
    MaxOwners = 2
    MemberRoles = {"admin", "viewer"}
    None = None
SYMMETRY MCSymmetry
CONSTRAINT MCBound
CHECK_DEADLOCK FALSE
INVARIANTS
    TypeOK
    AccountingShape
    BudgetCeiling
    ContentRemoved
    FrozenPromptLives
PROPERTIES
    NoRefund
    OverageFuse
    PromiseKept
    FinalAccounting
