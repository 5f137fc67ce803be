SPECIFICATION FairSpec
CONSTANTS
    o1 = o1
    o2 = o2
    o3 = o3
    p1 = p1
    p2 = p2
    d1 = d1
    d2 = d2
    openai = openai
    Daemons = {d1}
    PendingLimit = 2
    MaxDisturbances = 2
    Ops <- MCTwoOps
    Positions = {0, 1}
    Scopes = {s1}
    Prompts = {p1, p2}
    Providers = {openai}
    Requests <- MCPairRequests
    Available = {openai}
    Usages <- MCUsages
    Ceiling <- MCCeiling
    ChargeCap = 1
    ActiveLimit = 1
    QueueLimit = 1
    GlobalLimit = 2
    ScopeLimit = 2
    AttemptLimit = 4
    MaxGeneration = 1
    MaxOwners = 1
    MemberRoles = {"admin"}
    None = None
CHECK_DEADLOCK FALSE
PROPERTIES
    DeadlineEnds
