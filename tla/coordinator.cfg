SPECIFICATION Spec
CONSTANTS
    None = None
    HalfSecond = 1
    Agents = {a1, a2}
    Limit = 3
    RequestLimit = 2
    Needs <- MCNeeds
    Priorities <- MCPriorities
    WaitThreshold = 2
    PingCost = 1
    InOrder = TRUE
    MaxClock = 1
SYMMETRY Symmetry
INVARIANTS
    TypeOK
    ReadingIsSafe
    NoPriorityInversion
PROPERTIES
    GrantFits
    ImplementsSharedWindow
