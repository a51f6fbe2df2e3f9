SPECIFICATION Spec
CONSTANTS
    None = None
    HalfSecond = 1
    Limit = 50
    RequestLimit = 3
    RequestPeriod = 12
    PingCost = 1
    Wirings = {"backend", "invoke"}
    Silent = FALSE
    Fallback = None
    MaxAge = 5
    Needs <- MCNeeds
    Costs <- MCCosts
    Threshold = 16
    Chunk = 6
    MaxResumes = 12
    Pauses <- MCPauses
INVARIANTS
    AdmittedCallAccepted
    AdvisedWaitSuffices
    WaitingConverges
