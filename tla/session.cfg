SPECIFICATION Spec
CONSTANTS
    None = None
    HalfSecond = 1
    Sessions = {s1, s2}
    Questions = 2
    keep_last = 4
    Sizes = {3}
    MaxTokens = 1
    Corrections = {0}
    Sigma = 2
    InitialK = 12
    KBump = 4
    KMax = 12
    Readings = {3, 20}
    Resets = {2, 9}
    WaitThreshold = 5
    Used = {4}
    MoneyBudget = 11
    TimeBudget = 1
    Latency = 1
    ContextWindow = 8
    MaxRetries = 1
    BaseDelay = 4
    Factor = 2
    MaxDelay = 8
    Jitter = 0
    RetryAfters = {None, 1}
    Summaries = TRUE
    Parallel = FALSE
    MaxMessages = 7
    MaxClock = 1
INVARIANTS NoPhantomSteps MoneyCap
PROPERTIES CleanFailure CallEnds KeepsHeadAndRecent
CHECK_DEADLOCK FALSE
