SPECIFICATION PlannerSpec
CONSTANTS
    None = None
    HalfSecond = 40
    Grain = 20
    min_gap_s = 160
    window = 3
    min_votes = 2
    Kinds = {"continuous", "fixed"}
    Limit = 2000
    Rate = 1
    Period = 2000
    Boundaries = {1, 90, 700, 2000}
    StepSizes = {600, 1100, 1940, 1980}
    ping_tokens = 40
    InitialTokens = {0, 300, 800, 1200, 1900, 2000}
    Steps = 4
    latency = 80
    Rests = {0, 160, 960}
    wait_threshold_s = 1200
    max_age_s = 800
    Invalidates = TRUE
    MaxStalls = 5
    MaxWaited = 9000
INVARIANTS StallsCovered VerdictFades
PROPERTY RunCompletes
CHECK_DEADLOCK FALSE
