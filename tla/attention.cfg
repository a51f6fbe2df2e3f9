SPECIFICATION AttentionSpec
CONSTANTS
    None = None
    HalfSecond = 1
    Agents = {a1, a2}
    max_asks = 2
    calls_per_window = 2
    Window = 3
    WaitThreshold = 2
    Absences = {None, 0, 2, 4}
INVARIANTS WindowKept WaitIsExact
PROPERTIES NoIndefiniteWait AskedAgain
