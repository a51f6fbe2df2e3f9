SPECIFICATION Spec
CONSTANTS
    None = None
    HalfSecond = 1
    error_window = 3
    phase_window = 2
    phase_threshold = 2
    min_estimate = 200
    quantile = 95
    quantile_min = 2
    quantile_window = 4
    min_samples = 3
    history_cap = 3
    sample_cap = 6
    Sessions = {s1, s2}
    WithContext = {s1}
    Errors = {0, 100}
    MaxSteps = 3
    MaxSamples = 6
    MaxFailures = 1
    MaxSaves = 4
    Overlap = FALSE
INVARIANTS OneHistory CheckpointCarriesItsSteps BoundOfThePhase
