SPECIFICATION Spec
CONSTANTS
    None = None
    HalfSecond = 1
    Wirings = {"facade", "by_hand"}
    n_ctx = 10
    safety_margin_tokens = 1
    MaxNew = 2
    Sizes = {0, 2}
    BytesPerToken = 2
    Header = 1
    total_bytes = 24
    FreeLevels = {0, 9, 24}
    time_budget_s = 7
    estimated_kv_save_s = None
    save_throughput_bytes_per_s = 8
    expected_blob_bytes = 21
    ProvisionalReserve = 5
    MaxLatency = 2
    min_samples = 1
    SaveTimes = {1, 3}
INVARIANTS FitsEveryCeiling RunEndsInTime
PROPERTY FailsOnlyWithTheWorld
