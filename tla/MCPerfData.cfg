CONSTANTS
    Programs = {"record_cache", "unwinding", "record_file", "symbols"}
    min_cache_size = 2
    min_time_diff_in_ns = 2
    MaxTime = 4
    MaxRecords = 4
SPECIFICATION MCSpec
INVARIANTS
    DeliversInOrder
    DeliversAll
    SamplesReadBack
    RecordsReadBack
    NamesAreOfTheBuildThatRan
CHECK_DEADLOCK FALSE
