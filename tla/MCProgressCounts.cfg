CONSTANTS
    Programs = {"ext4fixup"}
    Size = 6
    buffer_len = 4
    CacheNodes = 3
    CacheMatched = 2
SPECIFICATION MCSpec
INVARIANT CountsUpdated
CHECK_DEADLOCK FALSE
