CONSTANTS
    Programs = {"call_chain_cache"}
    Size = 6
    buffer_len = 4
    CacheNodes = 4
    CacheMatched = 3
SPECIFICATION MCSpec
PROPERTY TopNodesMatch
