CONSTANTS
    Programs = {"line_buffer", "max_allocs", "ext4fixup", "unix_socket", "call_chain_cache"}
    Size = 6
    buffer_len = 4
    CacheNodes = 3
    CacheMatched = 2
SPECIFICATION MCSpec
INVARIANTS
    CoversAdds
    
    UnmountableWhileUpdating
    MessagesInOrder
    JoinedIsWellFormed
PROPERTIES
    ReturnsTheLines
    UndelayedDelivered
    RunsToItsEnd
CHECK_DEADLOCK FALSE
