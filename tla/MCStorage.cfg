CONSTANTS
    Programs = {"make_ext4fs", "fec", "verity_image", "ioshark", "f2fs_sparse", "boot_control", "anr_daemon", "perfprofd"}
    NoName = NoName
SPECIFICATION MCSpec
INVARIANTS
    
    ReadsVerified
    DecodesToOriginal
    ReplaysTheTraces
    CopiesWhatIsUsed
    
    
    ListedProfilesKept
CHECK_DEADLOCK FALSE
