CONSTANTS
    Programs = {"make_ext4fs"}
    NoName = NoName
SPECIFICATION MCSpec
INVARIANT SplitsInTwo
CHECK_DEADLOCK FALSE
