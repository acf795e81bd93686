CONSTANTS
    Programs = {"recorder", "selection", "options", "jit", "inplace"}
SPECIFICATION MCSpec
INVARIANTS
    RecordsSavedInOrder
    
    CountedOnce
    SpeedAsGiven
    
    
CHECK_DEADLOCK FALSE
