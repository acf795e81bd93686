CONSTANTS
    Programs = {"trace_sched"}
    SchedPid <- OnePid
    SchedNames = {"app"}
    SchedMaxTime = 6
SPECIFICATION MCSpec
INVARIANT SpinningIsWarned
CHECK_DEADLOCK FALSE
