CONSTANTS
    Programs = {"threads", "sample_tree", "report_sample", "trace_sched", "kmem", "profile_symbols"}
    SchedPid <- TwoPids
    SchedNames = {"app", "simpleperf"}
    SchedMaxTime = 4
SPECIFICATION MCSpec
INVARIANTS
    ThreadsAsTheyAre
    UnwindsWithCurrentMaps
    PeriodsAddUp
    ReportReadsBack
    
    SlabReportIsRight
    AddressesFindTheirSymbols
CHECK_DEADLOCK FALSE
