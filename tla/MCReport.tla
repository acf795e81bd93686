------------------------------ MODULE MCReport ------------------------------
(***************************************************************************)
(* What reads a recording: the tree of threads and maps, the sample tree   *)
(* of the report command, the reports of samples, trace-sched and kmem,    *)
(* and the symbol table of a perfprofd profile. A behaviour is one of one  *)
(* of them.                                                                *)
(***************************************************************************)
EXTENDS Integers, Sequences, TLC

CONSTANTS
    Programs,   \* the components that are run
    SchedPid, SchedNames, SchedMaxTime   \* the threads of trace-sched, and its end

VARIABLES program, tree, kernel, cached, records, proc, gone, space, name,
          outdated, opt, b, next, time, count, seen, pc, file_ids, symbol_ids,
          out, files, sample_count, lost_count, read, now, phase, threads,
          thread_map_, processes, entries, warned, ran, keys, live, data,
          formats, samples, summary, alloc_cpu_record_map_, nr_frees_,
          allocations, crossed, frees, elf, build_ids, profile, at, dsos,
          symbol_info

-----------------------------------------------------------------------------
Threads == INSTANCE ThreadTree WITH
    Tids <- {1, 2, 3}, Pages <- 0 .. 3, Names <- {"x"}, MaxRecords <- 3, ReusePids <- FALSE,
    Maps <- [a |-> [len |-> 3, pgoff |-> 0], b |-> [len |-> 1, pgoff |-> 2]]
-----------------------------------------------------------------------------
Sampled(t, here, callers) == [tid |-> t, ip |-> here, ips |-> callers]

\* Prefixes of one another, loops, and an address without a symbol.
TreeSamples ==
    {Sampled(1, "A", <<>>), Sampled(1, "A", <<"A", "B">>), Sampled(2, "A", <<"A", "B", "C">>),
     Sampled(1, "A", <<"B", "D">>), Sampled(2, "A", <<"B", "C", "D">>),
     Sampled(1, "A", <<"A", "B", "A", "C">>), Sampled(1, "B", <<"A", "C">>),
     Sampled(2, "A", <<"A", "B", "C", "?", "D">>), Sampled(1, "?", <<"?", "B", "C">>),
     Sampled(2, "C", <<"D", "B", "C", "D">>)}

TreeOption(children, graph, caller, off, symbols) ==
    [accumulate |-> children, build |-> graph, caller_root |-> caller, offcpu |-> off,
     filter |-> symbols]

Functions == {"A", "B", "C", "D", "?"}

TreeOptions ==
    {TreeOption(FALSE, FALSE, TRUE, FALSE, Functions),
     TreeOption(TRUE, FALSE, TRUE, TRUE, {"A", "C"}),
     TreeOption(TRUE, TRUE, TRUE, FALSE, Functions),
     TreeOption(TRUE, TRUE, FALSE, FALSE, {"A", "B", "C"}),
     TreeOption(TRUE, TRUE, FALSE, TRUE, Functions)}

Tree == INSTANCE SampleTree WITH
    Options <- TreeOptions, Samples <- TreeSamples, Unknown <- "?", Gaps <- {1, 2}, MaxSamples <- 3
-----------------------------------------------------------------------------
Frame(dso, own) == [file |-> dso, own |-> own, kern |-> "", kernel |-> FALSE]
KernelFrame(dso, own, kern) == [file |-> dso, own |-> own, kern |-> kern, kernel |-> TRUE]
Art == Frame("art", "i")
Reported(t, stack) == [tid |-> t, frames |-> stack]

FileKinds == [kernel |-> "kernel", mod |-> "module", app |-> "elf", dex |-> "dex",
              art |-> "interpreter", libc |-> "libc", unk |-> "unknown"]

ReportSamples ==
    {Reported(1, <<KernelFrame("kernel", "", "k"), KernelFrame("mod", "", "m"),
                   KernelFrame("mod", "m", ""), KernelFrame("mod", "", ""),
                   Frame("libc", "__start_thread"), Frame("app", "f")>>),
     Reported(1, <<KernelFrame("kernel", "", ""), KernelFrame("kernel", "", "k")>>),
     Reported(2, <<Art, Art, Frame("dex", "J"), Art, Frame("dex", ""), Art, Art,
                   Frame("app", "f"), Art>>),
     Reported(1, <<Frame("unk", ""), Art, Frame("unk", ""), Frame("dex", "J")>>),
     Reported(2, <<Frame("app", "g"), Art, Frame("app", "f"), Art, Frame("dex", "K"),
                   Frame("libc", "x"), Frame("libc", "__libc_init"), Frame("app", "f")>>),
     Reported(1, <<Art>>)}

ReportMode(how, chain, show, user, off) ==
    [mode |-> how, callchain |-> chain, art |-> show, remove_kernel |-> user, offcpu |-> off]

ReportModes ==
    {ReportMode("protobuf", TRUE, FALSE, FALSE, FALSE), ReportMode("protobuf", TRUE, TRUE, TRUE, FALSE),
     ReportMode("protobuf", FALSE, FALSE, TRUE, FALSE), ReportMode("text", TRUE, FALSE, FALSE, FALSE),
     ReportMode("lib", TRUE, FALSE, FALSE, TRUE), ReportMode("lib", TRUE, TRUE, FALSE, FALSE)}

Samples == INSTANCE ReportSample WITH
    Modes <- ReportModes, Kind <- FileKinds, Samples <- ReportSamples, NoSymbol <- "",
    EndSymbols <- {"__libc_init", "__start_thread"}, Kernel <- "kernel", MaxSamples <- 3
-----------------------------------------------------------------------------
TwoPids == <<1, 3>>

OnePid == <<1>>

Sched == INSTANCE TraceSched WITH
    Pid <- SchedPid, Main <- {1}, Names <- SchedNames, Period <- 2, RateNum <- 8, RateDen <- 10,
    MaxTime <- SchedMaxTime
-----------------------------------------------------------------------------
Field(label, start, bytes) == [field |-> label, count |-> 1, offset |-> start, size |-> bytes]

KmemEvent(label, number, fields) ==
    [system |-> "kmem", format |-> <<[name |-> label], [id |-> number]>> \o fields]

\* Two kernels; the second has no event of an allocation.
KernelSet ==
    {<<KmemEvent("kmalloc", 5, <<Field("call_site", 8, 8), Field("ptr", 16, 8), Field("bytes_req", 24, 8),
                                 Field("bytes_alloc", 32, 8), Field("gfp_flags", 40, 4)>>),
       KmemEvent("kfree", 7, <<Field("call_site", 8, 8), Field("ptr", 24, 8)>>),
       KmemEvent("kmalloc_node", 6, <<Field("gfp_flags", 4, 4), Field("ptr", 8, 8), Field("call_site", 16, 8),
                                      Field("bytes_req", 28, 4), Field("bytes_alloc", 32, 4)>>)>>,
     <<KmemEvent("kfree", 7, <<Field("ptr", 8, 8)>>)>>}

Slab == INSTANCE Kmem WITH
    Kernels <- KernelSet, Keys <- {{"caller"}}, Ptrs <- {1, 2}, Cpus <- {0, 1}, Callers <- {3, 4},
    Sizes <- {5}, MaxEvents <- 4
-----------------------------------------------------------------------------
Symbol(start, label, bytes) == [vaddr |-> start, name |-> label, len |-> bytes]
Hit(lib, start) == [dso |-> lib, offset |-> start]

\* Aliases, adjacent and enclosing symbols; a file without any.
ElfSet ==
    {[lib |-> <<Symbol(1, "f", 2), Symbol(3, "g", 1), Symbol(4, "f", 2), Symbol(4, "h", 1)>>],
     [lib |-> <<Symbol(0, "f", 6), Symbol(2, "g", 2)>>, bin |-> <<>>]}

ProfileSet ==
    {<<<<Hit("lib", p[1]), Hit("bin", 1)>>, <<Hit("lib", p[2]), Hit("lib", p[3])>>, <<Hit("lib", p[4])>>>> :
        p \in [1 .. 4 -> 0 .. 6]}

Profile == INSTANCE ProfileSymbols WITH
    ElfFiles <- ElfSet, BuildIds <- {{}, {"bin"}}, Profiles <- ProfileSet
-----------------------------------------------------------------------------
mcvars == <<program, tree, kernel, cached, records, proc, gone, space, name,
            outdated, opt, b, next, time, count, seen, pc, file_ids,
            symbol_ids, out, files, sample_count, lost_count, read, now,
            phase, threads, thread_map_, processes, entries, warned, ran,
            keys, live, data, formats, samples, summary,
            alloc_cpu_record_map_, nr_frees_, allocations, crossed, frees,
            elf, build_ids, profile, at, dsos, symbol_info>>
notThreads == <<opt, b, next, time, count, seen, pc, file_ids, symbol_ids,
                out, files, sample_count, lost_count, read, now, phase,
                threads, thread_map_, processes, entries, warned, ran, keys,
                live, data, formats, samples, summary, alloc_cpu_record_map_,
                nr_frees_, allocations, crossed, frees, elf, build_ids,
                profile, at, dsos, symbol_info>>
notTree == <<tree, kernel, cached, records, proc, gone, space, name, outdated,
             pc, file_ids, symbol_ids, out, files, sample_count, lost_count,
             read, now, phase, threads, thread_map_, processes, entries,
             warned, ran, keys, live, data, formats, samples, summary,
             alloc_cpu_record_map_, nr_frees_, allocations, crossed, frees,
             elf, build_ids, profile, at, dsos, symbol_info>>
notSamples == <<tree, kernel, cached, records, proc, gone, space, name,
                outdated, b, time, seen, now, phase, threads, thread_map_,
                processes, entries, warned, ran, keys, live, data, formats,
                samples, summary, alloc_cpu_record_map_, nr_frees_,
                allocations, crossed, frees, elf, build_ids, profile, at,
                dsos, symbol_info>>
notSched == <<tree, kernel, cached, records, proc, gone, space, name,
              outdated, opt, b, next, time, count, seen, pc, file_ids,
              symbol_ids, out, files, sample_count, lost_count, read, keys,
              live, data, formats, samples, summary, alloc_cpu_record_map_,
              nr_frees_, allocations, crossed, frees, elf, build_ids, profile,
              at, dsos, symbol_info>>
notSlab == <<tree, cached, proc, gone, space, name, outdated, opt, b, next,
             time, count, seen, file_ids, symbol_ids, out, files,
             sample_count, lost_count, read, now, phase, threads, thread_map_,
             processes, entries, warned, ran, elf, build_ids, profile, at,
             dsos, symbol_info>>
notProfile == <<tree, kernel, cached, records, proc, gone, space, name,
                outdated, opt, b, next, time, count, seen, pc, file_ids,
                symbol_ids, out, sample_count, lost_count, read, now, phase,
                threads, thread_map_, processes, entries, warned, ran, keys,
                live, data, formats, samples, summary, alloc_cpu_record_map_,
                nr_frees_, allocations, crossed, frees>>

MCInit ==
    /\ program \in Programs
    /\ \/ /\ program = "threads" /\ Threads!Init
          /\ opt = 0 /\ b = 0 /\ next = 0 /\ time = 0 /\ count = 0 /\ seen = 0 /\ pc = 0
          /\ file_ids = 0 /\ symbol_ids = 0 /\ out = 0 /\ files = 0 /\ sample_count = 0
          /\ lost_count = 0 /\ read = 0 /\ now = 0 /\ phase = 0 /\ threads = 0 /\ thread_map_ = 0
          /\ processes = 0 /\ entries = 0 /\ warned = 0 /\ ran = 0 /\ keys = 0 /\ live = 0
          /\ data = 0 /\ formats = 0 /\ samples = 0 /\ summary = 0 /\ alloc_cpu_record_map_ = 0
          /\ nr_frees_ = 0 /\ allocations = 0 /\ crossed = 0 /\ frees = 0 /\ elf = 0
          /\ build_ids = 0 /\ profile = 0 /\ at = 0 /\ dsos = 0 /\ symbol_info = 0
       \/ /\ program = "sample_tree" /\ Tree!Init
          /\ tree = 0 /\ kernel = 0 /\ cached = 0 /\ records = 0 /\ proc = 0 /\ gone = 0
          /\ space = 0 /\ name = 0 /\ outdated = 0 /\ pc = 0 /\ file_ids = 0 /\ symbol_ids = 0
          /\ out = 0 /\ files = 0 /\ sample_count = 0 /\ lost_count = 0 /\ read = 0 /\ now = 0
          /\ phase = 0 /\ threads = 0 /\ thread_map_ = 0 /\ processes = 0 /\ entries = 0
          /\ warned = 0 /\ ran = 0 /\ keys = 0 /\ live = 0 /\ data = 0 /\ formats = 0 /\ samples = 0
          /\ summary = 0 /\ alloc_cpu_record_map_ = 0 /\ nr_frees_ = 0 /\ allocations = 0
          /\ crossed = 0 /\ frees = 0 /\ elf = 0 /\ build_ids = 0 /\ profile = 0 /\ at = 0
          /\ dsos = 0 /\ symbol_info = 0
       \/ /\ program = "report_sample" /\ Samples!Init
          /\ tree = 0 /\ kernel = 0 /\ cached = 0 /\ records = 0 /\ proc = 0 /\ gone = 0
          /\ space = 0 /\ name = 0 /\ outdated = 0 /\ b = 0 /\ time = 0 /\ seen = 0 /\ now = 0
          /\ phase = 0 /\ threads = 0 /\ thread_map_ = 0 /\ processes = 0 /\ entries = 0
          /\ warned = 0 /\ ran = 0 /\ keys = 0 /\ live = 0 /\ data = 0 /\ formats = 0 /\ samples = 0
          /\ summary = 0 /\ alloc_cpu_record_map_ = 0 /\ nr_frees_ = 0 /\ allocations = 0
          /\ crossed = 0 /\ frees = 0 /\ elf = 0 /\ build_ids = 0 /\ profile = 0 /\ at = 0
          /\ dsos = 0 /\ symbol_info = 0
       \/ /\ program = "trace_sched" /\ Sched!Init
          /\ tree = 0 /\ kernel = 0 /\ cached = 0 /\ records = 0 /\ proc = 0 /\ gone = 0
          /\ space = 0 /\ name = 0 /\ outdated = 0 /\ opt = 0 /\ b = 0 /\ next = 0 /\ time = 0
          /\ count = 0 /\ seen = 0 /\ pc = 0 /\ file_ids = 0 /\ symbol_ids = 0 /\ out = 0
          /\ files = 0 /\ sample_count = 0 /\ lost_count = 0 /\ read = 0 /\ keys = 0 /\ live = 0
          /\ data = 0 /\ formats = 0 /\ samples = 0 /\ summary = 0 /\ alloc_cpu_record_map_ = 0
          /\ nr_frees_ = 0 /\ allocations = 0 /\ crossed = 0 /\ frees = 0 /\ elf = 0
          /\ build_ids = 0 /\ profile = 0 /\ at = 0 /\ dsos = 0 /\ symbol_info = 0
       \/ /\ program = "kmem" /\ Slab!Init
          /\ tree = 0 /\ cached = 0 /\ proc = 0 /\ gone = 0 /\ space = 0 /\ name = 0 /\ outdated = 0
          /\ opt = 0 /\ b = 0 /\ next = 0 /\ time = 0 /\ count = 0 /\ seen = 0 /\ file_ids = 0
          /\ symbol_ids = 0 /\ out = 0 /\ files = 0 /\ sample_count = 0 /\ lost_count = 0
          /\ read = 0 /\ now = 0 /\ phase = 0 /\ threads = 0 /\ thread_map_ = 0 /\ processes = 0
          /\ entries = 0 /\ warned = 0 /\ ran = 0 /\ elf = 0 /\ build_ids = 0 /\ profile = 0
          /\ at = 0 /\ dsos = 0 /\ symbol_info = 0
       \/ /\ program = "profile_symbols" /\ Profile!Init
          /\ tree = 0 /\ kernel = 0 /\ cached = 0 /\ records = 0 /\ proc = 0 /\ gone = 0
          /\ space = 0 /\ name = 0 /\ outdated = 0 /\ opt = 0 /\ b = 0 /\ next = 0 /\ time = 0
          /\ count = 0 /\ seen = 0 /\ pc = 0 /\ file_ids = 0 /\ symbol_ids = 0 /\ out = 0
          /\ sample_count = 0 /\ lost_count = 0 /\ read = 0 /\ now = 0 /\ phase = 0 /\ threads = 0
          /\ thread_map_ = 0 /\ processes = 0 /\ entries = 0 /\ warned = 0 /\ ran = 0 /\ keys = 0
          /\ live = 0 /\ data = 0 /\ formats = 0 /\ samples = 0 /\ summary = 0
          /\ alloc_cpu_record_map_ = 0 /\ nr_frees_ = 0 /\ allocations = 0 /\ crossed = 0
          /\ frees = 0

MCNext ==
    /\ UNCHANGED program
    /\ \/ program = "threads" /\ Threads!Next /\ UNCHANGED notThreads
       \/ program = "sample_tree" /\ Tree!Next /\ UNCHANGED notTree
       \/ program = "report_sample" /\ Samples!Next /\ UNCHANGED notSamples
       \/ program = "trace_sched" /\ Sched!Next /\ UNCHANGED notSched
       \/ program = "kmem" /\ Slab!Next /\ UNCHANGED notSlab
       \/ program = "profile_symbols" /\ Profile!Next /\ UNCHANGED notProfile

MCSpec == MCInit /\ [][MCNext]_mcvars

\* ThreadTree: after the records up to a time, each thread has the name and
\* the maps that the kernel gave it, wherever new maps overlap old ones.
ThreadsAsTheyAre == program = "threads" => Threads!ThreadsAsTheyAre

\* ThreadTree: the unwinder walks a stack with the maps the process has at
\* that sample, although it keeps them between samples.
UnwindsWithCurrentMaps == program = "threads" => Threads!UnwindsWithCurrentMaps

\* SampleTree: every entry has the periods of the samples that belong to it,
\* once each, and its call tree holds their chains with the same periods.
PeriodsAddUp == program = "sample_tree" => Tree!PeriodsAddUp /\ Tree!CallTreesHoldTheChains

\* ReportSample: a reader of the report finds the files, symbols and threads
\* that its numbers mean, and the frames of each sample that should be shown.
ReportReadsBack == program = "report_sample" => Samples!ReportReadsBack

\* TraceSched: the run time of a thread and of a process is that of the
\* switches it ran between.
RuntimesAddUp == program = "trace_sched" => Sched!RuntimesAddUp

\* TraceSched: a thread that takes more than the spin rate of a check period
\* in some period is warned of.
SpinningIsWarned == program = "trace_sched" => Sched!SpinningIsWarned

\* Kmem: each entry of the slab report has the allocations, bytes,
\* fragmentation and cross-cpu frees of its events.
SlabReportIsRight == program = "kmem" => Slab!SlabReportIsRight

\* ProfileSymbols: looked up in the encoded profile, each sampled address has
\* the symbol that covers it in its file.
AddressesFindTheirSymbols == program = "profile_symbols" => Profile!AddressesFindTheirSymbols
=============================================================================
