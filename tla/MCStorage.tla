----------------------------- MODULE MCStorage ------------------------------
(***************************************************************************)
(* The programs that write images and files or watch over the system:      *)
(* make_ext4fs, the reader of a verified image and the tools that build    *)
(* one, ioshark, f2fs sparse copies, the boot control HAL, the ANR daemon  *)
(* and perfprofd. A behaviour is one of one of them.                       *)
(***************************************************************************)
EXTENDS Integers, Sequences, FiniteSets, TLC

CONSTANTS
    Programs,   \* the components that are run
    NoName      \* the unnamed allocation at the end of a block map

VARIABLES program, gen, pc, tree, len, device, fs, stack, base, disk, wrong,
          layout, rdwr, noverity, parity, header, h, try, k, attempt, job,
          data, pos, level, root, threads, work, fec, file, input, corrected,
          traces, opt, names, inputs, next_index, start, num_files,
          num_threads, iteration, work_next, work_num, th, db, aggr, missed,
          cp, sit, ver, live, pending, committed, upcoming, info, block,
          count, out, failed, misc, boot, image, running, op, copied, exit,
          updates, calls, quit, suspend, dump_requested, err, tracing,
          tracing_on, enabled, writing, tries, todo, dumping, signals, owed,
          mode, entries, config, conf, interrupted, is_profiling, iterations,
          child, hup, perfdata, proto, mpdecision, restart, files, seq,
          produced, processed, uploaded, made, starts, restarts, announced,
          stale, stopped_at, late, left

-----------------------------------------------------------------------------
Ext4Options ==
    [block_size |-> 16, blocks_per_group |-> 20, inodes |-> 36, inode_size |-> 4,
     journal_blocks |-> 1, no_journal |-> FALSE, min_journal |-> 1, max_journal |-> 2]

File(n, blocks) == [kind |-> "file", name |-> n, words |-> 1, size |-> 16 * blocks,
                    entries |-> <<>>, secon |-> 0, caps |-> 0]
Labelled(e, secon, caps) == [e EXCEPT !.secon = secon, !.caps = caps]
Dir(n, sub) == [File(n, 0) EXCEPT !.kind = "dir", !.entries = sub]
Link(n, bytes) == [File(n, 0) EXCEPT !.kind = "link", !.size = bytes]
Fifo(n) == [File(n, 0) EXCEPT !.kind = "fifo"]
Root(secon, sub) == [secon |-> secon, entries |-> sub]

TreeSet == {
    Root(0, <<>>),
    Root(2, <<Labelled(File("a", 2), 2, 3), Labelled(File("b", 1), 3, 3), Link("c", 9)>>),
    Root(0, <<File("a", 1), File("b", 1), File("c", 2), File("d", 1), File("e", 1), File("f", 1)>>),
    Root(0, <<File("a", 15), File("c", 1), File("e", 1)>>),
    Root(0, <<File("a", 5), File("b", 2), Dir("d", <<File("a", 1), Dir("e", <<Link("x", 2)>>)>>)>>),
    Root(0, <<File("a", 2), File("b", 1), File("c", 2), File("d", 1), File("e", 1), File("f", 1)>>),
    Root(1, <<Dir("d", <<File("a", 3), Labelled(File("b", 4), 8, 0)>>), Fifo("p")>>),
    Root(0, <<Dir("lost+found", <<>>), File("b", 3), File("c", 9), File("d", 0)>>)}

Ext4 == INSTANCE MakeExt4fs WITH
    Lens <- {20, 43, 50, 60}, Trees <- TreeSet, Opts <- Ext4Options, DescSize <- 1, GrowthFactor <- 16,
    KiB <- 4, InodeXattrRoom <- 3, FastLink <- 4
-----------------------------------------------------------------------------
Damage(bad, unreadable, ecc, first, second, off) ==
    [blocks |-> bad, io |-> unreadable, parity |-> ecc, primary |-> first, backup |-> second,
     disabled |-> off]

\* Up to two wrong blocks of nine, more than can be corrected, and headers that
\* are damaged or half written.
FecDamages ==
    {Damage(s, {}, 0, "ok", "ok", FALSE) : s \in {t \in SUBSET (0 .. 8) : Cardinality(t) <= 2}}
    \cup {Damage({x}, {}, 1, "ok", "ok", FALSE) : x \in 0 .. 8}
    \cup {Damage({1, 3, x}, {}, 0, "ok", "ok", FALSE) : x \in 5 .. 8}
    \cup {Damage({x}, {x}, 0, "bad", "ok", FALSE) : x \in 0 .. 8}
    \cup {Damage(s, {}, 0, first, second, off) :
             s \in {{}, {1}, {5}}, first \in {"half", "bad"}, second \in {"bad", "half", "ok"}, off \in BOOLEAN}

Reader == INSTANCE Fec WITH
    D <- 5, H <- 4, BS <- 2, RSN <- 5, Roots <- 2, Pad <- 1, Zeros <- {3}, Damages <- FecDamages,
    Layouts <- {"end", "legacy", "fs"}, Threads <- {1, 3}, Reads <- {<<0, 10>>, <<2, 5>>, <<9, 2>>, <<12, 1>>}
-----------------------------------------------------------------------------
\* FALSE is a block of zeros.
Images == {[x \in 1 .. n |-> x # 2] : n \in 1 .. 5} \cup {<<FALSE>>, <<TRUE, FALSE, FALSE, TRUE>>}

Builder == INSTANCE VerityImage WITH
    Images <- Images, Damages <- {{}, {0, 1}, {5}, 4 .. 7, {2, 3, 20}, {9, 10}, 0 .. 3}, H <- 2, BS <- 2,
    RSM <- 6, Roots <- 2, Threads <- {1, 2, 3}
-----------------------------------------------------------------------------
Line(call, on, from, bytes, how) == [op |-> call, file |-> on, off |-> from, len |-> bytes, how |-> how]
Open(on, access, flags) == Line("open", on, 0, 0, [mode |-> access, flags |-> flags])

LinesOfA ==
    {Line("seek", "a", 2, 0, "SET"), Line("read", "a", 0, 2, ""), Line("write", "a", 0, 1, ""),
     Line("pread", "a", 1, 2, ""), Open("a", "rw", {}), Open("a", "rw", {"CREAT", "EXCL"}),
     Line("close", "a", 0, 0, ""), Line("mmap", "a", 0, 3, "rw")}

\* The traces may start while the process already has the file open.
Traces ==
    {<<x, y, z>> : x \in LinesOfA, y \in LinesOfA,
                   z \in {Line("read", "a", 0, 2, ""), Line("mmap", "a", 1, 1, "r"), Open("a", "r", {"DIRECTORY"})}}

Mixed == <<Open("ro", "r", {}), Line("ftrace", "ro", 0, 2, ""), Line("fsync", "b", 0, 0, ""),
           Line("seek", "b", 1, 0, "END"), Line("pwrite", "b", 1, 1, "")>>
Big == <<Line("mmap", "c", 1, 7, "rw")>>
Small == <<Line("read", "ro", 0, 5, "")>>

WorkloadSet == {<<t>> : t \in Traces} \cup {<<Mixed, Small, Big>>, <<Big, Mixed>>, <<Small, Small, Mixed>>}

Shark == INSTANCE IoShark WITH
    Workloads <- WorkloadSet, Options <- [quick : BOOLEAN, iterations : {2}, threads : {0, 2}],
    RoFiles <- [ro |-> 3], Avail <- 9, MaxIo <- 2, Ents <- 2, IntMax <- 100
-----------------------------------------------------------------------------
Update(one, two) == [s \in 0 .. 1 |-> IF s = 0 THEN one ELSE two]

F2fs == INSTANCE F2fsSparse WITH
    Segs <- 2, PerSeg <- 2, PerSit <- 2, Extra <- 1, main_blkaddr <- 1, Versions <- 8, FirstVersion <- 6,
    Updates <- {Update({1}, {0, 1}), Update({}, {1})}, MaxCheckpoints <- 2, OutFiles <- {"hole"}
-----------------------------------------------------------------------------
Boot == INSTANCE BootControl WITH
    Blocks <- 2, Silent <- FALSE, MaxUpdates <- 2, MaxCalls <- 3
-----------------------------------------------------------------------------
Load(i, t) == [idle |-> i, total |-> t]

Anr == INSTANCE ANRdaemon WITH
    Categories <- {"sched", "irq"}, idle_threshold <- 10, Tries <- 2, MaxSignals <- 4,
    Loads <- {Load(0, 100), Load(1, 100), Load(50, 100), Load(0, 0)}
-----------------------------------------------------------------------------
Setting(key, value) == [key |-> key, value |-> value]
ConfKeys == {"iterations", "max", "dropbox", "freq"}
RequestSet ==
    {[how |-> "args", lines |-> <<Setting("iterations", 1)>>], [how |-> "string", lines |-> <<Setting("max", 0)>>],
     [how |-> "string", lines |-> <<Setting("dropbox", 1)>>], [how |-> "proto", lines |-> <<Setting("freq", 1)>>]}

Profd == INSTANCE PerfProfd WITH
    Keys <- ConfKeys, Default <- [x \in ConfKeys |-> IF x = "max" THEN 2 ELSE 0],
    Permitted <- [x \in ConfKeys |-> IF x = "max" THEN 1 .. 2 ELSE 0 .. 1], NotCopied <- {"freq"},
    ConfFiles <- {<<>>, <<Setting("max", 1), Setting("freq", 9)>>, <<Setting("dropbox", 1), Setting("other", 1)>>},
    Requests <- RequestSet, Modes <- {"daemon", "binder"}, MaxIterations <- 1, MaxMade <- 3, MaxStarts <- 2,
    MaxRestarts <- 1
-----------------------------------------------------------------------------
mcvars == <<program, gen, pc, tree, len, device, fs, stack, base, disk, wrong,
            layout, rdwr, noverity, parity, header, h, try, k, attempt, job,
            data, pos, level, root, threads, work, fec, file, input,
            corrected, traces, opt, names, inputs, next_index, start,
            num_files, num_threads, iteration, work_next, work_num, th, db,
            aggr, missed, cp, sit, ver, live, pending, committed, upcoming,
            info, block, count, out, failed, misc, boot, image, running, op,
            copied, exit, updates, calls, quit, suspend, dump_requested, err,
            tracing, tracing_on, enabled, writing, tries, todo, dumping,
            signals, owed, mode, entries, config, conf, interrupted,
            is_profiling, iterations, child, hup, perfdata, proto, mpdecision,
            restart, files, seq, produced, processed, uploaded, made, starts,
            restarts, announced, stale, stopped_at, late, left>>
notExt4 == <<layout, rdwr, noverity, parity, header, h, try, k, attempt, job,
             data, pos, level, root, threads, work, fec, file, input,
             corrected, traces, opt, names, inputs, next_index, start,
             num_files, num_threads, iteration, work_next, work_num, th, db,
             aggr, missed, cp, sit, ver, live, pending, committed, upcoming,
             info, block, count, out, failed, misc, boot, image, running, op,
             copied, exit, updates, calls, quit, suspend, dump_requested, err,
             tracing, tracing_on, enabled, writing, tries, todo, dumping,
             signals, owed, mode, entries, config, conf, interrupted,
             is_profiling, iterations, child, hup, perfdata, proto,
             mpdecision, restart, files, seq, produced, processed, uploaded,
             made, starts, restarts, announced, stale, stopped_at, late, left>>
notReader == <<gen, tree, len, device, fs, stack, base, wrong, data, pos,
               level, root, threads, work, fec, file, input, corrected,
               traces, opt, names, inputs, next_index, start, num_files,
               num_threads, iteration, work_next, work_num, th, db, aggr,
               missed, cp, sit, ver, live, pending, committed, upcoming, info,
               block, count, out, failed, misc, boot, image, running, op,
               copied, exit, updates, calls, quit, suspend, dump_requested,
               err, tracing, tracing_on, enabled, writing, tries, todo,
               dumping, signals, owed, mode, entries, config, conf,
               interrupted, is_profiling, iterations, child, hup, perfdata,
               proto, mpdecision, restart, files, seq, produced, processed,
               uploaded, made, starts, restarts, announced, stale, stopped_at,
               late, left>>
notBuilder == <<gen, len, device, fs, stack, base, disk, wrong, layout, rdwr,
                noverity, parity, header, h, try, k, attempt, job, traces,
                opt, names, inputs, next_index, start, num_files, num_threads,
                iteration, work_next, work_num, th, db, aggr, missed, cp, sit,
                ver, live, pending, committed, upcoming, info, block, count,
                out, failed, misc, boot, image, running, op, copied, exit,
                updates, calls, quit, suspend, dump_requested, err, tracing,
                tracing_on, enabled, writing, tries, todo, dumping, signals,
                owed, mode, entries, config, conf, interrupted, is_profiling,
                iterations, child, hup, perfdata, proto, mpdecision, restart,
                files, seq, produced, processed, uploaded, made, starts,
                restarts, announced, stale, stopped_at, late, left>>
notShark == <<gen, tree, len, device, fs, stack, base, wrong, layout, rdwr,
              noverity, parity, header, h, try, k, attempt, job, data, pos,
              level, root, threads, work, fec, file, input, corrected, cp,
              sit, ver, live, pending, committed, upcoming, info, block,
              count, out, failed, misc, boot, image, running, op, copied,
              exit, updates, calls, quit, suspend, dump_requested, err,
              tracing, tracing_on, enabled, writing, tries, todo, dumping,
              signals, owed, mode, entries, config, conf, interrupted,
              is_profiling, iterations, child, hup, perfdata, proto,
              mpdecision, restart, files, seq, produced, processed, uploaded,
              made, starts, restarts, announced, stale, stopped_at, late, left>>
notF2fs == <<gen, tree, len, device, fs, stack, base, disk, wrong, layout,
             rdwr, noverity, parity, header, h, try, k, attempt, job, data,
             pos, level, root, threads, work, fec, file, input, corrected,
             traces, opt, names, inputs, next_index, start, num_files,
             num_threads, iteration, work_next, work_num, th, db, aggr,
             missed, misc, boot, image, running, op, copied, exit, updates,
             calls, quit, suspend, dump_requested, err, tracing, tracing_on,
             enabled, writing, tries, todo, dumping, signals, owed, mode,
             entries, config, conf, interrupted, is_profiling, iterations,
             child, hup, perfdata, proto, mpdecision, restart, files, seq,
             produced, processed, uploaded, made, starts, restarts, announced,
             stale, stopped_at, late, left>>
notBoot == <<gen, tree, len, device, fs, stack, base, disk, wrong, layout,
             rdwr, noverity, parity, header, h, try, k, attempt, job, data,
             pos, level, root, threads, work, fec, file, input, corrected,
             traces, opt, names, inputs, next_index, start, num_files,
             num_threads, iteration, work_next, work_num, th, db, aggr,
             missed, cp, sit, ver, live, pending, committed, upcoming, block,
             count, out, failed, quit, suspend, dump_requested, err, tracing,
             tracing_on, enabled, writing, tries, todo, dumping, signals,
             owed, mode, entries, config, conf, interrupted, is_profiling,
             iterations, child, hup, perfdata, proto, mpdecision, restart,
             files, seq, produced, processed, uploaded, made, starts,
             restarts, announced, stale, stopped_at, late, left>>
notAnr == <<gen, tree, len, device, fs, stack, base, disk, wrong, layout,
            rdwr, noverity, parity, header, h, try, k, attempt, job, data,
            pos, level, root, threads, work, fec, file, input, corrected,
            traces, opt, names, inputs, next_index, start, num_files,
            num_threads, iteration, work_next, work_num, th, db, aggr, missed,
            cp, sit, ver, live, pending, committed, upcoming, info, block,
            count, out, failed, misc, boot, image, running, op, copied, exit,
            updates, calls, mode, entries, config, conf, interrupted,
            is_profiling, iterations, child, hup, perfdata, proto, mpdecision,
            restart, files, seq, produced, processed, uploaded, made, starts,
            restarts, announced, stale, stopped_at, late, left>>
notProfd == <<gen, tree, len, device, fs, stack, base, disk, wrong, layout,
              rdwr, noverity, parity, header, h, try, k, attempt, job, data,
              pos, level, root, threads, work, fec, file, input, corrected,
              traces, opt, names, inputs, next_index, start, num_files,
              num_threads, iteration, work_next, work_num, th, db, aggr,
              missed, cp, sit, ver, live, pending, committed, upcoming, info,
              block, count, out, failed, misc, boot, image, running, op,
              copied, exit, updates, calls, quit, suspend, dump_requested,
              err, tracing, tracing_on, writing, tries, todo, dumping,
              signals, owed>>

MCInit ==
    /\ program \in Programs
    /\ \/ /\ program = "make_ext4fs" /\ Ext4!Init
          /\ layout = 0 /\ rdwr = 0 /\ noverity = 0 /\ parity = 0 /\ header = 0 /\ h = 0 /\ try = 0
          /\ k = 0 /\ attempt = 0 /\ job = 0 /\ data = 0 /\ pos = 0 /\ level = 0 /\ root = 0
          /\ threads = 0 /\ work = 0 /\ fec = 0 /\ file = 0 /\ input = 0 /\ corrected = 0
          /\ traces = 0 /\ opt = 0 /\ names = 0 /\ inputs = 0 /\ next_index = 0 /\ start = 0
          /\ num_files = 0 /\ num_threads = 0 /\ iteration = 0 /\ work_next = 0 /\ work_num = 0
          /\ th = 0 /\ db = 0 /\ aggr = 0 /\ missed = 0 /\ cp = 0 /\ sit = 0 /\ ver = 0 /\ live = 0
          /\ pending = 0 /\ committed = 0 /\ upcoming = 0 /\ info = 0 /\ block = 0 /\ count = 0
          /\ out = 0 /\ failed = 0 /\ misc = 0 /\ boot = 0 /\ image = 0 /\ running = 0 /\ op = 0
          /\ copied = 0 /\ exit = 0 /\ updates = 0 /\ calls = 0 /\ quit = 0 /\ suspend = 0
          /\ dump_requested = 0 /\ err = 0 /\ tracing = 0 /\ tracing_on = 0 /\ enabled = 0
          /\ writing = 0 /\ tries = 0 /\ todo = 0 /\ dumping = 0 /\ signals = 0 /\ owed = 0
          /\ mode = 0 /\ entries = 0 /\ config = 0 /\ conf = 0 /\ interrupted = 0
          /\ is_profiling = 0 /\ iterations = 0 /\ child = 0 /\ hup = 0 /\ perfdata = 0 /\ proto = 0
          /\ mpdecision = 0 /\ restart = 0 /\ files = 0 /\ seq = 0 /\ produced = 0 /\ processed = 0
          /\ uploaded = 0 /\ made = 0 /\ starts = 0 /\ restarts = 0 /\ announced = 0 /\ stale = 0
          /\ stopped_at = 0 /\ late = 0 /\ left = 0
       \/ /\ program = "fec" /\ Reader!Init
          /\ gen = 0 /\ tree = 0 /\ len = 0 /\ device = 0 /\ fs = 0 /\ stack = 0 /\ base = 0
          /\ wrong = 0 /\ data = 0 /\ pos = 0 /\ level = 0 /\ root = 0 /\ threads = 0 /\ work = 0
          /\ fec = 0 /\ file = 0 /\ input = 0 /\ corrected = 0 /\ traces = 0 /\ opt = 0 /\ names = 0
          /\ inputs = 0 /\ next_index = 0 /\ start = 0 /\ num_files = 0 /\ num_threads = 0
          /\ iteration = 0 /\ work_next = 0 /\ work_num = 0 /\ th = 0 /\ db = 0 /\ aggr = 0
          /\ missed = 0 /\ cp = 0 /\ sit = 0 /\ ver = 0 /\ live = 0 /\ pending = 0 /\ committed = 0
          /\ upcoming = 0 /\ info = 0 /\ block = 0 /\ count = 0 /\ out = 0 /\ failed = 0 /\ misc = 0
          /\ boot = 0 /\ image = 0 /\ running = 0 /\ op = 0 /\ copied = 0 /\ exit = 0 /\ updates = 0
          /\ calls = 0 /\ quit = 0 /\ suspend = 0 /\ dump_requested = 0 /\ err = 0 /\ tracing = 0
          /\ tracing_on = 0 /\ enabled = 0 /\ writing = 0 /\ tries = 0 /\ todo = 0 /\ dumping = 0
          /\ signals = 0 /\ owed = 0 /\ mode = 0 /\ entries = 0 /\ config = 0 /\ conf = 0
          /\ interrupted = 0 /\ is_profiling = 0 /\ iterations = 0 /\ child = 0 /\ hup = 0
          /\ perfdata = 0 /\ proto = 0 /\ mpdecision = 0 /\ restart = 0 /\ files = 0 /\ seq = 0
          /\ produced = 0 /\ processed = 0 /\ uploaded = 0 /\ made = 0 /\ starts = 0 /\ restarts = 0
          /\ announced = 0 /\ stale = 0 /\ stopped_at = 0 /\ late = 0 /\ left = 0
       \/ /\ program = "verity_image" /\ Builder!Init
          /\ gen = 0 /\ len = 0 /\ device = 0 /\ fs = 0 /\ stack = 0 /\ base = 0 /\ disk = 0
          /\ wrong = 0 /\ layout = 0 /\ rdwr = 0 /\ noverity = 0 /\ parity = 0 /\ header = 0
          /\ h = 0 /\ try = 0 /\ k = 0 /\ attempt = 0 /\ job = 0 /\ traces = 0 /\ opt = 0
          /\ names = 0 /\ inputs = 0 /\ next_index = 0 /\ start = 0 /\ num_files = 0
          /\ num_threads = 0 /\ iteration = 0 /\ work_next = 0 /\ work_num = 0 /\ th = 0 /\ db = 0
          /\ aggr = 0 /\ missed = 0 /\ cp = 0 /\ sit = 0 /\ ver = 0 /\ live = 0 /\ pending = 0
          /\ committed = 0 /\ upcoming = 0 /\ info = 0 /\ block = 0 /\ count = 0 /\ out = 0
          /\ failed = 0 /\ misc = 0 /\ boot = 0 /\ image = 0 /\ running = 0 /\ op = 0 /\ copied = 0
          /\ exit = 0 /\ updates = 0 /\ calls = 0 /\ quit = 0 /\ suspend = 0 /\ dump_requested = 0
          /\ err = 0 /\ tracing = 0 /\ tracing_on = 0 /\ enabled = 0 /\ writing = 0 /\ tries = 0
          /\ todo = 0 /\ dumping = 0 /\ signals = 0 /\ owed = 0 /\ mode = 0 /\ entries = 0
          /\ config = 0 /\ conf = 0 /\ interrupted = 0 /\ is_profiling = 0 /\ iterations = 0
          /\ child = 0 /\ hup = 0 /\ perfdata = 0 /\ proto = 0 /\ mpdecision = 0 /\ restart = 0
          /\ files = 0 /\ seq = 0 /\ produced = 0 /\ processed = 0 /\ uploaded = 0 /\ made = 0
          /\ starts = 0 /\ restarts = 0 /\ announced = 0 /\ stale = 0 /\ stopped_at = 0 /\ late = 0
          /\ left = 0
       \/ /\ program = "ioshark" /\ Shark!Init
          /\ gen = 0 /\ tree = 0 /\ len = 0 /\ device = 0 /\ fs = 0 /\ stack = 0 /\ base = 0
          /\ wrong = 0 /\ layout = 0 /\ rdwr = 0 /\ noverity = 0 /\ parity = 0 /\ header = 0
          /\ h = 0 /\ try = 0 /\ k = 0 /\ attempt = 0 /\ job = 0 /\ data = 0 /\ pos = 0 /\ level = 0
          /\ root = 0 /\ threads = 0 /\ work = 0 /\ fec = 0 /\ file = 0 /\ input = 0
          /\ corrected = 0 /\ cp = 0 /\ sit = 0 /\ ver = 0 /\ live = 0 /\ pending = 0
          /\ committed = 0 /\ upcoming = 0 /\ info = 0 /\ block = 0 /\ count = 0 /\ out = 0
          /\ failed = 0 /\ misc = 0 /\ boot = 0 /\ image = 0 /\ running = 0 /\ op = 0 /\ copied = 0
          /\ exit = 0 /\ updates = 0 /\ calls = 0 /\ quit = 0 /\ suspend = 0 /\ dump_requested = 0
          /\ err = 0 /\ tracing = 0 /\ tracing_on = 0 /\ enabled = 0 /\ writing = 0 /\ tries = 0
          /\ todo = 0 /\ dumping = 0 /\ signals = 0 /\ owed = 0 /\ mode = 0 /\ entries = 0
          /\ config = 0 /\ conf = 0 /\ interrupted = 0 /\ is_profiling = 0 /\ iterations = 0
          /\ child = 0 /\ hup = 0 /\ perfdata = 0 /\ proto = 0 /\ mpdecision = 0 /\ restart = 0
          /\ files = 0 /\ seq = 0 /\ produced = 0 /\ processed = 0 /\ uploaded = 0 /\ made = 0
          /\ starts = 0 /\ restarts = 0 /\ announced = 0 /\ stale = 0 /\ stopped_at = 0 /\ late = 0
          /\ left = 0
       \/ /\ program = "f2fs_sparse" /\ F2fs!Init
          /\ gen = 0 /\ tree = 0 /\ len = 0 /\ device = 0 /\ fs = 0 /\ stack = 0 /\ base = 0
          /\ disk = 0 /\ wrong = 0 /\ layout = 0 /\ rdwr = 0 /\ noverity = 0 /\ parity = 0
          /\ header = 0 /\ h = 0 /\ try = 0 /\ k = 0 /\ attempt = 0 /\ job = 0 /\ data = 0
          /\ pos = 0 /\ level = 0 /\ root = 0 /\ threads = 0 /\ work = 0 /\ fec = 0 /\ file = 0
          /\ input = 0 /\ corrected = 0 /\ traces = 0 /\ opt = 0 /\ names = 0 /\ inputs = 0
          /\ next_index = 0 /\ start = 0 /\ num_files = 0 /\ num_threads = 0 /\ iteration = 0
          /\ work_next = 0 /\ work_num = 0 /\ th = 0 /\ db = 0 /\ aggr = 0 /\ missed = 0 /\ misc = 0
          /\ boot = 0 /\ image = 0 /\ running = 0 /\ op = 0 /\ copied = 0 /\ exit = 0 /\ updates = 0
          /\ calls = 0 /\ quit = 0 /\ suspend = 0 /\ dump_requested = 0 /\ err = 0 /\ tracing = 0
          /\ tracing_on = 0 /\ enabled = 0 /\ writing = 0 /\ tries = 0 /\ todo = 0 /\ dumping = 0
          /\ signals = 0 /\ owed = 0 /\ mode = 0 /\ entries = 0 /\ config = 0 /\ conf = 0
          /\ interrupted = 0 /\ is_profiling = 0 /\ iterations = 0 /\ child = 0 /\ hup = 0
          /\ perfdata = 0 /\ proto = 0 /\ mpdecision = 0 /\ restart = 0 /\ files = 0 /\ seq = 0
          /\ produced = 0 /\ processed = 0 /\ uploaded = 0 /\ made = 0 /\ starts = 0 /\ restarts = 0
          /\ announced = 0 /\ stale = 0 /\ stopped_at = 0 /\ late = 0 /\ left = 0
       \/ /\ program = "boot_control" /\ Boot!Init
          /\ gen = 0 /\ tree = 0 /\ len = 0 /\ device = 0 /\ fs = 0 /\ stack = 0 /\ base = 0
          /\ disk = 0 /\ wrong = 0 /\ layout = 0 /\ rdwr = 0 /\ noverity = 0 /\ parity = 0
          /\ header = 0 /\ h = 0 /\ try = 0 /\ k = 0 /\ attempt = 0 /\ job = 0 /\ data = 0
          /\ pos = 0 /\ level = 0 /\ root = 0 /\ threads = 0 /\ work = 0 /\ fec = 0 /\ file = 0
          /\ input = 0 /\ corrected = 0 /\ traces = 0 /\ opt = 0 /\ names = 0 /\ inputs = 0
          /\ next_index = 0 /\ start = 0 /\ num_files = 0 /\ num_threads = 0 /\ iteration = 0
          /\ work_next = 0 /\ work_num = 0 /\ th = 0 /\ db = 0 /\ aggr = 0 /\ missed = 0 /\ cp = 0
          /\ sit = 0 /\ ver = 0 /\ live = 0 /\ pending = 0 /\ committed = 0 /\ upcoming = 0
          /\ block = 0 /\ count = 0 /\ out = 0 /\ failed = 0 /\ quit = 0 /\ suspend = 0
          /\ dump_requested = 0 /\ err = 0 /\ tracing = 0 /\ tracing_on = 0 /\ enabled = 0
          /\ writing = 0 /\ tries = 0 /\ todo = 0 /\ dumping = 0 /\ signals = 0 /\ owed = 0
          /\ mode = 0 /\ entries = 0 /\ config = 0 /\ conf = 0 /\ interrupted = 0
          /\ is_profiling = 0 /\ iterations = 0 /\ child = 0 /\ hup = 0 /\ perfdata = 0 /\ proto = 0
          /\ mpdecision = 0 /\ restart = 0 /\ files = 0 /\ seq = 0 /\ produced = 0 /\ processed = 0
          /\ uploaded = 0 /\ made = 0 /\ starts = 0 /\ restarts = 0 /\ announced = 0 /\ stale = 0
          /\ stopped_at = 0 /\ late = 0 /\ left = 0
       \/ /\ program = "anr_daemon" /\ Anr!Init
          /\ gen = 0 /\ tree = 0 /\ len = 0 /\ device = 0 /\ fs = 0 /\ stack = 0 /\ base = 0
          /\ disk = 0 /\ wrong = 0 /\ layout = 0 /\ rdwr = 0 /\ noverity = 0 /\ parity = 0
          /\ header = 0 /\ h = 0 /\ try = 0 /\ k = 0 /\ attempt = 0 /\ job = 0 /\ data = 0
          /\ pos = 0 /\ level = 0 /\ root = 0 /\ threads = 0 /\ work = 0 /\ fec = 0 /\ file = 0
          /\ input = 0 /\ corrected = 0 /\ traces = 0 /\ opt = 0 /\ names = 0 /\ inputs = 0
          /\ next_index = 0 /\ start = 0 /\ num_files = 0 /\ num_threads = 0 /\ iteration = 0
          /\ work_next = 0 /\ work_num = 0 /\ th = 0 /\ db = 0 /\ aggr = 0 /\ missed = 0 /\ cp = 0
          /\ sit = 0 /\ ver = 0 /\ live = 0 /\ pending = 0 /\ committed = 0 /\ upcoming = 0
          /\ info = 0 /\ block = 0 /\ count = 0 /\ out = 0 /\ failed = 0 /\ misc = 0 /\ boot = 0
          /\ image = 0 /\ running = 0 /\ op = 0 /\ copied = 0 /\ exit = 0 /\ updates = 0
          /\ calls = 0 /\ mode = 0 /\ entries = 0 /\ config = 0 /\ conf = 0 /\ interrupted = 0
          /\ is_profiling = 0 /\ iterations = 0 /\ child = 0 /\ hup = 0 /\ perfdata = 0 /\ proto = 0
          /\ mpdecision = 0 /\ restart = 0 /\ files = 0 /\ seq = 0 /\ produced = 0 /\ processed = 0
          /\ uploaded = 0 /\ made = 0 /\ starts = 0 /\ restarts = 0 /\ announced = 0 /\ stale = 0
          /\ stopped_at = 0 /\ late = 0 /\ left = 0
       \/ /\ program = "perfprofd" /\ Profd!Init
          /\ gen = 0 /\ tree = 0 /\ len = 0 /\ device = 0 /\ fs = 0 /\ stack = 0 /\ base = 0
          /\ disk = 0 /\ wrong = 0 /\ layout = 0 /\ rdwr = 0 /\ noverity = 0 /\ parity = 0
          /\ header = 0 /\ h = 0 /\ try = 0 /\ k = 0 /\ attempt = 0 /\ job = 0 /\ data = 0
          /\ pos = 0 /\ level = 0 /\ root = 0 /\ threads = 0 /\ work = 0 /\ fec = 0 /\ file = 0
          /\ input = 0 /\ corrected = 0 /\ traces = 0 /\ opt = 0 /\ names = 0 /\ inputs = 0
          /\ next_index = 0 /\ start = 0 /\ num_files = 0 /\ num_threads = 0 /\ iteration = 0
          /\ work_next = 0 /\ work_num = 0 /\ th = 0 /\ db = 0 /\ aggr = 0 /\ missed = 0 /\ cp = 0
          /\ sit = 0 /\ ver = 0 /\ live = 0 /\ pending = 0 /\ committed = 0 /\ upcoming = 0
          /\ info = 0 /\ block = 0 /\ count = 0 /\ out = 0 /\ failed = 0 /\ misc = 0 /\ boot = 0
          /\ image = 0 /\ running = 0 /\ op = 0 /\ copied = 0 /\ exit = 0 /\ updates = 0
          /\ calls = 0 /\ quit = 0 /\ suspend = 0 /\ dump_requested = 0 /\ err = 0 /\ tracing = 0
          /\ tracing_on = 0 /\ writing = 0 /\ tries = 0 /\ todo = 0 /\ dumping = 0 /\ signals = 0
          /\ owed = 0

MCNext ==
    /\ UNCHANGED program
    /\ \/ program = "make_ext4fs" /\ Ext4!Next /\ UNCHANGED notExt4
       \/ program = "fec" /\ Reader!Next /\ UNCHANGED notReader
       \/ program = "verity_image" /\ Builder!Next /\ UNCHANGED notBuilder
       \/ program = "ioshark" /\ Shark!Next /\ UNCHANGED notShark
       \/ program = "f2fs_sparse" /\ F2fs!Next /\ UNCHANGED notF2fs
       \/ program = "boot_control" /\ Boot!Next /\ UNCHANGED notBoot
       \/ program = "anr_daemon" /\ Anr!Next /\ UNCHANGED notAnr
       \/ program = "perfprofd" /\ Profd!Next /\ UNCHANGED notProfd

MCSpec == MCInit /\ [][MCNext]_mcvars

\* MakeExt4fs: every block has one owner, its bitmap bit and its count,
\* whoever reads the image finds the tree it was made of, files keep the
\* blocks they had in the base image, and an image that failed half way and
\* can still be written does not pass for a whole one.
ImageReadsBack ==
    
    program = "make_ext4fs" =>
        /\ Ext4!BlocksAccounted
        /\ Ext4!ImageReadsBack
        /\ Ext4!KeepsBaseBlocks
        /\ Ext4!NeverHalfWrittenIfWritable

\* MakeExt4fs: do_split_allocation returns the first part of an allocation and
\* leaves the second.
SplitsInTwo == program = "make_ext4fs" => Ext4!SplitsInTwo

\* Fec: what a read of a verified image returns is what was signed, whichever
\* blocks, parity or headers are damaged, and an image with a good header is
\* opened.
ReadsVerified == program = "fec" => Reader!ReadsVerified /\ Reader!OpensDamaged

\* VerityImage: the tree is where libfec looks for it, and decoding a damaged
\* image gives back the original while each code word has few enough errors.
DecodesToOriginal ==
    program = "verity_image" => Builder!DecodesToOriginal /\ Builder!LibfecFindsTheTree

\* IoShark: a replay performs on each file the operations of the trace, on
\* bytes that exist, in every thread and iteration.
ReplaysTheTraces == program = "ioshark" => Shark!ReplaysTheTraces /\ Shark!RunsEverything

\* F2fsSparse: the blocks copied are those in use at the newest whole
\* checkpoint, although checkpoints are torn and their versions wrap.
CopiesWhatIsUsed == program = "f2fs_sparse" => F2fs!CopiesWhatIsUsed

\* BootControl: a switch of slots that reports success leaves the device
\* booting a whole copy of that slot.
SwitchedWhenOk == program = "boot_control" => Boot!SwitchedWhenOk

\* ANRdaemon: tracing is on in debugfs just when the daemon thinks it is, and
\* no request of a signal is lost.
TracingFollowsFlag == program = "anr_daemon" => Anr!TracingFollowsFlag /\ Anr!RequestsStand

\* PerfProfd: a profile that is listed as produced is kept until it is
\* processed; a collection leaves nothing behind and obeys a stop.
ListedProfilesKept ==
    program = "perfprofd" => Profd!ListedProfilesKept /\ Profd!CollectionCleansUp /\ Profd!StopIsObeyed
=============================================================================
