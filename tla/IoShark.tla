------------------------------- MODULE IoShark -------------------------------
(***************************************************************************)
(* ioshark: compile_ioshark turns each strace into a table of the files it *)
(* touches, with the sizes they must have, and a list of operations;       *)
(* ioshark_bench creates those files, replays the operations of all inputs *)
(* in threads, a number of times, and removes the files.  When they do not *)
(* all fit on the disk it makes several sweeps.  Lengths are in pages.     *)
(***************************************************************************)
EXTENDS Integers, Sequences, FiniteSets, SequencesExt, FiniteSetsExt

CONSTANTS
    Workloads,     \* sequences of traces, which are sequences of lines
    Options,       \* the options -q, -n and -t: [quick, iterations, threads]
    RoFiles,       \* the sizes of the files on read-only partitions
    Avail,         \* nine tenths of the free space of /data/local/tmp
    MaxIo, Ents,   \* IOSHARK_MAX_MMAP_IOLEN, MMAP_ENTS
    IntMax         \* the greatest offset lseek's result, kept in an int, holds

VARIABLES
    pc, traces, opt,
    names, inputs,                  \* the file ioshark_filenames, the compiled inputs
    next_index, start, num_files,   \* get_start_end's static index and its last answer
    num_threads, iteration,
    work_next, work_num,
    th,                             \* the threads
    db, disk,                       \* the files of each input; the sizes of the created ones
    aggr,                           \* aggr_op_counts and aggr_io_rw_bytes
    missed                          \* a replayed read found less than it did when traced

bench == <<next_index, start, num_files, num_threads, iteration, work_next, work_num, th, db, disk, aggr, missed>>
vars == <<pc, traces, opt, names, inputs, bench>>
----------------------------------------------------------------------------
(* The compiler.  A line is [op, file, off, len, how]. *)

\* Mutant: read and write extend the file as pread and pwrite at offset 0 would.
NotAdded(size, l) ==
    IF l.op = "seek" /\ l.how # "SET" THEN size ELSE Max({size, l.off + l.len})

\* files_db_update_size and files_db_add_to_size.
SizeAfter(size, l) ==
    CASE l.op \in {"read", "write"} -> size + l.len
      [] l.op = "seek" /\ l.how = "SET" -> Max({size, l.off})
      [] l.op \in {"pread", "pwrite", "mmap", "ftrace"} -> Max({size, l.off + l.len})
      [] OTHER -> size

IndexOf(s, x) == CHOOSE i \in DOMAIN s : s[i] = x

\* filename_cache_lookup adds a name it does not find.
WithName(ns, name) == IF Contains(ns, name) THEN ns ELSE Append(ns, name)

\* files_db_add: the file of a line, new ones with the next number.
WithFile(c, name) ==
    IF \E f \in DOMAIN c.files : c.files[f].name = name THEN c
    ELSE [c EXCEPT !.names = WithName(@, name),
                   !.files = Append(@, [name |-> name, size |-> 0, ix |-> IndexOf(WithName(c.names, name), name)])]

CompileLine(c, l) ==
    LET add(w) == LET f == CHOOSE g \in DOMAIN w.files : w.files[g].name = l.file
                  IN  [w EXCEPT !.files[f].size = SizeAfter(@, l),
                                !.ops = Append(@, [op |-> IF l.op = "ftrace" THEN "pread" ELSE l.op, fileno |-> f,
                                                   off |-> l.off, len |-> l.len, how |-> l.how])]
    IN  add(WithFile(c, l.file))

\* One run of the compiler: it loads the names, reads its trace, writes the
\* input and stores the names.
Compile ==
    /\ pc = "compile" /\ Len(inputs) < Len(traces)
    /\ \E c \in {FoldLeft(CompileLine, [names |-> names, files |-> <<>>, ops |-> <<>>], traces[Len(inputs) + 1])} :
           /\ names' = c.names
           /\ inputs' = Append(inputs, [files |-> c.files, ops |-> c.ops])
    /\ UNCHANGED <<pc, traces, opt, bench>>
----------------------------------------------------------------------------
(* The benchmark. *)

is_readonly_mount(name, size) == name \in DOMAIN RoFiles /\ RoFiles[name] >= size

ReadsExisting(f) == opt.quick /\ is_readonly_mount(names[f.ix], f.size)

NeedOf(i) ==
    LET need(f) == IF ReadsExisting(inputs[i].files[f]) THEN 0 ELSE inputs[i].files[f].size
    IN  MapThenSumSet(need, DOMAIN inputs[i].files)

NoFd == [pos |-> -1, mode |-> "none"]
NoCounts == [ops |-> 0, read |-> 0, written |-> 0]
Idle == [at |-> "get", input |-> 0, i |-> 0, counts |-> NoCounts, mio |-> <<>>]
Workers(n) == [t \in 1 .. n |-> Idle]

Bench ==
    /\ pc = "compile" /\ Len(inputs) = Len(traces)
    /\ pc' = "sweep"
    /\ UNCHANGED <<traces, opt, names, inputs, bench>>

\* Mutant: the end of the work is its length.
EndIsCount(first, n) == n

WorkEnd(first, n) == first + n

init_work(first, n) == work_next' = first /\ work_num' = WorkEnd(first, n)

\* get_start_end: the inputs from next_index on that fit together.
get_start_end ==
    CHOOSE n \in 0 .. Len(inputs) - next_index :
        /\ MapThenSumSet(NeedOf, next_index + 1 .. next_index + n) <= Avail
        /\ \/ n = Len(inputs) - next_index
           \/ MapThenSumSet(NeedOf, next_index + 1 .. next_index + n + 1) > Avail

\* The head of the loop of main: the next sweep, or the end.
Sweep ==
    /\ pc = "sweep"
    /\ \E n \in {get_start_end} :
          IF n = 0 THEN /\ pc' = "done"
                        /\ UNCHANGED bench
          ELSE /\ pc' = "create"
               /\ start' = next_index /\ num_files' = n /\ next_index' = next_index + n
               /\ num_threads' = IF num_threads = 0 \/ num_threads > n THEN n ELSE num_threads
               /\ init_work(next_index, n)
               /\ th' = Workers(num_threads') /\ iteration' = 0
               /\ UNCHANGED <<db, disk, aggr, missed>>
    /\ UNCHANGED <<traces, opt, names, inputs>>

\* get_work, under its mutex.
GetWork(t) ==
    /\ pc \in {"create", "io"} /\ th[t].at = "get"
    /\ IF work_next < work_num
       THEN /\ work_next' = work_next + 1
            /\ th' = [th EXCEPT ![t] = [Idle EXCEPT !.at = pc, !.input = work_next + 1, !.i = 1]]
       ELSE /\ th' = [th EXCEPT ![t].at = "end"]
            /\ UNCHANGED work_next
    /\ UNCHANGED <<pc, traces, opt, names, inputs, next_index, start, num_files, num_threads, iteration, work_num,
                   db, disk, aggr, missed>>

\* do_create: the files of an input that cannot be read where they are.
CreateFiles(t) ==
    /\ th[t].at = "create"
    /\ LET i == th[t].input
           fs == inputs[i].files
       IN  /\ disk' = [x \in DOMAIN disk \cup {<<i, f>> : f \in {g \in DOMAIN fs : ~ReadsExisting(fs[g])}} |->
                           IF x[1] = i THEN fs[x[2]].size ELSE disk[x]]
           /\ db' = [db EXCEPT ![i] = [f \in DOMAIN fs |-> [fd |-> NoFd, readonly |-> ReadsExisting(fs[f])]]]
    /\ th' = [th EXCEPT ![t] = Idle]
    /\ UNCHANGED <<pc, traces, opt, names, inputs, next_index, start, num_files, num_threads, iteration,
                   work_next, work_num, aggr, missed>>

SizeOf(i, f) == IF db[i][f].readonly THEN RoFiles[names[inputs[i].files[f].ix]] ELSE disk[<<i, f>>]

\* The descriptor an operation uses: files that were not seen opened are opened now.
OpenFd(d, o) ==
    IF o.op # "open" /\ d.fd = NoFd THEN [pos |-> 0, mode |-> IF d.readonly THEN "r" ELSE "rw"] ELSE d.fd

Exit == [result |-> "exit"]
Done(fd, size, short) == [result |-> "ok", fd |-> fd, size |-> size, short |-> short]

Seek(fd, size, o) ==
    LET p == o.off + CASE o.how = "SET" -> 0 [] o.how = "CUR" -> fd.pos [] OTHER -> size
    IN  IF p \notin 0 .. IntMax THEN Exit ELSE Done([fd EXCEPT !.pos = p], size, FALSE)

\* open; the file exists, and is no directory.
Open(d, size, o) ==
    IF o.how.flags \cap {"EXCL", "DIRECTORY"} # {} THEN Done(d.fd, size, FALSE)
    ELSE IF d.readonly /\ (o.how.mode # "r" \/ "TRUNC" \in o.how.flags) THEN Exit
    ELSE Done([pos |-> 0, mode |-> o.how.mode], IF "TRUNC" \in o.how.flags THEN 0 ELSE size, FALSE)

\* do_one_io on the descriptor fd and the file d of a size.
do_one_io(d, fd, size, o) ==
    CASE o.op = "seek" -> Seek(fd, size, o)
      [] o.op = "pread" -> IF fd.mode = "w" THEN Exit ELSE Done(fd, size, o.off + o.len > size)
      [] o.op = "pwrite" -> IF fd.mode = "r" THEN Exit ELSE Done(fd, Max({size, o.off + o.len}), FALSE)
      [] o.op = "read" -> IF fd.mode = "w" THEN Exit
                          ELSE Done([fd EXCEPT !.pos = Max({@, Min({@ + o.len, size})})], size, fd.pos + o.len > size)
      [] o.op = "write" -> IF fd.mode = "r" THEN Exit
                           ELSE Done([fd EXCEPT !.pos = @ + o.len], Max({size, fd.pos + o.len}), FALSE)
      [] o.op = "mmap" -> IF o.off + o.len > size THEN [result |-> "assert"] ELSE Done(fd, size, FALSE)
      [] o.op = "open" -> Open(d, size, o)
      [] o.op = "close" -> Done(NoFd, size, FALSE)
      [] o.op = "fsync" -> Done(fd, size, FALSE)

\* setup_mmap_io_state: the slices of a long mapping, from its start.
Slices(len) ==
    LET slice == Max({MaxIo, len \div Ents})
    IN  [k \in 1 .. (len + slice - 1) \div slice |->
            [off |-> slice * (k - 1), len |-> Min({slice, len - slice * (k - 1)})]]

MmapSlices(o) == IF o.op # "mmap" \/ o.len = 0 THEN <<>> ELSE Slices(o.len)

Counted(c, o) ==
    [ops |-> c.ops + 1, read |-> c.read + (IF o.op \in {"read", "pread"} THEN o.len ELSE 0),
     written |-> c.written + (IF o.op \in {"write", "pwrite"} THEN o.len ELSE 0)]

Performed(t, i, o, r) ==
    IF r.result # "ok" THEN pc' = r.result /\ UNCHANGED <<th, db, disk, missed>>
    ELSE /\ th' = [th EXCEPT ![t].counts = Counted(@, o), ![t].mio = MmapSlices(o),
                             ![t].i = @ + 1, ![t].at = IF MmapSlices(o) = <<>> THEN "io" ELSE "mmap"]
         /\ db' = [db EXCEPT ![i][o.fileno].fd = r.fd]
         /\ disk' = IF <<i, o.fileno>> \in DOMAIN disk THEN [disk EXCEPT ![<<i, o.fileno>>] = r.size] ELSE disk
         /\ missed' = (missed \/ r.short)
         /\ UNCHANGED pc

\* One turn of the loop of do_io.
DoIo(t) ==
    /\ th[t].at = "io" /\ th[t].i <= Len(inputs[th[t].input].ops)
    /\ LET i == th[t].input
           o == inputs[i].ops[th[t].i]
           d == db[i][o.fileno]
       IN  Performed(t, i, o, do_one_io(d, OpenFd(d, o), SizeOf(i, o.fileno), o))
    /\ UNCHANGED <<traces, opt, names, inputs, next_index, start, num_files, num_threads, iteration,
                   work_next, work_num, aggr>>

\* One turn of the loop of ioshark_handle_mmap: mmap_getnext_off_len takes up
\* to four pages of some slice, and mmap_do_io reads or writes them.  A short
\* mapping is one slice, taken at once.
MmapIo(t, k, n, write) ==
    /\ th[t].at = "mmap" /\ k \in DOMAIN th[t].mio /\ th[t].mio[k].len > 0
    /\ LET o == inputs[th[t].input].ops[th[t].i - 1]
           take == IF o.len <= MaxIo THEN o.len ELSE Min({n, th[t].mio[k].len})
           left == [th[t].mio EXCEPT ![k] = [off |-> @.off + take, len |-> @.len - take]]
       IN  /\ write => o.how = "rw"
           /\ th' = [th EXCEPT ![t].mio = left,
                               ![t].at = IF \A j \in DOMAIN left : left[j].len = 0 THEN "io" ELSE "mmap",
                               ![t].counts = IF write THEN [@ EXCEPT !.written = @ + take]
                                             ELSE [@ EXCEPT !.read = @ + take]]
    /\ UNCHANGED <<pc, traces, opt, names, inputs, next_index, start, num_files, num_threads, iteration,
                   work_next, work_num, db, disk, aggr, missed>>

\* files_db_fsync_discard_files and files_db_close_files.
Closed(nodes) == [f \in DOMAIN nodes |-> [nodes[f] EXCEPT !.fd = NoFd]]

\* The end of do_io: update_op_counts and update_byte_counts lock their mutex.
EndIo(t) ==
    /\ th[t].at = "io" /\ th[t].i > Len(inputs[th[t].input].ops)
    /\ db' = [db EXCEPT ![th[t].input] = Closed(@)]
    /\ aggr' = [k \in DOMAIN aggr |-> aggr[k] + th[t].counts[k]]
    /\ th' = [th EXCEPT ![t] = Idle]
    /\ UNCHANGED <<pc, traces, opt, names, inputs, next_index, start, num_files, num_threads, iteration,
                   work_next, work_num, disk, missed>>

\* wait_for_threads, and the next iteration or the removal of the files.
Wait ==
    /\ pc \in {"create", "io"} /\ \A t \in DOMAIN th : th[t].at = "end"
    /\ init_work(start, num_files)
    /\ LET round == IF pc = "io" THEN iteration + 1 ELSE 0
       IN  /\ iteration' = round
           /\ pc' = IF round < opt.iterations THEN "io" ELSE "unlink"
           /\ th' = IF round < opt.iterations THEN Workers(num_threads) ELSE <<>>
    /\ UNCHANGED <<traces, opt, names, inputs, next_index, start, num_files, num_threads, db, disk, aggr, missed>>

\* files_db_unlink_files and files_db_free_memory, for the next input.
Unlink ==
    /\ pc = "unlink"
    /\ IF work_next < work_num
       THEN /\ work_next' = work_next + 1
            /\ disk' = [x \in {y \in DOMAIN disk : y[1] # work_next + 1} |-> disk[x]]
            /\ db' = [db EXCEPT ![work_next + 1] = <<>>]
            /\ UNCHANGED pc
       ELSE pc' = "sweep" /\ UNCHANGED <<work_next, disk, db>>
    /\ UNCHANGED <<traces, opt, names, inputs, next_index, start, num_files, num_threads, iteration, work_num,
                   th, aggr, missed>>

Finished == pc \in {"done", "exit", "assert"} /\ UNCHANGED vars

Init ==
    /\ pc = "compile" /\ traces \in Workloads /\ opt \in Options
    /\ names = <<>> /\ inputs = <<>>
    /\ next_index = 0 /\ start = 0 /\ num_files = 0
    /\ num_threads = opt.threads /\ iteration = 0
    /\ work_next = 0 /\ work_num = 0 /\ th = <<>>
    /\ db = [i \in DOMAIN traces |-> <<>>] /\ disk = <<>>
    /\ aggr = NoCounts /\ missed = FALSE

Next ==
    \/ Compile \/ Bench \/ Sweep \/ Wait \/ Unlink \/ Finished
    \/ \E t \in DOMAIN th : GetWork(t) \/ CreateFiles(t) \/ DoIo(t) \/ EndIo(t)
    \/ \E t \in DOMAIN th, k \in 1 .. Ents + 1, n \in 1 .. 4, write \in BOOLEAN : MmapIo(t, k, n, write)

Spec == Init /\ [][Next]_vars
----------------------------------------------------------------------------
Lines == UNION {{i} \X DOMAIN traces[i] : i \in DOMAIN traces}

LengthOf(x) == traces[x[1]][x[2]].len

\* A trace that neither truncates a file nor moves in it by a relative seek
\* is replayed to its end, and each of its reads finds as many bytes as were
\* asked for, in every iteration: the sizes the compiler adds up are enough
\* for the positions the benchmark reaches, whatever it opens by itself.
ReplaysTheTraces == pc \notin {"exit", "assert"} /\ ~missed

\* When the benchmark ends, every operation of every input has been performed
\* in every iteration by exactly one thread, all bytes of the mappings have
\* been read or written once, and none of the created files is left.
RunsEverything ==
    pc = "done" => /\ aggr.ops = opt.iterations * Cardinality(Lines)
                   /\ aggr.read + aggr.written = opt.iterations * MapThenSumSet(LengthOf, Lines)
                   /\ disk = <<>>
============================================================================
