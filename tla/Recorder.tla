------------------------------ MODULE Recorder ------------------------------
(***************************************************************************)
(* simpleperf record (cmd_record.cpp, event_selection_set.cpp, event_fd.cpp,*)
(* IOEventLoop.cpp, workload.cpp): it forks the workload, maps a ring      *)
(* buffer for each cpu, starts the workload, moves records from the rings  *)
(* to the file from the callbacks of an event loop, and stops when the     *)
(* workload ends, its targets are gone, a signal or the time comes.        *)
(*                                                                         *)
(* The kernel side of a ring, the workload and the signals are external.   *)
(* A ring is an array of cells, indexed by counters that only grow; a      *)
(* record takes one or two of them.                                        *)
(***************************************************************************)
EXTENDS Integers, Sequences, FiniteSets, SequencesExt, FiniteSetsExt, TLC

CONSTANTS
    Fds,          \* cpus of the event files, in the order they were opened
    RingSize,     \* cells of a ring, a power of two
    PageSizes,    \* mmap pages to try, the largest first
    Options,      \* [workload, jit, limit, duration, records]; records the kernel makes
    MaxSymfiles   \* symfiles the JIT of the target makes

VARIABLES
    opt,
    pc,
    pages,     \* pages of the buffer each event file has mapped, 0 if none
    output,    \* the event file whose buffer each event file writes to
    rings,     \* [cpu -> [data, head, tail, lost]]
    head,      \* the data_head read last
    buffer,    \* record_buffer_: the cells copied, one sequence for each ring
    turn,      \* the event file whose ring is being read
    resume,    \* where ReadMmapEventData returns to
    file,      \* the records saved
    round,     \* calls of ReadMmapEventData so far
    last,      \* last_record_timestamp_
    jit,       \* [made, read, dumped]: symfiles of the target, those read, those dumped
    child,     \* state of the workload's process
    signals,   \* signals caught and not yet handled
    handled,   \* signals the loop has events for
    targets,   \* some monitored target is alive
    in_loop, has_error,
    clock,     \* the kernel's time
    stopped,   \* ghost: the time when the loop was left
    made       \* ghost: [cpu -> the records put out for it]

vars == <<opt, pc, pages, output, rings, head, buffer, turn, resume, file, round, last, jit,
          child, signals, handled, targets, in_loop, has_error, clock, stopped, made>>
mapping == <<pages, output>>
reading == <<head, buffer, turn, resume>>
world == <<rings, child, targets, clock, made>>
result == <<file, round, last>>
loop == <<signals, handled, in_loop, has_error>>

Cpus == {Fds[i] : i \in DOMAIN Fds}

Blank == [rec |-> [kind |-> "none", cpu |-> 0, len |-> 1, time |-> 0, code |-> 0, round |-> 0], part |-> 1]

Init ==
    /\ opt \in Options
    /\ pc = "create"
    /\ pages = [f \in DOMAIN Fds |-> 0] /\ output = [f \in DOMAIN Fds |-> 0]
    /\ rings = [c \in Cpus |-> [data |-> [i \in 0 .. RingSize - 1 |-> Blank], head |-> 0, tail |-> 0, lost |-> 0]]
    /\ head = 0 /\ buffer = <<>> /\ turn = 0 /\ resume = ""
    /\ file = <<>> /\ round = 0 /\ last = 0
    /\ jit = [made |-> 0, read |-> 0, dumped |-> 0]
    /\ child = "none" /\ signals = {} /\ handled = {} /\ targets = TRUE
    /\ in_loop = FALSE /\ has_error = FALSE
    /\ clock = 0 /\ stopped = 0 /\ made = [c \in Cpus |-> <<>>]
----------------------------------------------------------------------------
(* The kernel, the workload and whoever sends signals. Their steps are      *)
(* taken where the recorder's next step sees them; taken earlier they would *)
(* be seen no differently.                                                  *)

Seen == pc \in {"loop", "read", "copy", "discard"}

\* Puts a record in a ring that has room for it, and before it the count of
\* those there was no room for.
Put(ring, recs) ==
    LET cells == FlattenSeq([i \in DOMAIN recs |->
                     [k \in 1 .. recs[i].len |-> [rec |-> recs[i], part |-> k]]])
        place(i) == (ring.head + i - 1) % RingSize
    IN  [ring EXCEPT !.head = @ + Len(cells), !.lost = 0,
                     !.data = [p \in DOMAIN @ |->
                        IF \E i \in DOMAIN cells : place(i) = p
                        THEN cells[CHOOSE i \in DOMAIN cells : place(i) = p] ELSE @[p]]]

Rec(kind, c, len) == [kind |-> kind, cpu |-> c, len |-> len, time |-> clock + 1, code |-> jit.made, round |-> 0]

Sample(f, len) ==
    LET c    == Fds[f]
        ring == rings[c]
        recs == (IF ring.lost > 0 THEN <<Rec("lost", c, 1)>> ELSE <<>>) \o <<Rec("sample", c, len)>>
        need == len + IF ring.lost > 0 THEN 1 ELSE 0
        fits == need <= RingSize - 1 - (ring.head - ring.tail)
    IN  /\ clock < opt.records
        /\ child = "running" \/ (opt.workload = "none" /\ targets)
        /\ Seen
        /\ clock' = clock + 1
        /\ IF output[f] # 0 /\ pages[output[f]] # 0
           THEN /\ rings' = [rings EXCEPT ![c] = IF fits THEN Put(ring, recs) ELSE [ring EXCEPT !.lost = @ + 1]]
                /\ made' = [made EXCEPT ![c] = IF fits THEN @ \o recs ELSE @]
           ELSE UNCHANGED rings /\ made' = [made EXCEPT ![c] = @ \o recs]
        /\ UNCHANGED <<opt, pc, mapping, reading, result, stopped, jit, child, loop, targets>>

\* The target's JIT registers a symfile.
Register ==
    /\ opt.jit /\ jit.made < MaxSymfiles
    /\ pc \in {"update", "loop", "read", "copy", "discard"}
    /\ jit' = [jit EXCEPT !.made = @ + 1]
    /\ UNCHANGED <<opt, pc, mapping, reading, result, stopped, world, loop>>

\* The process of the workload ends; SIGCHLD is caught once there is an event for it.
ChildExits ==
    /\ child = "running" /\ Seen
    /\ child' = "zombie"
    /\ signals' = signals \cup ({"CHLD"} \cap handled)
    /\ UNCHANGED <<opt, pc, mapping, reading, result, stopped, jit, rings, handled, targets, in_loop,
                   has_error, clock, made>>

TargetsExit ==
    /\ opt.workload = "none" /\ targets /\ Seen
    /\ targets' = FALSE
    /\ UNCHANGED <<opt, pc, mapping, reading, result, stopped, jit, rings, child, loop, clock, made>>

\* SIGINT or SIGTERM from the user, who waits until there is an event for it.
Interrupt ==
    /\ "INT" \in handled /\ "INT" \notin signals /\ pc = "loop"
    /\ signals' = signals \cup {"INT"}
    /\ UNCHANGED <<opt, pc, mapping, reading, result, stopped, jit, world, handled, in_loop, has_error>>
----------------------------------------------------------------------------
(* RecordCommand::Run, PrepareRecording: any step may fail. *)

outside == <<opt, result, jit, rings, targets, clock, stopped, made>>

\* Workload::CreateWorkload forks a process that waits for the start signal.
CreateWorkload ==
    /\ pc = "create"
    /\ \/ pc' = "failed" /\ child' = child
       \/ pc' = "open" /\ child' = IF opt.workload = "none" THEN "none" ELSE "waiting"
    /\ UNCHANGED <<outside, mapping, reading, loop>>

\* The steps before the buffers are mapped, OpenEventFiles the last of them.
OpenEventFiles ==
    /\ pc = "open"
    /\ \/ pc' = "failed" /\ UNCHANGED turn
       \/ pc' = "mmap" /\ turn' = 1
    /\ UNCHANGED <<outside, mapping, head, buffer, resume, child, loop>>

\* The event file that maps the buffer of f's cpu.
Owner(f) == Min({g \in DOMAIN Fds : Fds[g] = Fds[f]})

\* The output of f after an attempt that fails at the n-th event file.
ShareMappedBuffer(f, n) == IF f < n THEN Owner(f) ELSE output[f]

\* One size is tried: the buffers of each cpu's first event file are mapped, the
\* other files of the cpu write to them; all are unmapped if one call fails.
MmapEventFiles ==
    /\ pc = "mmap"
    /\ \E n \in 1 .. Len(Fds) + 1 :
        /\ output' = [f \in DOMAIN Fds |-> ShareMappedBuffer(f, n)]
        /\ IF n > Len(Fds)
           THEN /\ pages' = [f \in DOMAIN Fds |-> IF Owner(f) = f THEN PageSizes[turn] ELSE 0]
                /\ pc' = "file" /\ UNCHANGED turn
           ELSE /\ UNCHANGED pages
                /\ IF turn = Len(PageSizes) THEN pc' = "failed" /\ UNCHANGED turn
                                            ELSE turn' = turn + 1 /\ UNCHANGED pc
    /\ UNCHANGED <<outside, head, buffer, resume, child, loop>>

CreateAndInitRecordFile ==
    /\ pc = "file"
    /\ pc' \in {"events", "failed"}
    /\ UNCHANGED <<outside, mapping, reading, child, loop>>

\* Mutant: no event for SIGCHLD.
InterruptOnly == {"INT"}

LoopSignals == {"CHLD", "INT"}

\* PrepareToReadMmapEventData and the events of signals and timers.
AddEvents ==
    /\ pc = "events"
    /\ \/ pc' = "failed" /\ UNCHANGED handled
       \/ pc' = (IF opt.jit THEN "update" ELSE "start") /\ handled' = LoopSignals
    /\ resume' = "start"
    /\ UNCHANGED <<outside, mapping, head, buffer, turn, child, signals, in_loop, has_error>>

\* DoRecording: Workload::Start fails when the child cannot execute the command.
Start ==
    /\ pc = "start"
    /\ CASE opt.workload = "none"  -> pc' = "loop" /\ UNCHANGED <<child, signals>>
         [] opt.workload = "runs"  -> pc' = "loop" /\ child' = "running" /\ UNCHANGED signals
         [] opt.workload = "fails" -> pc' = "failed" /\ child' = "zombie" /\ signals' = signals \cup {"CHLD"}
    /\ in_loop' = (pc' = "loop")
    /\ UNCHANGED <<outside, mapping, reading, handled, has_error>>
----------------------------------------------------------------------------
(* The callbacks of the loop. *)

\* An event is handled only until the loop is left.
Callback == pc = "loop" /\ in_loop

\* EventFd's read event.
OnReadable ==
    /\ Callback
    /\ \E c \in Cpus : rings[c].head # rings[c].tail
    /\ pc' = "read" /\ resume' = "loop"
    /\ turn' = 1 /\ buffer' = <<>> /\ round' = round + 1
    /\ UNCHANGED <<opt, mapping, head, file, last, jit, world, stopped, loop>>

ExitLoop ==
    /\ in_loop' = FALSE
    /\ UNCHANGED <<opt, pc, mapping, reading, result, jit, world, stopped, handled, has_error>>

OnSignal == Callback /\ \E s \in signals : signals' = signals \ {s} /\ ExitLoop

\* The timer of --duration.
OnDuration == Callback /\ opt.duration /\ UNCHANGED signals /\ ExitLoop

\* CheckMonitoredTargets, once a second when the targets are not the workload's.
CheckMonitoredTargets ==
    Callback /\ opt.workload = "none" /\ ~targets /\ UNCHANGED signals /\ ExitLoop

OnJITTimer ==
    /\ Callback /\ opt.jit
    /\ pc' = "update" /\ resume' = "loop"
    /\ UNCHANGED <<opt, mapping, head, buffer, turn, result, jit, world, stopped, loop>>

\* RunLoop returns; FinishReadMmapEventData reads the buffers once more.
LeaveLoop ==
    /\ pc = "loop" /\ ~in_loop
    /\ IF has_error THEN pc' = "failed" /\ UNCHANGED <<resume, turn, buffer, round, stopped>>
       ELSE /\ pc' = "read" /\ resume' = "post" /\ stopped' = clock
            /\ turn' = 1 /\ buffer' = <<>> /\ round' = round + 1
    /\ UNCHANGED <<opt, mapping, head, file, last, jit, world, loop>>
----------------------------------------------------------------------------
(* UpdateJITDebugInfo: the update, the records before it, its symfiles. *)

\* Mutant: the symfiles are dumped before the records are read.
DumpFirst == /\ pc' = "dump" /\ UNCHANGED <<turn, buffer, round>>

\* Process records before dumping symfiles.
RecordsFirst == pc' = "read" /\ turn' = 1 /\ buffer' = <<>> /\ round' = round + 1

ReadUpdate ==
    /\ pc = "update"
    /\ jit' = [jit EXCEPT !.read = jit.made]
    /\ IF jit.made = jit.read THEN pc' = resume /\ UNCHANGED <<turn, buffer, round>>
                              ELSE RecordsFirst
    /\ UNCHANGED <<opt, mapping, head, resume, file, last, world, stopped, loop>>
----------------------------------------------------------------------------
(* EventSelectionSet::ReadMmapEventData *)

\* GetAvailableMmapData: the bytes between the masked positions; equal positions mean none.
ReadBytes(ring) ==
    LET write_head == head % RingSize
        read_head  == ring.tail % RingSize
    IN  IF read_head < write_head THEN write_head - read_head ELSE RingSize - read_head + write_head

LoadHead ==
    /\ pc = "read" /\ turn <= Len(Fds)
    /\ LET ring == rings[Fds[turn]]
       IN  IF pages[turn] = 0 \/ ring.head % RingSize = ring.tail % RingSize
           THEN turn' = turn + 1 /\ UNCHANGED <<pc, head>>
           ELSE head' = ring.head /\ pc' = "copy" /\ UNCHANGED turn
    /\ UNCHANGED <<opt, mapping, buffer, resume, result, jit, world, stopped, loop>>

\* Mutant: the copy does not wrap at the end of the buffer.
NotWrapped(ring, n) == [i \in 1 .. n |-> ring.data[Min({(ring.tail % RingSize) + i, RingSize}) - 1]]

Copied(ring, n) == [i \in 1 .. n |-> ring.data[(ring.tail + i - 1) % RingSize]]

Copy ==
    /\ pc = "copy"
    /\ buffer' = Append(buffer, Copied(rings[Fds[turn]], ReadBytes(rings[Fds[turn]])))
    /\ pc' = "discard"
    /\ UNCHANGED <<opt, mapping, head, turn, resume, result, jit, world, stopped, loop>>

DiscardMmapData ==
    /\ pc = "discard"
    /\ rings' = [rings EXCEPT ![Fds[turn]].tail = @ + Len(Last(buffer))]
    /\ turn' = turn + 1
    /\ pc' = "read"
    /\ UNCHANGED <<opt, mapping, head, buffer, resume, result, jit, child, targets, clock, made, stopped, loop>>

RECURSIVE ReadRecordsFromBuffer(_)
ReadRecordsFromBuffer(cells) ==
    IF cells = <<>> THEN <<>>
    ELSE LET r     == cells[1].rec
             whole == \A k \in 1 .. r.len : k <= Len(cells) /\ cells[k] = [rec |-> r, part |-> k]
         IN  <<IF whole THEN [r EXCEPT !.round = round] ELSE [r EXCEPT !.kind = "torn"]>>
             \o ReadRecordsFromBuffer(SubSeq(cells, r.len + 1, Len(cells)))

\* The top of the priority queue.
TopHead(heads) == CHOOSE h \in DOMAIN heads : \A g \in DOMAIN heads : heads[h][1].time <= heads[g][1].time

\* The records of all buffers, the first of a buffer with the least time next.
RECURSIVE MergeHeads(_)
MergeHeads(heads) ==
    IF heads = <<>> THEN <<>>
    ELSE LET h == TopHead(heads)
             next == Tail(heads[h])
         IN  <<Head(heads[h])>>
             \o MergeHeads(IF next = <<>> THEN RemoveAt(heads, h) ELSE [heads EXCEPT ![h] = next])

SizeOf(recs) == FoldLeft(LAMBDA n, r : n + r.len, 0, recs)

\* ProcessRecord drops the record, and leaves the loop, once the file is too large.
ProcessRecord(st, r) ==
    IF opt.limit > 0 /\ opt.limit < SizeOf(st.file) THEN [st EXCEPT !.leave = TRUE]
    ELSE [st EXCEPT !.file = Append(@, r), !.last = r.time]

\* The callback is called for recs, up to the n-th, at which it fails.
Process(recs, n) ==
    LET st == FoldLeft(ProcessRecord, [file |-> file, last |-> last, leave |-> FALSE],
                       SubSeq(recs, 1, Min({n - 1, Len(recs)})))
        failed == n <= Len(recs)
    IN  /\ file' = st.file /\ last' = st.last
        /\ in_loop' = (in_loop /\ ~st.leave /\ ~failed)
        /\ has_error' = (has_error \/ failed)
        /\ pc' = IF ~failed THEN (IF pc = "read" /\ jit.dumped < jit.read THEN "dump" ELSE resume)
                 ELSE IF resume = "loop" THEN "loop" ELSE "failed"

ReadMmapEventData ==
    /\ pc = "read" /\ turn > Len(Fds)
    /\ LET recs == MergeHeads([i \in DOMAIN buffer |-> ReadRecordsFromBuffer(buffer[i])])
       IN  \E n \in 1 .. Len(recs) + 1 : Process(recs, n)
    /\ buffer' = <<>>
    /\ UNCHANGED <<opt, mapping, head, turn, resume, round, jit, world, stopped, signals, handled>>

\* A map record for each new symfile, with the time of the last record saved.
DumpSymfiles ==
    /\ pc = "dump"
    /\ LET recs == [i \in 1 .. jit.read - jit.dumped |->
                       [kind |-> "map", cpu |-> -1, len |-> 1, time |-> last, code |-> jit.dumped + i, round |-> round]]
       IN  \E n \in 1 .. Len(recs) + 1 : Process(recs, n)
    /\ jit' = [jit EXCEPT !.dumped = jit.read]
    /\ UNCHANGED <<opt, mapping, reading, round, world, stopped, signals, handled>>
----------------------------------------------------------------------------
(* The end of RecordCommand::Run *)

PostProcessRecording ==
    /\ pc = "post"
    /\ pc' \in {"saved", "failed"}
    /\ UNCHANGED <<outside, mapping, reading, child, loop>>

\* Workload::~Workload waits for the child, killing it if it has not ended.
DestroyWorkload(state) == IF state = "none" THEN "none" ELSE "reaped"

Return ==
    /\ pc \in {"saved", "failed"}
    /\ pc' = IF pc = "saved" THEN "over" ELSE "aborted"
    /\ child' = DestroyWorkload(child)
    /\ UNCHANGED <<outside, mapping, reading, loop>>

World == Register \/ ChildExits \/ TargetsExit \/ Interrupt
         \/ \E f \in DOMAIN Fds, len \in {1, 2} : Sample(f, len)

Next == \/ CreateWorkload \/ OpenEventFiles \/ MmapEventFiles \/ CreateAndInitRecordFile
        \/ AddEvents \/ Start \/ OnReadable \/ OnSignal \/ OnDuration \/ CheckMonitoredTargets
        \/ OnJITTimer \/ LeaveLoop \/ ReadUpdate \/ LoadHead \/ Copy \/ DiscardMmapData
        \/ ReadMmapEventData \/ DumpSymfiles \/ PostProcessRecording \/ Return \/ World

Spec == Init /\ [][Next]_vars
----------------------------------------------------------------------------
\* Every record the kernel put in a ring reaches the file whole, once, in the
\* order of its cpu, or is still in the ring; records read together are saved
\* in the order of their times. Once the recording is over every record made
\* before the loop was left is in the file. Only the size limit drops records
\* (GetAvailableMmapData, ReadMmapEventData, MmapEventFiles).
Saved(c) == SelectSeq([i \in DOMAIN file |-> [file[i] EXCEPT !.round = 0]], LAMBDA r : r.cpu = c)

RecordsSavedInOrder ==
    /\ \A c \in Cpus :
        /\ IsPrefix(Saved(c), made[c])
        /\ pc \in {"saved", "over"} /\ (opt.limit = 0 \/ SizeOf(file) <= opt.limit) =>
             \A i \in DOMAIN made[c] : made[c][i].time <= stopped => i <= Len(Saved(c))
    /\ \A i, j \in DOMAIN file : i < j /\ file[i].round = file[j].round => file[i].time <= file[j].time

\* A symfile comes in the file after every sample taken when it did not exist
\* (UpdateJITDebugInfo).
SymfilesAfterOldSamples ==
    \A i, j \in DOMAIN file :
        file[i].kind = "map" /\ file[j].kind = "sample" /\ file[j].code < file[i].code => j < i

\* A child is never left behind or waited for in vain: when the command returns,
\* whether it failed or not, its child has ended and been waited for; while the
\* loop runs after the child's end, the signal that ends the loop is pending.
\* (Workload::~Workload; the signal events are added before Workload::Start).
ChildNeverLeft ==
    /\ pc \in {"over", "aborted"} => child \in {"none", "reaped"}
    /\ in_loop /\ child = "zombie" => "CHLD" \in signals
=============================================================================
