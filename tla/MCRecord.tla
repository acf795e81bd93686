------------------------------ MODULE MCRecord ------------------------------
(***************************************************************************)
(* The parts of the record and stat commands: the recorder with its ring   *)
(* buffers, the selection of events with cpu hotplug, the options, the     *)
(* reader of JIT symfiles, and the sampler that runs inside an app. A      *)
(* behaviour is one of one of them.                                        *)
(***************************************************************************)
EXTENDS Integers, Sequences

CONSTANTS
    Programs   \* the components that are run

VARIABLES program, opt, pc, pages, output, rings, head, buffer, turn, resume,
          file, round, last, jit, child, signals, handled, targets, in_loop,
          has_error, clock, stopped, made, groups, online, alive, covers, fd,
          event_fds, hotplugged, todo, opened, known, printed, counted,
          changes, events, cmd, args, o, waiting, desc, entry, live, art, new,
          k, walk, files, updates, since, given, names, mapped, seen, spc,
          threads_, maps_, thread_map_info_q_, filter, profiling, sbuf,
          write_event, no_more_message, to_server, to_client, link, cpc,
          got_reply, asked, sessions

-----------------------------------------------------------------------------
Option(run, reader, limit, duration, count) ==
    [workload |-> run, jit |-> reader, limit |-> limit, duration |-> duration, records |-> count]
OptionSet == {Option("none", TRUE, 0, FALSE, 2), Option("runs", FALSE, 0, TRUE, 3),
              Option("none", FALSE, 1, FALSE, 2), Option("fails", FALSE, 0, FALSE, 0)}

Rec == INSTANCE Recorder WITH
    Fds <- <<0, 1, 0>>, RingSize <- 4, PageSizes <- <<4, 2>>, Options <- OptionSet,
    MaxSymfiles <- 1
-----------------------------------------------------------------------------
User == [type |-> "cycles", modifier |-> "u"]
Kernel == [type |-> "cycles", modifier |-> "k"]

Sel == INSTANCE EventSelection WITH
    GroupLists <- {<<<<User, Kernel>>>>, <<<<User>>, <<Kernel>>>>}, Cpus <- {0, 1}, Tids <- {1, 2},
    Inherit <- TRUE, IntervalOnly <- TRUE, MaxEvents <- 2, MaxChanges <- 2, MaxPrints <- 1
-----------------------------------------------------------------------------
Event(type, modifier) == [type |-> type, modifier |-> modifier]
Cycles == Event("cpu-cycles", <<>>)
Clock == Event("task-clock", <<"u">>)
Switch == Event("sched:sched_switch", <<>>)
TypeSet == [t \in {"cpu-cycles", "task-clock", "sched:sched_switch"} |->
               IF t = "task-clock" THEN "clock" ELSE IF t = "cpu-cycles" THEN "hw" ELSE "tracepoint"]
Arg(option, argument) == [opt |-> option, arg |-> argument]
AlphabetSeq ==
    <<Arg("-c", 1), Arg("-f", 2), Arg("-e", <<Cycles>>), Arg("--group", <<Clock, Switch>>),
      Arg("-e", <<Cycles, Clock>>), Arg("-e", <<Switch>>), Arg("-j", {"u"}), Arg("-b", 0), Arg("-g", 0),
      Arg("--call-graph", <<"fp">>), Arg("--call-graph", <<"dwarf", 4096>>),
      Arg("--call-graph", <<"dwarf", 65528>>), Arg("--no-unwind", 0), Arg("--post-unwind", TRUE),
      Arg("--trace-offcpu", 0), Arg("-a", 0), Arg("--app", 0), Arg("-p", 0), Arg("--no-inherit", 0),
      Arg("--clockid", "monotonic")>>

Opts == INSTANCE RecordOptions WITH
    Alphabet <- AlphabetSeq, EventTypes <- TypeSet, MaxOptions <- 3,
    Supported <- {"branch", "dwarf", "clockid", "regs"}
-----------------------------------------------------------------------------
Jit == INSTANCE JITDebugReader WITH
    Kinds <- <<"jit", "dex">>, Addrs <- {1, 2, 3}, MaxLength <- 2, MaxActions <- 3, MaxUpdates <- 2,
    Torn <- FALSE
-----------------------------------------------------------------------------
Inplace == INSTANCE InplaceSampler WITH
    Tids <- {1, 2}, Names <- {"a", "b"}, Ranges <- {<<1, 1>>}, Filters <- {{}, {1}}, Freqs <- {0, 5},
    Capacity <- 5, Wire <- 1, MaxChanges <- 2, MaxSessions <- 2
-----------------------------------------------------------------------------
mcvars == <<program, opt, pc, pages, output, rings, head, buffer, turn,
            resume, file, round, last, jit, child, signals, handled, targets,
            in_loop, has_error, clock, stopped, made, groups, online, alive,
            covers, fd, event_fds, hotplugged, todo, opened, known, printed,
            counted, changes, events, cmd, args, o, waiting, desc, entry,
            live, art, new, k, walk, files, updates, since, given, names,
            mapped, seen, spc, threads_, maps_, thread_map_info_q_, filter,
            profiling, sbuf, write_event, no_more_message, to_server,
            to_client, link, cpc, got_reply, asked, sessions>>
notRec == <<groups, online, alive, covers, fd, event_fds, hotplugged, todo,
            opened, known, printed, counted, changes, events, cmd, args, o,
            waiting, desc, entry, live, art, new, k, walk, files, updates,
            since, given, names, mapped, seen, spc, threads_, maps_,
            thread_map_info_q_, filter, profiling, sbuf, write_event,
            no_more_message, to_server, to_client, link, cpc, got_reply,
            asked, sessions>>
notSel == <<opt, pages, output, rings, head, buffer, turn, resume, file,
            round, jit, child, signals, handled, targets, in_loop, has_error,
            clock, stopped, made, cmd, args, o, waiting, desc, entry, live,
            art, new, k, walk, files, updates, since, given, names, mapped,
            seen, spc, threads_, maps_, thread_map_info_q_, filter, profiling,
            sbuf, write_event, no_more_message, to_server, to_client, link,
            cpc, got_reply, asked, sessions>>
notOpts == <<opt, pages, output, rings, head, buffer, turn, resume, file,
             round, last, jit, child, signals, handled, targets, in_loop,
             has_error, clock, stopped, made, online, alive, covers, fd,
             event_fds, hotplugged, todo, opened, known, printed, counted,
             changes, events, desc, entry, live, art, new, k, walk, files,
             updates, since, given, names, mapped, seen, spc, threads_, maps_,
             thread_map_info_q_, filter, profiling, sbuf, write_event,
             no_more_message, to_server, to_client, link, cpc, got_reply,
             asked, sessions>>
notJit == <<opt, pages, output, rings, head, buffer, turn, resume, file,
            round, jit, child, signals, handled, targets, in_loop, has_error,
            stopped, made, groups, online, alive, covers, fd, event_fds,
            hotplugged, todo, opened, known, printed, counted, changes,
            events, cmd, args, o, waiting, names, mapped, seen, spc, threads_,
            maps_, thread_map_info_q_, filter, profiling, sbuf, write_event,
            no_more_message, to_server, to_client, link, cpc, got_reply,
            asked, sessions>>
notInplace == <<opt, pc, output, rings, head, buffer, turn, resume, file,
                round, last, jit, child, signals, handled, targets, in_loop,
                has_error, clock, stopped, made, groups, online, alive,
                covers, fd, event_fds, hotplugged, todo, opened, printed,
                counted, events, cmd, args, o, waiting, desc, entry, live,
                art, new, k, walk, files, updates, since, given>>

MCInit ==
    /\ program \in Programs
    /\ \/ /\ program = "recorder" /\ Rec!Init
          /\ groups = 0 /\ online = 0 /\ alive = 0 /\ covers = 0 /\ fd = 0 /\ event_fds = 0
          /\ hotplugged = 0 /\ todo = 0 /\ opened = 0 /\ known = 0 /\ printed = 0 /\ counted = 0
          /\ changes = 0 /\ events = 0 /\ cmd = 0 /\ args = 0 /\ o = 0 /\ waiting = 0 /\ desc = 0
          /\ entry = 0 /\ live = 0 /\ art = 0 /\ new = 0 /\ k = 0 /\ walk = 0 /\ files = 0
          /\ updates = 0 /\ since = 0 /\ given = 0 /\ names = 0 /\ mapped = 0 /\ seen = 0 /\ spc = 0
          /\ threads_ = 0 /\ maps_ = 0 /\ thread_map_info_q_ = 0 /\ filter = 0 /\ profiling = 0
          /\ sbuf = 0 /\ write_event = 0 /\ no_more_message = 0 /\ to_server = 0 /\ to_client = 0
          /\ link = 0 /\ cpc = 0 /\ got_reply = 0 /\ asked = 0 /\ sessions = 0
       \/ /\ program = "selection" /\ Sel!Init
          /\ opt = 0 /\ pages = 0 /\ output = 0 /\ rings = 0 /\ head = 0 /\ buffer = 0 /\ turn = 0
          /\ resume = 0 /\ file = 0 /\ round = 0 /\ jit = 0 /\ child = 0 /\ signals = 0
          /\ handled = 0 /\ targets = 0 /\ in_loop = 0 /\ has_error = 0 /\ clock = 0 /\ stopped = 0
          /\ made = 0 /\ cmd = 0 /\ args = 0 /\ o = 0 /\ waiting = 0 /\ desc = 0 /\ entry = 0
          /\ live = 0 /\ art = 0 /\ new = 0 /\ k = 0 /\ walk = 0 /\ files = 0 /\ updates = 0
          /\ since = 0 /\ given = 0 /\ names = 0 /\ mapped = 0 /\ seen = 0 /\ spc = 0
          /\ threads_ = 0 /\ maps_ = 0 /\ thread_map_info_q_ = 0 /\ filter = 0 /\ profiling = 0
          /\ sbuf = 0 /\ write_event = 0 /\ no_more_message = 0 /\ to_server = 0 /\ to_client = 0
          /\ link = 0 /\ cpc = 0 /\ got_reply = 0 /\ asked = 0 /\ sessions = 0
       \/ /\ program = "options" /\ Opts!Init
          /\ opt = 0 /\ pages = 0 /\ output = 0 /\ rings = 0 /\ head = 0 /\ buffer = 0 /\ turn = 0
          /\ resume = 0 /\ file = 0 /\ round = 0 /\ last = 0 /\ jit = 0 /\ child = 0 /\ signals = 0
          /\ handled = 0 /\ targets = 0 /\ in_loop = 0 /\ has_error = 0 /\ clock = 0 /\ stopped = 0
          /\ made = 0 /\ online = 0 /\ alive = 0 /\ covers = 0 /\ fd = 0 /\ event_fds = 0
          /\ hotplugged = 0 /\ todo = 0 /\ opened = 0 /\ known = 0 /\ printed = 0 /\ counted = 0
          /\ changes = 0 /\ events = 0 /\ desc = 0 /\ entry = 0 /\ live = 0 /\ art = 0 /\ new = 0
          /\ k = 0 /\ walk = 0 /\ files = 0 /\ updates = 0 /\ since = 0 /\ given = 0 /\ names = 0
          /\ mapped = 0 /\ seen = 0 /\ spc = 0 /\ threads_ = 0 /\ maps_ = 0
          /\ thread_map_info_q_ = 0 /\ filter = 0 /\ profiling = 0 /\ sbuf = 0 /\ write_event = 0
          /\ no_more_message = 0 /\ to_server = 0 /\ to_client = 0 /\ link = 0 /\ cpc = 0
          /\ got_reply = 0 /\ asked = 0 /\ sessions = 0
       \/ /\ program = "jit" /\ Jit!Init
          /\ opt = 0 /\ pages = 0 /\ output = 0 /\ rings = 0 /\ head = 0 /\ buffer = 0 /\ turn = 0
          /\ resume = 0 /\ file = 0 /\ round = 0 /\ jit = 0 /\ child = 0 /\ signals = 0
          /\ handled = 0 /\ targets = 0 /\ in_loop = 0 /\ has_error = 0 /\ stopped = 0 /\ made = 0
          /\ groups = 0 /\ online = 0 /\ alive = 0 /\ covers = 0 /\ fd = 0 /\ event_fds = 0
          /\ hotplugged = 0 /\ todo = 0 /\ opened = 0 /\ known = 0 /\ printed = 0 /\ counted = 0
          /\ changes = 0 /\ events = 0 /\ cmd = 0 /\ args = 0 /\ o = 0 /\ waiting = 0 /\ names = 0
          /\ mapped = 0 /\ seen = 0 /\ spc = 0 /\ threads_ = 0 /\ maps_ = 0
          /\ thread_map_info_q_ = 0 /\ filter = 0 /\ profiling = 0 /\ sbuf = 0 /\ write_event = 0
          /\ no_more_message = 0 /\ to_server = 0 /\ to_client = 0 /\ link = 0 /\ cpc = 0
          /\ got_reply = 0 /\ asked = 0 /\ sessions = 0
       \/ /\ program = "inplace" /\ Inplace!Init
          /\ opt = 0 /\ pc = 0 /\ output = 0 /\ rings = 0 /\ head = 0 /\ buffer = 0 /\ turn = 0
          /\ resume = 0 /\ file = 0 /\ round = 0 /\ last = 0 /\ jit = 0 /\ child = 0 /\ signals = 0
          /\ handled = 0 /\ targets = 0 /\ in_loop = 0 /\ has_error = 0 /\ clock = 0 /\ stopped = 0
          /\ made = 0 /\ groups = 0 /\ online = 0 /\ alive = 0 /\ covers = 0 /\ fd = 0
          /\ event_fds = 0 /\ hotplugged = 0 /\ todo = 0 /\ opened = 0 /\ printed = 0 /\ counted = 0
          /\ events = 0 /\ cmd = 0 /\ args = 0 /\ o = 0 /\ waiting = 0 /\ desc = 0 /\ entry = 0
          /\ live = 0 /\ art = 0 /\ new = 0 /\ k = 0 /\ walk = 0 /\ files = 0 /\ updates = 0
          /\ since = 0 /\ given = 0

MCNext ==
    /\ UNCHANGED program
    /\ \/ program = "recorder" /\ Rec!Next /\ UNCHANGED notRec
       \/ program = "selection" /\ Sel!Next /\ UNCHANGED notSel
       \/ program = "options" /\ Opts!Next /\ UNCHANGED notOpts
       \/ program = "jit" /\ Jit!Next /\ UNCHANGED notJit
       \/ program = "inplace" /\ Inplace!Next /\ UNCHANGED notInplace

MCSpec == MCInit /\ [][MCNext]_mcvars

\* Recorder: every record in a ring is saved whole, once and in order, or
\* still there, and all are saved when the recording is over; the maps of new
\* JIT symfiles are saved after the samples that were in the rings before.
RecordsSavedInOrder ==
    program = "recorder" => Rec!RecordsSavedInOrder /\ Rec!SymfilesAfterOldSamples

\* Recorder: the child process is neither left behind nor waited for in vain.
ChildNeverLeft == program = "recorder" => Rec!ChildNeverLeft

\* EventSelection: the events of a group are open on the same threads and
\* cpus, and cpus that come and go neither lose a count nor add it twice.
CountedOnce == program = "selection" => Sel!GroupsTogether /\ Sel!CountedOnce

\* RecordOptions: each event has the sampling speed of the option that should
\* set it, and the options that concern all events reach all of them, whatever
\* the order they are given in.
SpeedAsGiven == program = "options" => Opts!SpeedAsGiven /\ Opts!AttrsAgree

\* JITDebugReader: an update of the list of JIT symfiles is consistent
\* although the process runs on, and no symfile is missed.
UpdatesAreConsistent == program = "jit" => Jit!UpdatesAreConsistent

\* InplaceSampler: what the client knows of threads and maps is what the app
\* had when a sample was taken.
ClientKeepsUp == program = "inplace" => Inplace!ClientKeepsUp
=============================================================================
