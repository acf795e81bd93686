------------------------------ MODULE PerfProfd ------------------------------
(***************************************************************************)
(* perfprofd collects profiles with simpleperf now and then.  As a daemon  *)
(* it rereads its configuration file, writes numbered profiles and tells   *)
(* the uploader, another process, which numbers there are; the uploader    *)
(* answers with the numbers it has processed.  As a binder service it runs *)
(* sessions that clients start and stop.  Time is left out: a sleep may    *)
(* end at any step.                                                        *)
(***************************************************************************)
EXTENDS Integers, Sequences, FiniteSets

CONSTANTS
    Keys, Default, Permitted,   \* the options, their default values and their ranges
    NotCopied,                  \* the options a protobuf cannot set
    ConfFiles,                  \* contents of the configuration file: sequences of [key, value]
    Requests,                   \* [how : {"args", "string", "proto"}, lines]
    Modes,
    MaxIterations, MaxMade, MaxStarts, MaxRestarts

VARIABLES
    mode, pc,
    entries, config, conf,       \* u_entries of the reader, the Config, the file
    interrupted, is_profiling,
    iterations, child, hup, perfdata, proto,
    mpdecision, restart,         \* the service is running; HardwireCpuHelper stopped it
    enabled,                     \* the user has opted in
    files, seq,                  \* perf.data.encoded.N and the next N
    produced, processed,         \* perfprofd_produced.txt and perfprofd_processed.txt
    uploaded, made, starts, restarts,
    announced, stale,            \* ghost: profiles listed since the start; numbers processed before it
    stopped_at, late,            \* ghost: where the session was stopped; collections begun after that
    left                         \* ghost: a crash left mpdecision stopped

service == <<interrupted, is_profiling, starts, stopped_at, late>>
collection == <<child, hup, perfdata, proto, mpdecision, restart>>
output == <<files, seq, produced, processed, uploaded, made, announced>>
vars == <<mode, pc, entries, config, conf, service, iterations, collection, enabled, output, restarts, stale, left>>
----------------------------------------------------------------------------
(* ConfigReader. *)

Valid(l) == l.key \in Keys /\ l.value \in Permitted[l.key]

\* parseLine
parseLine(es, l) == IF Valid(l) THEN [es EXCEPT ![l.key] = l.value] ELSE es

\* Read; with fail_on_error any bad line fails.
Read(es, lines) ==
    LET read[n \in 0 .. Len(lines)] == IF n = 0 THEN es ELSE parseLine(read[n - 1], lines[n])
    IN  read[Len(lines)]
Fails(lines) == \E i \in DOMAIN lines : ~Valid(lines[i])

addDefaultEntries == [k \in Keys |-> Default[k]]

FillConfig(es) == [k \in Keys |-> es[k]]

\* startProfiling, startProfilingString and StartProfilingProtobuf.
Asked(r) ==
    CASE r.how = "proto" -> Read(addDefaultEntries, SelectSeq(r.lines, LAMBDA l : l.key \notin NotCopied))
      [] OTHER -> FillConfig(Read(addDefaultEntries, r.lines))
----------------------------------------------------------------------------
(* The binder service: ThreadedHandler. *)

StartProfiling(r) ==
    /\ mode = "binder" /\ starts < MaxStarts /\ starts' = starts + 1
    /\ IF is_profiling \/ (r.how = "string" /\ Fails(r.lines))
       THEN UNCHANGED <<pc, config, interrupted, is_profiling, iterations, stopped_at, late>>
       ELSE /\ is_profiling' = TRUE /\ interrupted' = FALSE
            /\ config' = Asked(r) /\ pc' = "head" /\ iterations' = 0
            /\ stopped_at' = "none" /\ late' = 0
    /\ UNCHANGED <<mode, entries, conf, collection, enabled, output, restarts, stale, left>>

StopProfiling ==
    /\ mode = "binder" /\ is_profiling
    /\ interrupted' = TRUE
    /\ stopped_at' = IF interrupted THEN stopped_at ELSE pc
    /\ UNCHANGED <<mode, pc, entries, config, conf, is_profiling, starts, late, iterations, collection, enabled,
                   output, restarts, stale, left>>
----------------------------------------------------------------------------
(* ProfilingLoopImpl. *)

\* The head of the loop, up to the sleep before the collection.
LoopHead ==
    /\ pc = "head"
    /\ pc' = IF (config["iterations"] # 0 /\ iterations >= config["iterations"]) \/ interrupted
             THEN "end" ELSE "asleep"
    /\ UNCHANGED <<mode, entries, config, conf, service, iterations, collection, enabled, output, restarts, stale, left>>

\* Mutant: a session that was stopped while it slept collects once more.
Proceeds == enabled

\* check_profiling_enabled, unless the session has been stopped.
Collects == enabled /\ ~interrupted

\* The sleep ends; the daemon rereads its file, keeping what it does not find there.
Wake ==
    /\ pc = "asleep"
    /\ \E es \in {IF mode = "daemon" THEN Read(entries, conf) ELSE entries} :
          /\ entries' = es
          /\ config' = IF mode = "daemon" THEN FillConfig(es) ELSE config
    /\ pc' = IF Collects THEN "collect" ELSE IF interrupted THEN "end" ELSE "after"
    /\ UNCHANGED <<mode, conf, service, iterations, collection, enabled, output, restarts, stale, left>>

\* HardwireCpuHelper stops mpdecision if it is running.
HardwireCpu == mpdecision' = FALSE /\ restart' = mpdecision

\* collect_profile up to the sleep in invoke_perf; fork may fail.
Collect(forked) ==
    /\ pc = "collect" /\ made < MaxMade
    /\ late' = IF interrupted THEN late + 1 ELSE late
    /\ perfdata' = FALSE /\ proto' = 0 /\ hup' = FALSE
    /\ IF forked THEN pc' = "recording" /\ child' = "running" /\ HardwireCpu
                 ELSE pc' = "handle" /\ UNCHANGED <<child, mpdecision, restart>>
    /\ UNCHANGED <<mode, entries, config, conf, interrupted, is_profiling, starts, stopped_at, iterations, enabled,
                   output, restarts, stale, left>>

\* simpleperf exits, with its file or without, or dies of SIGHUP before it handles it.
ChildEnds(how) ==
    /\ child = "running" /\ how \in {"ok", "bad"} \cup (IF hup THEN {"hup"} ELSE {})
    /\ child' = how
    /\ perfdata' \in (CASE how = "ok" -> {TRUE} [] how = "bad" -> BOOLEAN [] OTHER -> {FALSE})
    /\ UNCHANGED <<mode, pc, entries, config, conf, service, iterations, hup, proto, mpdecision, restart, enabled, output,
                   restarts, stale, left>>

\* The sleep ends; a stopped session sends SIGHUP.
StopPerf ==
    /\ pc = "recording"
    /\ pc' = "waiting"
    /\ hup' = (interrupted /\ child = "running")
    /\ UNCHANGED <<mode, entries, config, conf, service, iterations, child, perfdata, proto, mpdecision, restart, enabled,
                   output, restarts, stale, left>>

\* Mutant: a failed run leaves everything as it is.
Abandoned(ok) == UNCHANGED <<mpdecision, restart, perfdata>>

\* The scope guard removes perf.data, ~HardwireCpuHelper restarts mpdecision.
Cleanup(ok) == mpdecision' = restart /\ restart' = FALSE /\ perfdata' = FALSE

\* waitpid, and the rest of collect_profile: the profile, or none.
Reap(encodes) ==
    /\ pc = "waiting" /\ child \in {"ok", "bad", "hup"}
    /\ LET ok == child = "ok" \/ (child = "hup" /\ interrupted)
       IN  /\ proto' = IF ok /\ perfdata /\ encodes THEN made + 1 ELSE 0
           /\ made' = made + 1
           /\ Cleanup(ok)
    /\ child' = "none" /\ pc' = "handle"
    /\ UNCHANGED <<mode, entries, config, conf, service, iterations, hup, enabled, files, seq, produced, processed,
                   uploaded, announced, restarts, stale, left>>

WithFile(n, content) == [s \in DOMAIN files \cup {n} |-> IF s = n THEN content ELSE files[s]]

\* Mutant: the number stays the same.
NeverAdvanced(listed) == seq

NextSeq(listed) == IF listed THEN seq + 1 ELSE seq

\* post_process, when the profile has been written.
PostProcess(fs, writes) ==
    LET removed == processed \cap DOMAIN fs
        live == produced \ removed
        listed == Cardinality(live) < config["max"] /\ writes
    IN  /\ files' = [s \in DOMAIN fs \ removed |-> fs[s]]
        /\ produced' = IF listed THEN live \cup {seq} ELSE produced
        /\ announced' = IF listed THEN announced \cup {<<proto, seq>>} ELSE announced
        /\ seq' = NextSeq(listed)
        /\ UNCHANGED uploaded

\* The handler of the daemon, and ThreadedHandler::ResultHandler.
Handle(writes, lists) ==
    /\ pc = "handle"
    /\ pc' = IF interrupted THEN "end" ELSE "after"
    /\ IF proto = 0 \/ ~writes
       THEN UNCHANGED <<files, seq, produced, uploaded, announced>>
       ELSE IF config["dropbox"] = 1   \* SendToDropbox
       THEN /\ uploaded' = uploaded \cup {proto}
            /\ seq' = IF mode = "daemon" THEN seq + 1 ELSE seq
            /\ UNCHANGED <<files, produced, announced>>
       ELSE IF mode = "daemon" THEN PostProcess(WithFile(seq, proto), lists)
       ELSE /\ files' = WithFile(seq, proto) /\ seq' = seq + 1
            /\ UNCHANGED <<produced, uploaded, announced>>
    /\ proto' = 0
    /\ UNCHANGED <<mode, entries, config, conf, service, iterations, child, hup, perfdata, mpdecision, restart, enabled,
                   processed, made, restarts, stale, left>>

\* The sleep after the collection.  MaxIterations is no less than any limit
\* on iterations, so greater counts are alike.
After ==
    /\ pc = "after"
    /\ pc' = "head" /\ iterations' = IF iterations < MaxIterations THEN iterations + 1 ELSE iterations
    /\ UNCHANGED <<mode, entries, config, conf, service, collection, enabled, output, restarts, stale, left>>

\* The daemon exits; the thread of a session unsets is_profiling under the lock.
End ==
    /\ pc = "end" /\ pc' = "none" /\ is_profiling' = FALSE
    /\ UNCHANGED <<mode, entries, config, conf, interrupted, starts, stopped_at, late, iterations, collection,
                   enabled, output, restarts, stale, left>>
----------------------------------------------------------------------------
(* Around the daemon. *)

Upload(s) ==
    /\ s \in produced \cap DOMAIN files /\ s \notin processed
    /\ uploaded' = uploaded \cup {files[s]}
    /\ processed' = processed \cup {s}
    /\ UNCHANGED <<mode, pc, entries, config, conf, service, iterations, collection, enabled, files, seq, produced,
                   made, announced, restarts, stale, left>>

Rewrite(c) ==
    /\ mode = "daemon" /\ pc = "asleep" /\ conf # c /\ conf' = c
    /\ UNCHANGED <<mode, pc, entries, config, service, iterations, collection, enabled, output, restarts, stale, left>>

OptInOrOut ==
    /\ mode = "daemon" /\ pc = "asleep" /\ enabled' = ~enabled
    /\ UNCHANGED <<mode, pc, entries, config, conf, service, iterations, collection, output, restarts, stale, left>>

\* perfprofd_produced.txt is in this directory, perfprofd_processed.txt is not.
cleanup_destination_dir == files' = <<>> /\ produced' = {} /\ perfdata' = FALSE

\* The daemon dies and is started again: CommonInit cleans the directory.
Restart ==
    /\ mode = "daemon" /\ pc # "none" /\ restarts < MaxRestarts /\ restarts' = restarts + 1
    /\ entries' = Read(addDefaultEntries, conf) /\ config' = FillConfig(entries')
    /\ pc' = "head" /\ iterations' = 0 /\ child' = "none" /\ hup' = FALSE /\ proto' = 0
    /\ cleanup_destination_dir
    /\ seq' = 0 /\ announced' = {} /\ stale' = processed
    /\ restart' = FALSE /\ left' = ~mpdecision
    /\ UNCHANGED <<mode, conf, service, mpdecision, enabled, processed, uploaded, made>>

Init ==
    /\ mode \in Modes /\ conf \in ConfFiles
    /\ entries = IF mode = "daemon" THEN Read(addDefaultEntries, conf) ELSE addDefaultEntries
    /\ config = FillConfig(entries)
    /\ pc = (IF mode = "daemon" THEN "head" ELSE "none")
    /\ interrupted = FALSE /\ is_profiling = FALSE /\ iterations = 0
    /\ child = "none" /\ hup = FALSE /\ perfdata = FALSE /\ proto = 0 /\ mpdecision = TRUE /\ restart = FALSE /\ enabled = TRUE
    /\ files = <<>> /\ seq = 0 /\ produced = {} /\ processed = {} /\ uploaded = {}
    /\ made = 0 /\ starts = 0 /\ restarts = 0
    /\ announced = {} /\ stale = {} /\ stopped_at = "none" /\ late = 0 /\ left = FALSE

Next ==
    \/ LoopHead \/ Wake \/ StopPerf \/ After \/ End \/ OptInOrOut \/ Restart
    \/ \E r \in Requests : StartProfiling(r)
    \/ StopProfiling
    \/ \E b \in BOOLEAN : Collect(b) \/ Reap(b)
    \/ \E how \in {"ok", "bad", "hup"} : ChildEnds(how)
    \/ \E b, c \in BOOLEAN : Handle(b, c)
    \/ \E s \in produced : Upload(s)
    \/ \E c \in ConfFiles : Rewrite(c)

Spec == Init /\ [][Next]_vars
----------------------------------------------------------------------------
\* A profile listed in perfprofd_produced.txt is not overwritten or removed
\* before the uploader has it, whatever the limit on profiles, failed writes
\* and changes of the configuration do to the numbering: unless the uploader
\* processed the same number before the daemon was restarted.
ListedProfilesKept ==
    \A a \in announced : \/ a[1] \in uploaded \/ a[2] \in stale
                         \/ a[2] \in produced /\ a[2] \in DOMAIN files /\ files[a[2]] = a[1]

\* Once collect_profile is over, however it went, simpleperf has been reaped,
\* its file is gone and mpdecision is running again: unless an earlier daemon
\* died while it was stopped.
CollectionCleansUp ==
    pc \notin {"recording", "waiting"} => child = "none" /\ ~perfdata /\ (mpdecision \/ left)

\* After stopProfiling no collection is begun, except by a thread that had
\* already passed its last check, and that one only once.
StopIsObeyed == late > 0 => late = 1 /\ stopped_at = "collect"
============================================================================
