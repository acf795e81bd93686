----------------------------- MODULE TraceSched -----------------------------
(***************************************************************************)
(* simpleperf trace-sched: adds up the runtime events of every thread and  *)
(* looks, with a window of samples per thread, for threads that spin.      *)
(* Time is counted in units of which Period make the check period; the     *)
(* spin rate is RateNum / RateDen.                                         *)
(***************************************************************************)
EXTENDS Integers, Sequences, FiniteSets, FiniteSetsExt, SequencesExt

CONSTANTS
    Pid,            \* the process of every thread id
    Main,           \* the threads that exist when the recording starts
    Names,
    Period, RateNum, RateDen,
    MaxTime

VARIABLES
    now, phase,     \* the kernel's clock; "reading", then "done"
    threads,        \* the threads that exist: tid -> [name, seen: time of the last sample]
    thread_map_,
    processes,      \* BuildProcessInfo: pid -> [total, threads]
    entries, warned,    \* what is printed: runtimes, and threads with spin loops
    ran             \* ghost: every sample, [tid, from, to, runtime]

printed == <<entries, warned>>
vars == <<now, phase, threads, thread_map_, processes, printed, ran>>

ThreadInfo(t) ==
    IF t \in DOMAIN thread_map_ THEN thread_map_[t]
    ELSE [process_id |-> 0, name |-> "", total |-> 0, spinloop_count |-> 0, max_rate |-> <<0, 1>>,
          samples |-> <<>>, runtime |-> 0]

Put(m, t, info) == [x \in DOMAIN m \cup {t} |-> IF x = t THEN info ELSE m[x]]

\* std::min(1.0, runtime / period), as a fraction
Rate(info, period) == IF info.runtime >= period THEN <<1, 1>> ELSE <<info.runtime, period>>

\* Mutant: the samples are cleared and their runtime is kept.
ClearQueue(info, rate) ==
    IF rate[1] * info.max_rate[2] > info.max_rate[1] * rate[2]
    THEN [info EXCEPT !.spinloop_count = @ + 1, !.max_rate = rate, !.samples = <<>>]
    ELSE [info EXCEPT !.spinloop_count = @ + 1, !.runtime = @ - Head(info.samples).runtime, !.samples = Tail(@)]

\* A spin loop: clear the window if it is the worst so far, else drop its first sample.
DetectSpinLoop(info, rate) ==
    IF rate[1] * info.max_rate[2] > info.max_rate[1] * rate[2]
    THEN [info EXCEPT !.spinloop_count = @ + 1, !.max_rate = rate, !.samples = <<>>, !.runtime = 0]
    ELSE [info EXCEPT !.spinloop_count = @ + 1, !.runtime = @ - Head(info.samples).runtime, !.samples = Tail(@)]

\* The check made after a sample is added: nothing is dropped from a window that
\* is not a spin loop.
CheckSpinLoop(info, time) ==
    LET period == time - Head(info.samples).time
    IN  IF Len(info.samples) = 1 \/ period < Period \/ info.runtime * RateDen <= period * RateNum
        THEN info ELSE DetectSpinLoop(info, Rate(info, period))

\* ProcessSampleRecord
ProcessSampleRecord(t, run) ==
    /\ phase = "reading" /\ t \in DOMAIN threads /\ run \in 1 .. now - threads[t].seen
    /\ LET added == [ThreadInfo(t) EXCEPT !.process_id = Pid[t], !.name = threads[t].name, !.total = @ + run,
                                         !.runtime = @ + run, !.samples = Append(@, [time |-> now, runtime |-> run])]
       IN  thread_map_' = Put(thread_map_, t, CheckSpinLoop(added, now))
    /\ threads' = [threads EXCEPT ![t].seen = now]
    /\ ran' = Append(ran, [tid |-> t, from |-> threads[t].seen, to |-> now, runtime |-> run])
    /\ UNCHANGED <<now, phase, processes, printed>>

\* PERF_RECORD_COMM
Comm(t, n) ==
    /\ phase = "reading" /\ t \in DOMAIN threads /\ n # threads[t].name
    /\ threads' = [threads EXCEPT ![t].name = n]
    /\ thread_map_' = Put(thread_map_, t, [ThreadInfo(t) EXCEPT !.process_id = Pid[t], !.name = n])
    /\ UNCHANGED <<now, phase, processes, printed, ran>>

\* PERF_RECORD_FORK
Fork(p, t) ==
    /\ phase = "reading" /\ p \in DOMAIN threads /\ t \notin DOMAIN threads
    /\ threads' = Put(threads, t, [name |-> threads[p].name, seen |-> now])
    /\ thread_map_' = Put(Put(thread_map_, p, [ThreadInfo(p) EXCEPT !.process_id = Pid[p]]),
                          t, [ThreadInfo(t) EXCEPT !.process_id = Pid[t], !.name = ThreadInfo(p).name])
    /\ UNCHANGED <<now, phase, processes, printed, ran>>

Tick ==
    /\ phase = "reading" /\ now < MaxTime
    /\ now' = now + 1
    /\ UNCHANGED <<phase, threads, thread_map_, processes, printed, ran>>

\* BuildProcessInfo
Total(ts) == MapThenSumSet(LAMBDA t : thread_map_[t].total, ts)

BuildProcessInfo ==
    /\ phase = "reading" /\ phase' = "built"
    /\ LET shown == {t \in DOMAIN thread_map_ : thread_map_[t].name # "simpleperf"}
           Of(p) == {t \in shown : thread_map_[t].process_id = p}
       IN  processes' = [p \in {thread_map_[t].process_id : t \in shown} |-> [total |-> Total(Of(p)), threads |-> Of(p)]]
    /\ UNCHANGED <<now, threads, thread_map_, printed, ran>>

\* ReportProcessInfo: processes and their threads (--show-threads) with at least
\* a ten thousandth of the runtime, and the threads that have spin loops.
ReportProcessInfo ==
    /\ phase = "built" /\ phase' = "done"
    /\ LET listed == UNION {processes[p].threads : p \in DOMAIN processes}
           Shown(runtime) == runtime > 0 /\ runtime * 10000 >= Total(listed)
       IN  /\ entries' = [ps |-> {p \in DOMAIN processes : Shown(processes[p].total)},
                          ts |-> {t \in listed : Shown(thread_map_[t].total)}]
           /\ warned' = {t \in listed : thread_map_[t].spinloop_count # 0}
    /\ UNCHANGED <<now, threads, thread_map_, processes, ran>>

\* The comm records of the threads that exist come first.
Init ==
    /\ now = 0 /\ phase = "reading" /\ processes = <<>> /\ entries = [ps |-> {}, ts |-> {}] /\ warned = {} /\ ran = <<>>
    /\ threads \in [Main -> [name : Names, seen : {0}]]
    /\ thread_map_ = [t \in Main |-> [process_id |-> Pid[t], name |-> threads[t].name, total |-> 0,
                                      spinloop_count |-> 0, max_rate |-> <<0, 1>>, samples |-> <<>>, runtime |-> 0]]

Next ==
    \/ Tick \/ BuildProcessInfo \/ ReportProcessInfo
    \/ \E t \in DOMAIN Pid : \/ \E run \in 1 .. MaxTime : ProcessSampleRecord(t, run)
                             \/ \E n \in Names : Comm(t, n)
                             \/ \E p \in DOMAIN Pid : Fork(p, t)

Spec == Init /\ [][Next]_vars
----------------------------------------------------------------------------
Runtime(is) == MapThenSumSet(LAMBDA i : ran[i].runtime, is)

\* The report gives every process the runtime of its threads that are not
\* simpleperf's, those named by their parent at fork included, and lists all
\* that ran; and the runtime
\* kept for a thread's window is that of the samples in it, so that taking a
\* sample's share away never wraps the unsigned counter.
RuntimesAddUp ==
    /\ \A t \in DOMAIN thread_map_ :
          LET s == thread_map_[t].samples IN thread_map_[t].runtime = MapThenSumSet(LAMBDA i : s[i].runtime, DOMAIN s)
    /\ phase = "done" =>
          LET shown == {t \in DOMAIN threads : threads[t].name # "simpleperf"}
          IN  /\ DOMAIN processes = {Pid[t] : t \in shown}
              /\ entries = [ps |-> {Pid[ran[i].tid] : i \in {i \in DOMAIN ran : ran[i].tid \in shown}},
                            ts |-> {ran[i].tid : i \in DOMAIN ran} \cap shown]
              /\ \A p \in DOMAIN processes :
                    processes[p].total = Runtime({i \in DOMAIN ran : ran[i].tid \in shown /\ Pid[ran[i].tid] = p})

\* A thread that took more than spin rate * check period of cpu time in some
\* check period, from one of its samples to another, is warned about.
SpinningIsWarned ==
    phase = "done" =>
        \A i, j \in DOMAIN ran :
            LET t == ran[i].tid
                within == {k \in i + 1 .. j : ran[k].tid = t}
            IN  /\ i < j /\ ran[j].tid = t /\ ran[j].to - ran[i].to = Period
                /\ Runtime(within) * RateDen > Period * RateNum
                => t \in warned \/ threads[t].name = "simpleperf"
============================================================================
