------------------------------ MODULE ANRdaemon ------------------------------
(***************************************************************************)
(* The daemon that switches kernel tracing on while the cpu load is high,  *)
(* and dumps the trace on request.  Its flags are plain variables set by a *)
(* signal handler, which may run between any two steps of the main thread; *)
(* the handled signals are blocked while it runs.  SIGSTOP cannot be       *)
(* caught: the kernel stops the process, which is a step that changes      *)
(* nothing here.                                                           *)
(***************************************************************************)
EXTENDS Integers, FiniteSets

CONSTANTS
    Categories,      \* the log_* categories asked for
    idle_threshold,  \* in 0.01%
    Loads,           \* [idle, total] ticks that pass between two reads of /proc/stat; [0, 0] is a failed read
    Tries,           \* how often an interrupted write is tried again
    MaxSignals

VARIABLES
    pc,
    quit, suspend, dump_requested, err, tracing,
    tracing_on, enabled,    \* debugfs: tracing_on and the enabled categories
    writing, tries,         \* dfs_enable: the value it writes, or none; attempts left
    todo,                   \* dfs_set_property: the categories still to be enabled
    dumping,                \* dump_trace runs in the main thread
    signals,
    owed                    \* ghost: a request was made that no dump has followed

flags == <<quit, suspend, dump_requested>>
debugfs == <<tracing_on, enabled, writing, tries, todo>>
vars == <<pc, flags, err, tracing, debugfs, dumping, signals, owed>>
----------------------------------------------------------------------------
\* is_heavy_load, with 1.00% more while tracing is on.
is_heavy_load(l) == l.idle * 10000 < l.total * (idle_threshold + (IF tracing THEN 100 ELSE 0))

\* dump_trace
Dumped == owed' = FALSE
----------------------------------------------------------------------------
(* handle_signal *)

\* request_dump_trace: the main thread is asked to dump while it traces.
AsksMain == tracing

request_dump_trace ==
    /\ IF AsksMain THEN dump_requested' = TRUE /\ owed' = TRUE
                   ELSE Dumped /\ UNCHANGED dump_requested
    /\ UNCHANGED <<quit, suspend>>

HandleSignal(s) ==
    /\ pc # "exited" /\ signals < MaxSignals /\ signals' = signals + 1
    /\ CASE s = "SIGQUIT" -> suspend' = TRUE /\ quit' = TRUE /\ UNCHANGED <<dump_requested, owed>>
         [] s = "SIGCONT" -> suspend' = FALSE /\ UNCHANGED <<quit, dump_requested, owed>>
         [] s = "SIGUSR1" -> request_dump_trace
    /\ UNCHANGED <<pc, err, tracing, debugfs, dumping>>
----------------------------------------------------------------------------
(* dfs_enable: a write that fails for good is tried for ever. *)

\* Starts writing `on`; the steps below continue at pc.
Enable(on) == writing' = (IF on THEN "on" ELSE "off") /\ tries' = Tries

Writing == writing \in {"on", "off"}

Applied(what, on) ==
    IF what = "tracing_on" THEN tracing_on' = on /\ UNCHANGED enabled
    ELSE enabled' = (IF on THEN enabled \cup {what} ELSE enabled \ {what}) /\ UNCHANGED tracing_on

\* The path that pc writes to.
Path == IF pc = "properties" THEN (CHOOSE c \in todo : TRUE) ELSE "tracing_on"

NotOpened ==
    /\ Writing /\ tries = Tries
    /\ err' = TRUE /\ writing' = "failed"
    /\ UNCHANGED <<pc, flags, tracing, tracing_on, enabled, tries, todo, dumping, signals, owed>>

Written ==
    /\ Writing
    /\ Applied(Path, writing = "on")
    /\ writing' = IF err THEN "failed" ELSE "done"
    /\ UNCHANGED <<pc, flags, err, tracing, tries, todo, dumping, signals, owed>>

\* EINTR, or another error, after which the write is tried again all the same.
WriteFails ==
    /\ Writing
    /\ \/ tries > 0 /\ tries' = tries - 1 /\ UNCHANGED err
       \/ err' = TRUE /\ UNCHANGED tries
    /\ UNCHANGED <<pc, flags, tracing, tracing_on, enabled, writing, todo, dumping, signals, owed>>
----------------------------------------------------------------------------
(* start *)

SetBufferSize(works) ==
    /\ pc = "start"
    /\ err' = ~works
    /\ IF ~works THEN pc' = "exited" /\ UNCHANGED <<writing, tries>>
       ELSE IF todo = {} THEN pc' = "loop" /\ UNCHANGED <<writing, tries>>
       ELSE pc' = "properties" /\ Enable(TRUE)
    /\ UNCHANGED <<flags, tracing, tracing_on, enabled, todo, dumping, signals, owed>>

\* dfs_set_property goes on after a failure.
SetProperties ==
    /\ pc = "properties" /\ ~Writing
    /\ todo' = todo \ {Path}
    /\ IF todo' = {} THEN pc' = "loop" /\ writing' = "none" /\ UNCHANGED tries ELSE Enable(TRUE) /\ UNCHANGED pc
    /\ UNCHANGED <<flags, err, tracing, tracing_on, enabled, dumping, signals, owed>>

\* The head of the main loop, and the sleep at its end.
Loop(l) ==
    /\ pc = "loop"
    /\ IF quit \/ err THEN pc' = "exited" /\ UNCHANGED <<writing, tries>>
       ELSE IF ~suspend /\ is_heavy_load(l) THEN pc' = "starting" /\ Enable(TRUE)
       ELSE UNCHANGED <<pc, writing, tries>>
    /\ UNCHANGED <<flags, err, tracing, tracing_on, enabled, todo, dumping, signals, owed>>
----------------------------------------------------------------------------
(* start_tracing *)

Started ==
    /\ pc = "starting" /\ ~Writing /\ writing' = "none"
    /\ IF writing = "done" THEN tracing' = TRUE /\ pc' = "tracing" ELSE pc' = "loop" /\ UNCHANGED tracing
    /\ UNCHANGED <<flags, err, tracing_on, enabled, tries, todo, dumping, signals, owed>>

KeepsTracing(l) == ~suspend /\ ~dump_requested /\ is_heavy_load(l)

\* Mutant: the flag is cleared before tracing is switched off.
ClearFlag == tracing' = FALSE

\* The flag stays until tracing is off.
KeepFlag == UNCHANGED tracing

CheckLoad(l) ==
    /\ pc = "tracing"
    /\ IF KeepsTracing(l) THEN UNCHANGED <<pc, tracing, writing, tries>>
       ELSE pc' = "stopping" /\ Enable(FALSE) /\ KeepFlag
    /\ UNCHANGED <<flags, err, tracing_on, enabled, todo, dumping, signals, owed>>

Stopped ==
    /\ pc = "stopping" /\ ~Writing /\ writing' = "none"
    /\ IF writing = "done" THEN pc' = "report" /\ tracing' = FALSE /\ UNCHANGED err
                           ELSE pc' = "loop" /\ err' = TRUE /\ UNCHANGED tracing
    /\ UNCHANGED <<flags, tracing_on, enabled, tries, todo, dumping, signals, owed>>

\* Mutant: the request is taken back although no dump was made.
AlwaysServed == dump_requested' = FALSE

\* Without a dump the request stands.
KeepRequest == UNCHANGED dump_requested

\* A suspended daemon leaves the request for the next time.
Report ==
    /\ pc = "report"
    /\ IF ~suspend /\ dump_requested THEN pc' = "dump" /\ dumping' = TRUE /\ UNCHANGED dump_requested
                                     ELSE pc' = "loop" /\ KeepRequest /\ UNCHANGED dumping
    /\ UNCHANGED <<quit, suspend, err, tracing, debugfs, signals, owed>>

Dump ==
    /\ pc = "dump" /\ dumping
    /\ dumping' = FALSE /\ Dumped
    /\ UNCHANGED <<pc, flags, err, tracing, debugfs, signals>>

DumpDone ==
    /\ pc = "dump" /\ ~dumping
    /\ pc' = "loop" /\ dump_requested' = FALSE
    /\ UNCHANGED <<quit, suspend, err, tracing, debugfs, dumping, signals, owed>>
----------------------------------------------------------------------------
Init ==
    /\ pc = "start" /\ quit = FALSE /\ suspend = FALSE /\ dump_requested = FALSE /\ err = FALSE /\ tracing = FALSE
    /\ tracing_on = FALSE /\ enabled = {} /\ writing = "none" /\ tries = Tries /\ todo = Categories
    /\ dumping = FALSE /\ signals = 0 /\ owed = FALSE

Main ==
    \/ \E b \in BOOLEAN : SetBufferSize(b)
    \/ NotOpened \/ Written \/ WriteFails \/ SetProperties \/ Started \/ Stopped \/ Report \/ Dump \/ DumpDone
    \/ \E l \in Loads : Loop(l) \/ CheckLoad(l)

Next == Main \/ \E s \in {"SIGQUIT", "SIGCONT", "SIGUSR1"} : HandleSignal(s)

Spec == Init /\ [][Next]_vars
----------------------------------------------------------------------------
\* A dump that was asked for while the kernel was tracing is not forgotten: the
\* flag that stands for it is only taken back by a dump, in whatever order
\* requests, suspension and the end of tracing come.
RequestsStand == owed => dump_requested

\* A daemon that has terminated without an error has switched tracing off, and
\* its flag never says off while the kernel still traces, outside of the two
\* steps that switch it: a request that comes then would dump a trace in motion.
TracingFollowsFlag ==
    /\ pc \in {"loop", "report", "dump", "exited"} /\ ~err => ~tracing_on
    /\ ~tracing /\ tracing_on => pc = "starting" \/ err
============================================================================
