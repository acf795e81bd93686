-------------------------------- MODULE Replay --------------------------------
(***************************************************************************)
(* memory_replay as a whole: the main thread reads the dump line by line   *)
(* and hands every action to the thread that replays its tid (main.cpp,    *)
(* Threads.cpp), each thread runs the actions put in its one action slot   *)
(* (Thread.cpp, Action.cpp), and the actions work on the shared pointer    *)
(* table (Pointers.tla, whose callers are the entries of the thread        *)
(* table).                                                                 *)
(*                                                                         *)
(* pending_ is only touched under a thread's mutex, so a critical section  *)
(* is one step; the condition variable is signalled after the unlock, in a *)
(* step of its own, and a signal nobody waits for is lost.  Spurious       *)
(* wake-ups only re-run the check and are left out, so that they cannot    *)
(* hide a lost one.                                                        *)
(***************************************************************************)
EXTENDS Pointers

CONSTANTS
    Tids,            \* thread ids of the dump
    max_threads,     \* entries of the thread table
    MaxLines,        \* lines of the dump
    PageEntries,     \* entries of the pointer table per page
    CreateOutcomes   \* can pthread_create succeed (TRUE), fail (FALSE)?

NoTid == 0

NoSlot == max_threads

Slots == 0 .. max_threads - 1

\* Pointers::Pointers: four entries per counted allocation, in whole pages.
RoundToPages(n) == ((n + PageEntries - 1) \div PageEntries) * PageEntries

\* GetMaxAllocs counts every line (see MaxAllocs.tla).
ASSUME ReplayAssumption ==
    /\ Tids \subseteq Nat \ {NoTid}
    /\ max_threads \in Nat \ {0}
    /\ Callers = Slots
    /\ MaxAdds = MaxLines
    /\ max_pointers = RoundToPages(4 * MaxLines)
    /\ CreateOutcomes \subseteq BOOLEAN

VARIABLES
    tid_, pending_, action_memory_,  \* the Thread entries
    runner,                          \* where every ThreadRunner is
    num_threads_,
    mpc,         \* where main is
    mainWaits,   \* the entry whose condition variable main waits on, or NoSlot
    cur,         \* main's `thread`
    line,        \* the line main is processing
    lines,       \* how many lines were read
    i, threads,  \* loop variables of WaitForAllToQuiesce and FinishAll
    heap,        \* memory allocated and not freed
    live,        \* history: in dump order, the keys allocated and not freed
    allocated,   \* history: the memory the last allocation of a key returned
    executed     \* history: how often the action of every line was executed

threadVars == <<tid_, pending_, action_memory_, runner, num_threads_>>
mainVars == <<mpc, mainWaits, cur, line, lines, i, threads>>
traceVars == <<live, allocated, executed>>
vars == <<pointersVars, threadVars, mainVars, heap, traceVars>>

\* calloc and memalign differ from malloc only in the call they make.
Lines ==
    [type : {"malloc"}, tid : Tids, key : Keys, old : {0}]
        \cup [type : {"realloc"}, tid : Tids, key : Keys, old : Keys \cup {0}]
        \cup [type : {"free"}, tid : Tids, key : Keys \cup {0}, old : {0}]
        \cup [type : {"thread_done"}, tid : Tids, key : {0}, old : {0}]

\* The action FinishAll creates; it belongs to no line.
EndThreadAction == [type |-> "thread_done", key |-> 0, old |-> 0, line |-> 0]

ActionOf(l, n) == [type |-> l.type, key |-> l.key, old |-> l.old, line |-> n]

DoesFree(a) ==
    \/ a.type = "realloc" /\ a.old # 0
    \/ a.type = "free" /\ a.key # 0

EndThread(a) == a.type = "thread_done"

ReplayInit ==
    /\ Init
    /\ tid_ = [s \in Slots |-> NoTid]
    /\ pending_ = [s \in Slots |-> FALSE]
    /\ action_memory_ = [s \in Slots |-> EndThreadAction]
    /\ runner = [s \in Slots |-> "none"]
    /\ num_threads_ = 0
    /\ mpc = "read"
    /\ mainWaits = NoSlot
    /\ cur = 0
    /\ line = CHOOSE l \in Lines : TRUE
    /\ lines = 0
    /\ i = 0
    /\ threads = 0
    /\ heap = {}
    /\ live = {}
    /\ allocated = [k \in Keys |-> NoMem]
    /\ executed = [n \in 1 .. MaxLines |-> 0]

-----------------------------------------------------------------------------
(* Threads: the table of Thread entries, used by main only.                *)

GetHashEntry(t) == t % max_threads

\* The n-th entry that a search for t looks at.
Probe(t, n) == (GetHashEntry(t) + n) % max_threads

LeastOf(S) == CHOOSE n \in S : \A m \in S : n <= m

\* Mutant: an empty entry ends the search.
FindThreadStopsAtHole(t) ==
    LET found == {n \in Slots :
                    /\ tid_[Probe(t, n)] = t
                    /\ \A m \in 0 .. n - 1 : tid_[Probe(t, m)] # NoTid}
    IN  IF found = {} THEN NoSlot ELSE Probe(t, LeastOf(found))

\* The search goes on until it has seen num_threads_ used entries.
FindThread(t) ==
    LET found == {n \in Slots :
                    /\ tid_[Probe(t, n)] = t
                    /\ Cardinality({m \in 0 .. n - 1 : tid_[Probe(t, m)] # NoTid})
                         < num_threads_}
    IN  IF found = {} THEN NoSlot ELSE Probe(t, LeastOf(found))

FindEmptyEntry(t) ==
    LET empty == {n \in Slots : tid_[Probe(t, n)] = NoTid}
    IN  IF empty = {} THEN NoSlot ELSE Probe(t, LeastOf(empty))

\* pthread_create returns an error number, never -1, so the test for -1
\* takes a failure for a success and no thread runs.
CreateThread(t) ==
    LET s == FindEmptyEntry(t)
    IN  IF num_threads_ = max_threads \/ s = NoSlot
        THEN /\ mpc' = "err"
             /\ UNCHANGED <<tid_, runner, num_threads_, cur>>
        ELSE /\ tid_' = [tid_ EXCEPT ![s] = t]
             /\ \E created \in CreateOutcomes :
                    runner' = [runner EXCEPT ![s] = IF created THEN "wait" ELSE "failed"]
             /\ num_threads_' = num_threads_ + 1
             /\ cur' = s
             /\ mpc' = "wait_ready"

-----------------------------------------------------------------------------
(* Thread: the monitor of one entry.                                       *)

\* main in WaitForReady: wait while the action is pending, else go to next.
WaitForReady(s, next) ==
    IF pending_[s]
    THEN mainWaits' = s /\ UNCHANGED mpc
    ELSE mpc' = next /\ UNCHANGED mainWaits

\* Mutant: the runner is not woken.
SignalMainOnly(s) ==
    /\ mainWaits' = IF mainWaits = s THEN NoSlot ELSE mainWaits
    /\ UNCHANGED runner

\* pthread_cond_signal wakes one of the threads that wait.
Signal(s) ==
    LET mainHere == mainWaits = s
        runnerHere == runner[s] = "blocked"
    IN  \/ mainHere /\ mainWaits' = NoSlot /\ UNCHANGED runner
        \/ runnerHere /\ runner' = [runner EXCEPT ![s] = "wait"] /\ UNCHANGED mainWaits
        \/ ~mainHere /\ ~runnerHere /\ UNCHANGED <<mainWaits, runner>>

SetPending(s) == pending_' = [pending_ EXCEPT ![s] = TRUE]

-----------------------------------------------------------------------------
(* main: ProcessDump.                                                      *)

\* A dump records a real execution: a key is allocated when it is not in
\* use, freed or reallocated when it is.
PossibleNext(l) ==
    CASE l.type = "malloc" -> l.key \notin live
      [] l.type = "realloc" -> /\ l.old = 0 \/ l.old \in live
                               /\ l.key \notin live \ {l.old}
      [] l.type = "free" -> l.key = 0 \/ l.key \in live
      [] l.type = "thread_done" -> TRUE

LiveAfter(l) ==
    CASE l.type = "malloc" -> live \cup {l.key}
      [] l.type = "realloc" -> (live \ {l.old}) \cup {l.key}
      [] l.type = "free" -> live \ {l.key}
      [] l.type = "thread_done" -> live

ReadLine ==
    /\ mpc = "read"
    /\ lines < MaxLines
    /\ \E l \in Lines :
        /\ PossibleNext(l)
        /\ line' = l
        /\ live' = LiveAfter(l)
        /\ lines' = lines + 1
        /\ LET s == FindThread(l.tid)
           IN  IF s = NoSlot
               THEN CreateThread(l.tid)
               ELSE /\ cur' = s
                    /\ mpc' = "wait_ready"
                    /\ UNCHANGED <<tid_, runner, num_threads_>>
    /\ UNCHANGED <<pointersVars, pending_, action_memory_, mainWaits, i, threads,
                   heap, allocated, executed>>

\* Mutant: the slot is overwritten while its action is pending.
WaitForPreviousActionDropped ==
    /\ mpc = "wait_ready"
    /\ mpc' = "create_action"
    /\ UNCHANGED <<pointersVars, threadVars, mainWaits, cur, line, lines, i, threads, heap,
                   traceVars>>

WaitForPreviousAction ==
    /\ mpc = "wait_ready"
    /\ WaitForReady(cur, "create_action")
    /\ UNCHANGED <<pointersVars, threadVars, cur, line, lines, i, threads, heap, traceVars>>

\* A line that cannot be parsed, or that makes no action: err(1).
UnusableLine ==
    /\ (mpc = "read" /\ lines < MaxLines) \/ mpc = "create_action"
    /\ mpc' = "err"
    /\ UNCHANGED <<pointersVars, threadVars, mainWaits, cur, line, lines, i, threads, heap,
                   traceVars>>

\* Mutant: main does not quiesce the threads before a freeing action.
CreateActionNoQuiesce ==
    /\ mpc = "create_action"
    /\ action_memory_' = [action_memory_ EXCEPT ![cur] = ActionOf(line, lines)]
    /\ mpc' = "set_pending"
    /\ i' = 0
    /\ threads' = 0
    /\ UNCHANGED <<pointersVars, tid_, pending_, runner, num_threads_, mainWaits,
                   cur, line, lines, heap, traceVars>>

CreateAction ==
    /\ mpc = "create_action"
    /\ LET a == ActionOf(line, lines)
       IN  /\ action_memory_' = [action_memory_ EXCEPT ![cur] = a]
           /\ mpc' = IF DoesFree(a) THEN "quiesce" ELSE "set_pending"
    /\ i' = 0
    /\ threads' = 0
    /\ UNCHANGED <<pointersVars, tid_, pending_, runner, num_threads_, mainWaits,
                   cur, line, lines, heap, traceVars>>

\* One iteration of WaitForAllToQuiesce, which ends after num_threads_ entries
\* in use; main goes to next then.
QuiesceStep(next) ==
    IF threads = num_threads_
    THEN mpc' = next /\ i' = 0 /\ UNCHANGED <<mainWaits, threads>>
    ELSE IF tid_[i] # NoTid /\ pending_[i]
         THEN mainWaits' = i /\ UNCHANGED <<mpc, i, threads>>
         ELSE /\ i' = i + 1
              /\ threads' = IF tid_[i] # NoTid THEN threads + 1 ELSE threads
              /\ UNCHANGED <<mpc, mainWaits>>

WaitForAllToQuiesce ==
    /\ \/ mpc = "quiesce" /\ QuiesceStep("set_pending")
       \/ mpc = "quiesce_end" /\ QuiesceStep("finish_all")
    /\ UNCHANGED <<pointersVars, threadVars, cur, line, lines, heap, traceVars>>

TriggerAction ==
    /\ mpc = "set_pending"
    /\ SetPending(cur)
    /\ mpc' = "signal"
    /\ UNCHANGED <<pointersVars, tid_, action_memory_, runner, num_threads_, mainWaits,
                   cur, line, lines, i, threads, heap, traceVars>>

AfterSignal ==
    LET a == action_memory_[cur]
    IN  IF EndThread(a) THEN "finish" ELSE IF DoesFree(a) THEN "wait_done" ELSE "read"

SignalAction ==
    /\ mpc = "signal"
    /\ Signal(cur)
    /\ mpc' = AfterSignal
    /\ UNCHANGED <<pointersVars, tid_, pending_, action_memory_, num_threads_,
                   cur, line, lines, i, threads, heap, traceVars>>

\* Threads::Finish: join the thread and clear its entry.
Join(s, next) ==
    /\ runner[s] = "exited"
    /\ runner' = [runner EXCEPT ![s] = "none"]
    /\ tid_' = [tid_ EXCEPT ![s] = NoTid]
    /\ num_threads_' = num_threads_ - 1
    /\ mpc' = next

Finish ==
    /\ mpc = "finish"
    /\ Join(cur, "read")
    /\ UNCHANGED <<pointersVars, pending_, action_memory_, mainWaits, cur, line, lines,
                   i, threads, heap, traceVars>>

WaitForFree ==
    /\ mpc = "wait_done"
    /\ WaitForReady(cur, "read")
    /\ UNCHANGED <<pointersVars, threadVars, cur, line, lines, i, threads, heap, traceVars>>

EndOfDump ==
    /\ mpc = "read"
    /\ lines = MaxLines
    /\ mpc' = "quiesce_end"
    /\ i' = 0
    /\ threads' = 0
    /\ UNCHANGED <<pointersVars, threadVars, mainWaits, cur, line, lines, heap, traceVars>>

\* FinishAll: end the thread of every entry, in turn.
FinishAllEntry ==
    /\ mpc = "finish_all"
    /\ \/ /\ i = max_threads
          /\ mpc' = "free_all"
          /\ UNCHANGED <<i, pending_, action_memory_>>
       \/ /\ i < max_threads
          /\ tid_[i] = NoTid
          /\ i' = i + 1
          /\ UNCHANGED <<mpc, pending_, action_memory_>>
       \/ /\ i < max_threads
          /\ tid_[i] # NoTid
          /\ action_memory_' = [action_memory_ EXCEPT ![i] = EndThreadAction]
          /\ SetPending(i)
          /\ mpc' = "finish_all_signal"
          /\ UNCHANGED i
    /\ UNCHANGED <<pointersVars, tid_, runner, num_threads_, mainWaits, cur, line, lines,
                   threads, heap, traceVars>>

FinishAllSignal ==
    /\ mpc = "finish_all_signal"
    /\ Signal(i)
    /\ mpc' = "finish_all_join"
    /\ UNCHANGED <<pointersVars, tid_, pending_, action_memory_, num_threads_, cur, line,
                   lines, i, threads, heap, traceVars>>

FinishAllJoin ==
    /\ mpc = "finish_all_join"
    /\ Join(i, "finish_all")
    /\ i' = i + 1
    /\ UNCHANGED <<pointersVars, pending_, action_memory_, mainWaits, cur, line, lines,
                   threads, heap, traceVars>>

\* Mutant: the last entry is skipped.
FreeAllButLast ==
    /\ mpc = "free_all"
    /\ heap' = heap \ {pointer[e] : e \in {e \in 0 .. max_pointers - 2 : key_pointer[e] # Empty}}
    /\ mpc' = "done"
    /\ UNCHANGED <<pointersVars, threadVars, mainWaits, cur, line, lines, i, threads,
                   traceVars>>

\* Pointers::FreeAll leaves the table as it is.
FreeAll ==
    /\ mpc = "free_all"
    /\ heap' = heap \ {pointer[e] : e \in {e \in Entries : key_pointer[e] # Empty}}
    /\ mpc' = "done"
    /\ UNCHANGED <<pointersVars, threadVars, mainWaits, cur, line, lines, i, threads,
                   traceVars>>

\* The main thread runs unless it waits on a condition variable.
Main ==
    /\ mainWaits = NoSlot
    /\ \/ ReadLine
       \/ WaitForPreviousAction
       \/ UnusableLine
       \/ CreateAction
       \/ WaitForAllToQuiesce
       \/ TriggerAction
       \/ SignalAction
       \/ Finish
       \/ WaitForFree
       \/ EndOfDump
       \/ FinishAllEntry
       \/ FinishAllSignal
       \/ FinishAllJoin
       \/ FreeAll

-----------------------------------------------------------------------------
(* ThreadRunner and the actions it executes.                               *)

RunnerGoto(s, label) == runner' = [runner EXCEPT ![s] = label]

WaitForPending(s) ==
    /\ runner[s] = "wait"
    /\ RunnerGoto(s, IF pending_[s] THEN "execute" ELSE "blocked")
    /\ UNCHANGED <<pointersVars, tid_, pending_, action_memory_, num_threads_, mainVars,
                   heap, traceVars>>

\* malloc or realloc returned m; give it to Add.
AddMemory(s, m) ==
    LET a == action_memory_[s]
    IN  /\ Add(s, a.key, m)
        /\ allocated' = [allocated EXCEPT ![a.key] = m]
        /\ RunnerGoto(s, "adding")

\* Execute up to the first call into the pointer table.
Execute(s) ==
    LET a == action_memory_[s]
    IN  /\ runner[s] = "execute"
        /\ \/ /\ a.type = "malloc" \/ (a.type = "realloc" /\ a.old = 0)
              /\ \E m \in Memory \ heap :
                    heap' = heap \cup {m} /\ AddMemory(s, m)
           \/ /\ DoesFree(a)
              /\ Remove(s, IF a.type = "realloc" THEN a.old ELSE a.key)
              /\ RunnerGoto(s, "removing")
              /\ UNCHANGED <<heap, allocated>>
           \/ /\ EndThread(a) \/ (a.type = "free" /\ a.key = 0)
              /\ RunnerGoto(s, "clear")
              /\ UNCHANGED <<pointersVars, heap, allocated>>
        /\ executed' = IF a.line = 0 THEN executed ELSE [executed EXCEPT ![a.line] = @ + 1]
        /\ UNCHANGED <<tid_, pending_, action_memory_, num_threads_, mainVars, live>>

\* Remove has returned: free the memory or reallocate it, in place or not.
Removed(s) ==
    LET a == action_memory_[s]
    IN  /\ runner[s] = "removing"
        /\ pc[s] = "idle"
        /\ \/ /\ a.type = "free"
              /\ heap' = heap \ {result[s]}
              /\ RunnerGoto(s, "clear")
              /\ UNCHANGED <<pointersVars, allocated>>
           \/ /\ a.type = "realloc"
              /\ \E m \in (Memory \ heap) \cup {result[s]} :
                    heap' = (heap \ {result[s]}) \cup {m} /\ AddMemory(s, m)
        /\ UNCHANGED <<tid_, pending_, action_memory_, num_threads_, mainVars, live, executed>>

Added(s) ==
    /\ runner[s] = "adding"
    /\ pc[s] = "idle"
    /\ RunnerGoto(s, "clear")
    /\ UNCHANGED <<pointersVars, tid_, pending_, action_memory_, num_threads_, mainVars,
                   heap, traceVars>>

TableStep(s) ==
    /\ Step(s)
    /\ UNCHANGED <<threadVars, mainVars, heap, traceVars>>

\* ClearPending, up to the unlock; end_thread was read before it.
ClearPending(s) ==
    /\ runner[s] = "clear"
    /\ pending_' = [pending_ EXCEPT ![s] = FALSE]
    /\ RunnerGoto(s, IF EndThread(action_memory_[s]) THEN "end_signal" ELSE "signal")
    /\ UNCHANGED <<pointersVars, tid_, action_memory_, num_threads_, mainVars, heap, traceVars>>

\* The signal of ClearPending; the thread then ends or waits again.
RunnerSignal(s) ==
    /\ runner[s] \in {"signal", "end_signal"}
    /\ mainWaits' = IF mainWaits = s THEN NoSlot ELSE mainWaits
    /\ RunnerGoto(s, IF runner[s] = "signal" THEN "wait" ELSE "exited")
    /\ UNCHANGED <<pointersVars, tid_, pending_, action_memory_, num_threads_, mpc, cur,
                   line, lines, i, threads, heap, traceVars>>

Runner(s) ==
    \/ WaitForPending(s)
    \/ Execute(s)
    \/ TableStep(s)
    \/ Removed(s)
    \/ Added(s)
    \/ ClearPending(s)
    \/ RunnerSignal(s)

-----------------------------------------------------------------------------
\* exit() and err() end every thread.
Ended == mpc \in {"done", "err"} \/ Failed

Terminated == Ended /\ UNCHANGED vars

ReplayNext ==
    \/ ~Ended /\ (Main \/ \E s \in Slots : Runner(s))
    \/ Terminated

\* The scheduler runs every thread that can run, and malloc returns.
ReplaySpec ==
    /\ ReplayInit
    /\ [][ReplayNext]_vars
    /\ WF_vars(~Ended /\ Main)
    /\ \A s \in Slots : WF_vars(~Ended /\ Runner(s))

-----------------------------------------------------------------------------
\* The threads that main.cpp drives keep the contract of Pointers.tla: no two
\* calls on one key overlap, a key is added when it is free and removed when
\* it is bound (the waits of main.cpp 117-123 and 133-138 are there for it).
KeepsContract == Spec

\* What a freeing action gets from the table is the memory that the last
\* allocation of its key returned, and that memory is still allocated
\* (Action.cpp 110-124 and 160-168).  A run that ends normally has freed
\* everything: "This allows us to run a tool like valgrind to verify that no
\* memory is leaked" (main.cpp 145-147).
FreedOnce ==
    /\ \A s \in Slots :
        runner[s] = "removing" /\ pc[s] = "idle" =>
            /\ result[s] = allocated[arg[s]]
            /\ result[s] \in heap
    /\ mpc = "done" => heap = {}

\* The one action slot of a thread is enough: no action is overwritten before
\* it ran and none runs twice.  When main is about to read a line, every line
\* before it was executed once or waits in the slot of its thread.  A tid has
\* one thread, which runs its lines in order, although Finish leaves holes in
\* the probe sequences and a search stops after num_threads_ used entries
\* (Threads.cpp 96-111).
EveryLineExecutedOnce ==
    /\ num_threads_ = Cardinality({s \in Slots : tid_[s] # NoTid})
    /\ \A s, r \in Slots : tid_[s] = tid_[r] /\ tid_[s] # NoTid => s = r
    /\ \A n \in 1 .. MaxLines : executed[n] <= 1
    /\ mpc = "read" =>
        \A n \in 1 .. lines :
            \/ executed[n] = 1
            \/ \E s \in Slots : pending_[s] /\ action_memory_[s].line = n

\* The replay ends, unless a thread could not be created: no wake-up is lost
\* although one condition variable serves both sides and is signalled after the
\* unlock (Thread.cpp 30-58).
Terminates == <>(Ended \/ \E s \in Slots : runner[s] = "failed")
=============================================================================
