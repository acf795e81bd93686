------------------------- MODULE ReplayThreadProofs ---------------------------
(***************************************************************************)
(* The invariant of the replay, for the proofs about Replay.tla: which     *)
(* slots hold work, what the threads are doing with it, and what main      *)
(* waits for.  Then: the steps of the threads keep ReplayInv, their calls  *)
(* keep the contract of the pointer table, and no wake-up is lost.         *)
(***************************************************************************)
EXTENDS Replay, TLAPS

Types == {"malloc", "realloc", "free", "thread_done"}

\* What main has put or may put in a slot.
Actions ==
    {a \in [type : Types, key : Keys \cup {0}, old : Keys \cup {0}, line : 0 .. MaxLines] :
        a.type \in {"malloc", "realloc"} => a.key \in Keys}

\* Runners that execute the action in their slot.
Executing == {"execute", "adding", "removing", "clear"}

\* Runners that have not begun the action in their slot.
Unstarted == {"wait", "blocked", "signal", "execute", "failed"}

\* Runners whose thread ends or does not exist.
Over == {"none", "end_signal", "exited"}

\* main has read a line whose action is not in its slot, or not triggered.
HasLine == {"wait_ready", "create_action", "quiesce", "set_pending"}

\* main deals with the thread of the line.
HasThread == HasLine \cup {"signal", "wait_done", "finish"}

\* main ends a thread.
Ending == {"finish_all_signal", "finish_all_join"}

ReplayTypeOK ==
    /\ tid_ \in [Slots -> Tids \cup {NoTid}]
    /\ pending_ \in [Slots -> BOOLEAN]
    /\ action_memory_ \in [Slots -> Actions]
    /\ runner \in [Slots -> Executing \cup Unstarted \cup Over]
    /\ num_threads_ \in Nat
    /\ mpc \in HasThread \cup Ending \cup {"read", "quiesce_end", "finish_all", "free_all", "done", "err"}
    /\ mainWaits \in Slots \cup {NoSlot}
    /\ cur \in Slots
    /\ mpc \in HasThread => line \in Lines
    /\ lines \in 0 .. MaxLines
    /\ mpc \in HasThread => lines > 0
    /\ i \in 0 .. max_threads
    /\ threads \in Nat
    /\ heap \subseteq Memory
    /\ live \subseteq Keys
    /\ added \subseteq Keys
    /\ allocated \in [Keys -> Memory \cup {NoMem}]
    /\ executed \in [1 .. MaxLines -> Nat]
    /\ arg \in [Slots -> Keys \cup {0}]
    /\ pc \in [Slots -> Adding \cup Removing \cup {"idle", "err"}]

Used == {s \in Slots : tid_[s] # NoTid}

\* The table of threads: Finish leaves no entry counted, no tid is twice in it.
ThreadsInv ==
    /\ num_threads_ = Cardinality(Used)
    /\ \A s, r \in Slots : tid_[s] = tid_[r] /\ tid_[s] # NoTid => s = r

Allocates(a) == a.type \in {"malloc", "realloc"}

FreedKey(a) == IF a.type = "realloc" THEN a.old ELSE a.key

\* What a runner does to the pointer table is what its action says.
RunnerOK(s) ==
    /\ runner[s] = "none" <=> tid_[s] = NoTid
    /\ runner[s] \in Executing => pending_[s]
    /\ runner[s] \in Over => ~pending_[s]
    /\ runner[s] \in {"end_signal", "exited"} => EndThread(action_memory_[s])
    /\ runner[s] = "adding" =>
        /\ pc[s] \in Adding \cup {"idle", "err"}
        /\ Allocates(action_memory_[s])
        /\ arg[s] = action_memory_[s].key
    /\ runner[s] = "removing" =>
        /\ pc[s] \in Removing \cup {"idle", "err"}
        /\ DoesFree(action_memory_[s])
        /\ arg[s] = FreedKey(action_memory_[s])
    /\ runner[s] \notin {"adding", "removing"} => pc[s] = "idle"

RunnersInv == \A s \in Slots : RunnerOK(s)

\* What is in the slot that main deals with.
SlotInv ==
    /\ mpc \in HasThread => tid_[cur] # NoTid
    /\ mpc \in HasLine \ {"wait_ready"} => ~pending_[cur]
    /\ mpc \in HasThread \ {"wait_ready", "create_action"} =>
        action_memory_[cur] = ActionOf(line, lines)
    /\ mpc \in {"quiesce", "wait_done"} => DoesFree(action_memory_[cur])
    /\ mpc = "finish" => EndThread(action_memory_[cur])
    /\ mpc \in Ending => /\ i < max_threads
                         /\ tid_[i] # NoTid
                         /\ action_memory_[i] = EndThreadAction

\* While a thread ends, main waits for it.
EndInv ==
    \A s \in Slots :
        (pending_[s] /\ EndThread(action_memory_[s])) \/ runner[s] \in {"end_signal", "exited"} =>
            \/ mpc \in {"signal", "finish"} /\ cur = s
            \/ mpc \in Ending /\ i = s

Quiet == \A r \in Slots : ~pending_[r]

\* What WaitForAllToQuiesce and FinishAll have done so far.
LoopInv ==
    /\ mpc \in {"quiesce", "quiesce_end"} =>
        /\ \A r \in Slots : r < i => ~pending_[r]
        /\ threads = Cardinality({r \in Slots : r < i /\ tid_[r] # NoTid})
    /\ mpc = "set_pending" /\ DoesFree(action_memory_[cur]) => Quiet
    /\ mpc = "finish_all" => Quiet
    /\ mpc \in Ending => \A r \in Slots : r # i => ~pending_[r]
    /\ mpc \in {"finish_all"} \cup Ending => \A r \in Slots : r < i => tid_[r] = NoTid
    /\ mpc \in {"free_all", "done"} => \A r \in Slots : tid_[r] = NoTid

\* An action that frees is alone: main waits for all others before and for
\* this one after it (main.cpp 117-123 and 133-138).
AloneInv ==
    \A s \in Slots :
        pending_[s] /\ DoesFree(action_memory_[s]) =>
            /\ mpc \in {"signal", "wait_done"}
            /\ cur = s
            /\ \A r \in Slots : r # s => ~pending_[r]

\* The action in the slot of s is still to be executed, to remove its old key,
\* to add its key.
ToRun(s) == pending_[s] /\ runner[s] \in Unstarted

ToRemove(s) == ToRun(s) /\ DoesFree(action_memory_[s])

ToAdd(s) ==
    /\ pending_[s]
    /\ runner[s] \in Unstarted \cup {"removing"}
    /\ Allocates(action_memory_[s])

ToBeRemoved == {FreedKey(action_memory_[s]) : s \in {s \in Slots : ToRemove(s)}}

ToBeAdded == {action_memory_[s].key : s \in {s \in Slots : ToAdd(s)}}

\* The keys that are bound once all triggered actions are executed.
WillBeBound == (added \ ToBeRemoved) \cup ToBeAdded

\* PossibleNext and LiveAfter for any set of keys.
PossibleFrom(L, l) ==
    CASE l.type = "malloc" -> l.key \notin L
      [] l.type = "realloc" -> /\ l.old = 0 \/ l.old \in L
                               /\ l.key \notin L \ {l.old}
      [] l.type = "free" -> l.key = 0 \/ l.key \in L
      [] l.type = "thread_done" -> TRUE

After(L, l) ==
    CASE l.type = "malloc" -> L \cup {l.key}
      [] l.type = "realloc" -> (L \ {l.old}) \cup {l.key}
      [] l.type = "free" -> L \ {l.key}
      [] l.type = "thread_done" -> L

\* The keys of the actions in the slots agree with the table and the dump.
KeysInv ==
    /\ \A s \in Slots : ToAdd(s) => action_memory_[s].key \notin added \ ToBeRemoved
    /\ \A s, r \in Slots :
        ToAdd(s) /\ ToAdd(r) /\ action_memory_[s].key = action_memory_[r].key => s = r
    /\ \A s \in Slots : ToRemove(s) => FreedKey(action_memory_[s]) \in added
    /\ \A s \in Slots : runner[s] = "adding" => arg[s] \in added
    /\ mpc \in HasLine => PossibleFrom(WillBeBound, line) /\ live = After(WillBeBound, line)
    /\ mpc \notin HasLine \cup {"err"} => live = WillBeBound

\* No line is executed twice; none that was triggered is forgotten.
LinesInv ==
    /\ \A s \in Slots :
        pending_[s] => /\ mpc \in HasLine => action_memory_[s].line < lines
                       /\ action_memory_[s].line <= lines
    /\ \A s, r \in Slots :
        /\ pending_[s] /\ pending_[r]
        /\ action_memory_[s].line = action_memory_[r].line
        /\ action_memory_[s].line # 0
        => s = r
    /\ \A s \in Slots :
        ToRun(s) /\ action_memory_[s].line # 0 => executed[action_memory_[s].line] = 0
    /\ \A n \in 1 .. MaxLines :
        /\ executed[n] <= 1
        /\ n > lines \/ (mpc \in HasLine /\ n = lines) => executed[n] = 0
        /\ n < lines \/ (mpc \notin HasLine \cup {"err"} /\ n = lines) =>
            \/ executed[n] = 1
            \/ \E s \in Slots : ToRun(s) /\ action_memory_[s].line = n

ReplayInv ==
    /\ ReplayTypeOK
    /\ ThreadsInv
    /\ RunnersInv
    /\ SlotInv
    /\ EndInv
    /\ LoopInv
    /\ AloneInv
    /\ KeysInv
    /\ LinesInv

\* No action is triggered, begins or reaches its Add in this step.
SameWork ==
    /\ UNCHANGED <<added, arg>>
    /\ \A s \in Slots :
        /\ pending_'[s] => pending_[s] /\ action_memory_'[s] = action_memory_[s]
        /\ ToRun(s) \/ ToAdd(s) => action_memory_'[s] = action_memory_[s]
        /\ ToRun(s)' <=> ToRun(s)
        /\ ToAdd(s)' <=> ToAdd(s)
        /\ runner'[s] = "adding" => runner[s] = "adding"

\* main stays on its side of the triggering of the line's action.
SameSide == mpc' = "err" \/ (mpc # "err" /\ (mpc' \in HasLine <=> mpc \in HasLine))

\* What the slots and the calls are made of.
slotVars == <<tid_, pending_, action_memory_, runner, num_threads_, added, arg, pc>>

\* main is between the unlock of SetPending and the signal after it.
AboutToSignal(s) ==
    \/ mpc = "signal" /\ cur = s
    \/ mpc = "finish_all_signal" /\ i = s

\* Who waits will be signalled: the entry that main waits on has an action to
\* clear or a runner that has cleared it and not signalled yet, and a runner
\* that sleeps on a triggered action has the signal of main ahead.
NoLostWakeUp ==
    \A s \in Slots :
        /\ mainWaits = s => pending_[s] \/ runner[s] \in {"signal", "end_signal"}
        /\ runner[s] = "blocked" /\ pending_[s] => AboutToSignal(s)

-----------------------------------------------------------------------------
(* Actions, and steps that leave the work in the slots as it is.           *)

\* A leaf is tried with SMT, then with Zenon, then with SMT for longer.
USE SMT, Zenon, SMTT(30)

\* No key is 0 and no tid is NoTid.
LEMMA ZeroIsNoKey == 0 \notin Keys /\ NoTid \notin Tids
BY Zenon, KeysAssumption, ReplayAssumption

\* What is in an action.
LEMMA ActionFields ==
    \A a \in Actions :
        /\ a.type \in Types
        /\ a.key \in Keys \cup {0}
        /\ a.old \in Keys \cup {0}
        /\ a.line \in 0 .. MaxLines
        /\ Allocates(a) => a.key \in Keys
        /\ DoesFree(a) => FreedKey(a) \in Keys
        /\ ~(EndThread(a) /\ Allocates(a)) /\ ~(EndThread(a) /\ DoesFree(a))
BY DEF Actions, Allocates, DoesFree, FreedKey, EndThread, Types

\* Such a step keeps the sets of keys to be added and removed.
LEMMA SameKeys ==
    ASSUME SameWork
    PROVE  /\ \A s \in Slots : ToRemove(s)' <=> ToRemove(s)
           /\ ToBeRemoved' = ToBeRemoved
           /\ ToBeAdded' = ToBeAdded
           /\ WillBeBound' = WillBeBound
<1>1. \A s \in Slots : ToRemove(s)' <=> ToRemove(s)
    BY DEF SameWork, ToRemove, DoesFree
<1>2. ToBeRemoved' = ToBeRemoved
    BY <1>1 DEF SameWork, ToBeRemoved, ToRemove, FreedKey
<1>3. ToBeAdded' = ToBeAdded
    BY DEF SameWork, ToBeAdded
<1> QED BY <1>1, <1>2, <1>3 DEF SameWork, WillBeBound

\* It keeps what is known of the keys.
LEMMA SameWorkKeepsKeys ==
    ASSUME KeysInv, SameWork, SameSide, UNCHANGED <<live, line>>
    PROVE  KeysInv'
<1> USE SameKeys
<1>1. \A s \in Slots : ToAdd(s)' => action_memory_'[s].key \notin added' \ ToBeRemoved'
    BY DEF KeysInv, SameWork
<1>2. \A s, r \in Slots :
        ToAdd(s)' /\ ToAdd(r)' /\ action_memory_'[s].key = action_memory_'[r].key => s = r
    BY DEF KeysInv, SameWork
<1>3. \A s \in Slots : ToRemove(s)' => FreedKey(action_memory_[s])' \in added'
    BY DEF KeysInv, SameWork, ToRemove, FreedKey
<1>4. \A s \in Slots : runner'[s] = "adding" => arg'[s] \in added'
    BY DEF KeysInv, SameWork
<1>5. /\ mpc' \in HasLine => mpc \in HasLine
      /\ mpc' \notin HasLine \cup {"err"} => mpc \notin HasLine \cup {"err"}
    BY DEF SameSide, HasLine
<1>6. /\ mpc' \in HasLine => PossibleFrom(WillBeBound, line)' /\ live' = After(WillBeBound, line)'
      /\ mpc' \notin HasLine \cup {"err"} => live' = WillBeBound'
    BY Zenon, <1>5 DEF KeysInv, PossibleFrom, After
<1> QED BY <1>1, <1>2, <1>3, <1>4, <1>6 DEF KeysInv

\* It keeps what is known of the lines.
LEMMA SameWorkKeepsLines ==
    ASSUME LinesInv, SameWork, SameSide, UNCHANGED <<lines, executed>>
    PROVE  LinesInv'
<1>1. /\ mpc' \in HasLine => mpc \in HasLine
      /\ mpc' \notin HasLine \cup {"err"} => mpc \notin HasLine \cup {"err"}
    BY DEF SameSide, HasLine
<1>2. \A s \in Slots :
        pending_'[s] => /\ mpc' \in HasLine => action_memory_'[s].line < lines'
                        /\ action_memory_'[s].line <= lines'
    BY <1>1 DEF LinesInv, SameWork
<1>3. \A s, r \in Slots :
        /\ pending_'[s] /\ pending_'[r]
        /\ action_memory_'[s].line = action_memory_'[r].line
        /\ action_memory_'[s].line # 0
        => s = r
    BY DEF LinesInv, SameWork
<1>4. \A s \in Slots :
        ToRun(s)' /\ action_memory_'[s].line # 0 => executed'[action_memory_'[s].line] = 0
    BY SMTT(30) DEF LinesInv, SameWork
<1>5. \A n \in 1 .. MaxLines :
        /\ executed'[n] <= 1
        /\ n > lines' \/ (mpc' \in HasLine /\ n = lines') => executed'[n] = 0
    BY <1>1 DEF LinesInv
<1>6. \A n \in 1 .. MaxLines :
        n < lines' \/ (mpc' \notin HasLine \cup {"err"} /\ n = lines') =>
            \/ executed'[n] = 1
            \/ \E s \in Slots : ToRun(s)' /\ action_memory_'[s].line = n
    BY <1>1 DEF LinesInv, SameWork
<1> QED BY <1>2, <1>3, <1>4, <1>5, <1>6 DEF LinesInv

-----------------------------------------------------------------------------
(* Steps that call nothing.                                                *)

\* A runner that triggers nothing leaves main's view of the slots true.
LEMMA RunnerMoves ==
    ASSUME ReplayInv,
           UNCHANGED <<tid_, num_threads_, action_memory_, mpc, cur, line, lines, i, threads>>,
           \A r \in Slots : pending_'[r] => pending_[r]
    PROVE  ThreadsInv' /\ SlotInv' /\ LoopInv' /\ AloneInv'
<1>1. ThreadsInv'
    BY DEF ReplayInv, ThreadsInv, Used
<1>2. SlotInv'
    <2>1. cur \in Slots
        BY DEF ReplayInv, ReplayTypeOK
    <2> QED BY <2>1 DEF ReplayInv, SlotInv, DoesFree, EndThread
<1>3. LoopInv'
    BY DEF ReplayInv, LoopInv, Quiet, DoesFree
<1>4. AloneInv'
    BY DEF ReplayInv, AloneInv, DoesFree
<1> QED BY <1>1, <1>2, <1>3, <1>4

\* A runner that a step of another thread leaves alone.
LEMMA RunnerKept ==
    ASSUME NEW r \in Slots, RunnerOK(r),
           tid_'[r] = tid_[r], pending_'[r] = pending_[r], action_memory_'[r] = action_memory_[r],
           runner'[r] = runner[r], pc'[r] = pc[r], arg'[r] = arg[r]
    PROVE  RunnerOK(r)'
BY DEF RunnerOK, Allocates, DoesFree, FreedKey, EndThread

\* A runner looks at its slot.
LEMMA WaitForPendingKeeps ==
    ASSUME ReplayInv, NEW s \in Slots, WaitForPending(s)
    PROVE  ReplayInv'
<1>1. /\ runner[s] = "wait"
      /\ runner' = [runner EXCEPT ![s] = IF pending_[s] THEN "execute" ELSE "blocked"]
      /\ UNCHANGED <<tid_, pending_, action_memory_, num_threads_, added, arg, pc, mpc, mainWaits,
                     cur, line, lines, i, threads, heap, live, allocated, executed>>
    BY DEF WaitForPending, RunnerGoto, pointersVars, callVars, historyVars, mainVars, traceVars
<1>2. /\ runner'[s] \in {"execute", "blocked"} /\ (runner'[s] = "execute" => pending_[s])
      /\ \A r \in Slots : r # s => runner'[r] = runner[r]
      /\ runner' \in [Slots -> Executing \cup Unstarted \cup Over]
    BY <1>1 DEF ReplayInv, ReplayTypeOK, Executing, Unstarted
<1>3. ReplayTypeOK'
    BY <1>1, <1>2 DEF ReplayInv, ReplayTypeOK
<1>4. ThreadsInv' /\ SlotInv' /\ LoopInv' /\ AloneInv'
    BY <1>1, RunnerMoves
<1>5. RunnersInv'
    BY SMTT(30), <1>1, <1>2 DEF ReplayInv, RunnersInv, RunnerOK, Executing, Over, Allocates, DoesFree, FreedKey, EndThread
<1>6. EndInv'
    BY <1>1, <1>2 DEF ReplayInv, EndInv, EndThread
<1>7. KeysInv' /\ LinesInv'
    <2>1. SameWork
        BY <1>1, <1>2 DEF SameWork, ToRun, ToAdd, Allocates, Unstarted
    <2>2. SameSide
        BY <1>1 DEF SameSide
    <2> QED BY <1>1, <2>1, <2>2, SameWorkKeepsKeys, SameWorkKeepsLines DEF ReplayInv
<1> QED BY <1>3, <1>4, <1>5, <1>6, <1>7 DEF ReplayInv

\* Add has returned.
LEMMA AddedKeeps ==
    ASSUME ReplayInv, NEW s \in Slots, Added(s)
    PROVE  ReplayInv'
<1>1. /\ runner[s] = "adding" /\ pc[s] = "idle"
      /\ runner' = [runner EXCEPT ![s] = "clear"]
      /\ UNCHANGED <<tid_, pending_, action_memory_, num_threads_, added, arg, pc, mpc, mainWaits,
                     cur, line, lines, i, threads, heap, live, allocated, executed>>
    BY DEF Added, RunnerGoto, pointersVars, callVars, historyVars, mainVars, traceVars
<1>2. /\ runner'[s] = "clear"
      /\ \A r \in Slots : r # s => runner'[r] = runner[r]
      /\ runner' \in [Slots -> Executing \cup Unstarted \cup Over]
    BY <1>1 DEF ReplayInv, ReplayTypeOK, Executing
<1>3. ReplayTypeOK'
    BY <1>1, <1>2 DEF ReplayInv, ReplayTypeOK
<1>4. ThreadsInv' /\ SlotInv' /\ LoopInv' /\ AloneInv'
    BY <1>1, RunnerMoves
<1>5. RunnersInv'
    BY SMTT(30), <1>1, <1>2 DEF ReplayInv, RunnersInv, RunnerOK, Executing, Over, Allocates, DoesFree, FreedKey, EndThread
<1>6. EndInv'
    BY <1>1, <1>2 DEF ReplayInv, EndInv, EndThread
<1>7. KeysInv' /\ LinesInv'
    <2>1. SameWork
        BY <1>1, <1>2 DEF SameWork, ToRun, ToAdd, Allocates, Unstarted
    <2>2. SameSide
        BY <1>1 DEF SameSide
    <2> QED BY <1>1, <2>1, <2>2, SameWorkKeepsKeys, SameWorkKeepsLines DEF ReplayInv
<1> QED BY <1>3, <1>4, <1>5, <1>6, <1>7 DEF ReplayInv

\* The slot is free again.
LEMMA ClearPendingKeeps ==
    ASSUME ReplayInv, NEW s \in Slots, ClearPending(s)
    PROVE  ReplayInv'
<1>1. /\ runner[s] = "clear"
      /\ pending_' = [pending_ EXCEPT ![s] = FALSE]
      /\ runner' = [runner EXCEPT ![s] = IF EndThread(action_memory_[s]) THEN "end_signal" ELSE "signal"]
      /\ UNCHANGED <<tid_, action_memory_, num_threads_, added, arg, pc, mpc, mainWaits,
                     cur, line, lines, i, threads, heap, live, allocated, executed>>
    BY DEF ClearPending, RunnerGoto, pointersVars, callVars, historyVars, mainVars, traceVars
<1>2. /\ runner'[s] \in {"end_signal", "signal"} /\ ~pending_'[s]
      /\ runner'[s] = "end_signal" => EndThread(action_memory_[s])
      /\ \A r \in Slots : r # s => runner'[r] = runner[r] /\ pending_'[r] = pending_[r]
      /\ runner' \in [Slots -> Executing \cup Unstarted \cup Over]
      /\ pending_' \in [Slots -> BOOLEAN]
      /\ pending_[s]
    BY <1>1 DEF ReplayInv, ReplayTypeOK, RunnersInv, RunnerOK, Executing, Unstarted, Over
<1>3. ReplayTypeOK'
    BY <1>1, <1>2 DEF ReplayInv, ReplayTypeOK
<1>4. ThreadsInv' /\ SlotInv' /\ LoopInv' /\ AloneInv'
    BY <1>1, <1>2, RunnerMoves
<1>5. RunnersInv'
    BY SMTT(30), <1>1, <1>2 DEF ReplayInv, RunnersInv, RunnerOK, Executing, Over, Allocates, DoesFree, FreedKey, EndThread
<1>6. EndInv'
    BY <1>1, <1>2 DEF ReplayInv, EndInv, EndThread
<1>7. KeysInv' /\ LinesInv'
    <2>1. SameWork
        BY <1>1, <1>2 DEF SameWork, ToRun, ToAdd, Allocates, Unstarted
    <2>2. SameSide
        BY <1>1 DEF SameSide
    <2> QED BY <1>1, <2>1, <2>2, SameWorkKeepsKeys, SameWorkKeepsLines DEF ReplayInv
<1> QED BY <1>3, <1>4, <1>5, <1>6, <1>7 DEF ReplayInv

\* The runner signals and waits again, or ends.
LEMMA RunnerSignalKeeps ==
    ASSUME ReplayInv, NEW s \in Slots, RunnerSignal(s)
    PROVE  ReplayInv'
<1>1. /\ \/ runner[s] = "signal" /\ runner' = [runner EXCEPT ![s] = "wait"]
         \/ runner[s] = "end_signal" /\ runner' = [runner EXCEPT ![s] = "exited"]
      /\ mainWaits' = IF mainWaits = s THEN NoSlot ELSE mainWaits
      /\ UNCHANGED <<tid_, pending_, action_memory_, num_threads_, added, arg, pc, mpc,
                     cur, line, lines, i, threads, heap, live, allocated, executed>>
    BY Zenon DEF RunnerSignal, RunnerGoto, pointersVars, callVars, historyVars, traceVars
<1>2. /\ \/ runner[s] = "signal" /\ runner'[s] = "wait"
         \/ runner[s] = "end_signal" /\ runner'[s] = "exited"
      /\ \A r \in Slots : r # s => runner'[r] = runner[r]
      /\ runner' \in [Slots -> Executing \cup Unstarted \cup Over]
    BY <1>1 DEF ReplayInv, ReplayTypeOK, Unstarted, Over
<1>3. ReplayTypeOK'
    BY <1>1, <1>2 DEF ReplayInv, ReplayTypeOK
<1>4. ThreadsInv' /\ SlotInv' /\ LoopInv' /\ AloneInv'
    BY <1>1, RunnerMoves
<1>5. RunnersInv'
    BY SMTT(30), <1>1, <1>2 DEF ReplayInv, RunnersInv, RunnerOK, Executing, Over, Allocates, DoesFree, FreedKey, EndThread
<1>6. EndInv'
    BY <1>1, <1>2 DEF ReplayInv, EndInv, EndThread
<1>7. KeysInv' /\ LinesInv'
    <2>1. SameWork
        BY <1>1, <1>2 DEF SameWork, ToRun, ToAdd, Allocates, Unstarted
    <2>2. SameSide
        BY <1>1 DEF SameSide
    <2> QED BY <1>1, <2>1, <2>2, SameWorkKeepsKeys, SameWorkKeepsLines DEF ReplayInv
<1> QED BY <1>3, <1>4, <1>5, <1>6, <1>7 DEF ReplayInv

\* A call in progress only moves its own caller on, to the end of the call.
LEMMA StepShape ==
    ASSUME ReplayTypeOK, NEW s \in Slots, Step(s)
    PROVE  /\ UNCHANGED <<added, arg>>
           /\ pc[s] \in Adding \cup Removing
           /\ \A r \in Slots : r # s => pc'[r] = pc[r]
           /\ pc[s] \in Adding => pc'[s] \in Adding \cup {"idle", "err"}
           /\ pc[s] \in Removing => pc'[s] \in Removing \cup {"idle", "err"}
           /\ pc' \in [Slots -> Adding \cup Removing \cup {"idle", "err"}]
<1> USE DEF Goto, historyVars, tableVars, Adding, Removing, ReplayTypeOK
<1>1. CASE FindEmpty(s)
    BY <1>1 DEF FindEmpty, FindEmptyClaimed, FindEmptyOccupied, ProbeNext
<1>2. CASE StoreKey(s)
    BY <1>2 DEF StoreKey
<1>3. CASE StorePointer(s)
    BY <1>3 DEF StorePointer
<1>4. CASE Find(s)
    BY <1>4 DEF Find, FindHit, FindMiss, ProbeNext
<1>5. CASE LoadPointer(s)
    BY <1>5 DEF LoadPointer
<1>6. CASE ClearKey(s)
    BY <1>6 DEF ClearKey
<1> QED BY <1>1, <1>2, <1>3, <1>4, <1>5, <1>6 DEF Step

\* A call in progress goes on.
LEMMA TableStepKeeps ==
    ASSUME ReplayInv, NEW s \in Slots, TableStep(s)
    PROVE  ReplayInv'
<1>1. /\ Step(s)
      /\ UNCHANGED <<tid_, pending_, action_memory_, runner, num_threads_, mpc, mainWaits,
                     cur, line, lines, i, threads, heap, live, allocated, executed>>
    BY DEF TableStep, threadVars, mainVars, traceVars
<1>2. /\ UNCHANGED <<added, arg>>
      /\ pc[s] \in Adding \cup Removing
      /\ \A r \in Slots : r # s => pc'[r] = pc[r]
      /\ pc[s] \in Adding => pc'[s] \in Adding \cup {"idle", "err"}
      /\ pc[s] \in Removing => pc'[s] \in Removing \cup {"idle", "err"}
      /\ pc' \in [Slots -> Adding \cup Removing \cup {"idle", "err"}]
    BY <1>1, StepShape DEF ReplayInv
<1>3. ReplayTypeOK'
    BY <1>1, <1>2 DEF ReplayInv, ReplayTypeOK
<1>4. ThreadsInv' /\ SlotInv' /\ LoopInv' /\ AloneInv'
    BY <1>1, RunnerMoves
<1>5. RunnersInv'
    <2>1. runner[s] \in {"adding", "removing"}
        BY Zenon, <1>2 DEF ReplayInv, RunnersInv, RunnerOK, Adding, Removing
    <2>2. /\ runner[s] = "adding" => pc'[s] \in Adding \cup {"idle", "err"}
          /\ runner[s] = "removing" => pc'[s] \in Removing \cup {"idle", "err"}
        BY <1>2 DEF ReplayInv, RunnersInv, RunnerOK, Adding, Removing
    <2> QED BY SMTT(30), <1>1, <1>2, <2>1, <2>2
            DEF ReplayInv, RunnersInv, RunnerOK, Allocates, DoesFree, FreedKey, EndThread
<1>6. EndInv'
    BY Zenon, <1>1 DEF ReplayInv, EndInv, EndThread
<1>7. KeysInv' /\ LinesInv'
    <2>1. SameWork
        BY <1>1, <1>2 DEF SameWork, ToRun, ToAdd, Allocates
    <2>2. SameSide
        BY <1>1 DEF SameSide
    <2> QED BY <1>1, <2>1, <2>2, SameWorkKeepsKeys, SameWorkKeepsLines DEF ReplayInv
<1> QED BY <1>3, <1>4, <1>5, <1>6, <1>7 DEF ReplayInv

-----------------------------------------------------------------------------
(* The contract of the pointer table.                                      *)

\* While an action that frees is pending, no other thread is in the table.
LEMMA OthersAreIdle ==
    ASSUME ReplayInv, NEW s \in Slots, pending_[s], DoesFree(action_memory_[s]),
           NEW r \in Slots, r # s
    PROVE  pc[r] = "idle" /\ ~pending_[r] /\ runner[r] \notin Executing
<1>1. ~pending_[r]
    BY DEF ReplayInv, AloneInv
<1> QED BY <1>1 DEF ReplayInv, RunnersInv, RunnerOK, Executing

\* The key of an allocation is free when its thread calls Add.
LEMMA AllocationMayAdd ==
    ASSUME ReplayInv, NEW s \in Slots, runner[s] = "execute",
           Allocates(action_memory_[s]), ~DoesFree(action_memory_[s])
    PROVE  /\ MayAdd(action_memory_[s].key)
           /\ \A r \in Slots : ~ToRemove(r)
<1>1. pending_[s] /\ ToAdd(s) /\ Callers = Slots
    BY ReplayAssumption DEF ReplayInv, RunnersInv, RunnerOK, Executing, Unstarted, ToAdd
<1>2. \A r \in Slots : ~(pending_[r] /\ DoesFree(action_memory_[r]))
    BY <1>1 DEF ReplayInv, AloneInv
<1>3. \A r \in Slots : ~ToRemove(r)
    BY <1>2 DEF ToRemove, ToRun
<1>4. ToBeRemoved = {}
    BY <1>3 DEF ToBeRemoved
<1>5. action_memory_[s].key \notin added
    BY <1>1, <1>4 DEF ReplayInv, KeysInv
<1>6. \A r \in Slots : runner[r] # "removing"
    BY <1>2 DEF ReplayInv, RunnersInv, RunnerOK, Executing
<1>7. \A r \in Slots : pc[r] \in Adding \cup Removing => runner[r] = "adding"
    BY <1>6 DEF ReplayInv, RunnersInv, RunnerOK, Adding, Removing
<1>8. \A r \in Slots : pc[r] \in Adding \cup Removing => arg[r] \in added
    BY <1>7 DEF ReplayInv, KeysInv
<1>9. ~InUse(action_memory_[s].key)
    BY <1>1, <1>5, <1>8 DEF InUse
<1> QED BY <1>3, <1>5, <1>9 DEF MayAdd

\* The key that is freed is bound when its thread calls Remove.
LEMMA FreeMayRemove ==
    ASSUME ReplayInv, NEW s \in Slots, runner[s] = "execute", DoesFree(action_memory_[s])
    PROVE  MayRemove(FreedKey(action_memory_[s]))
<1>1. pending_[s] /\ ToRemove(s) /\ Callers = Slots
    BY ReplayAssumption DEF ReplayInv, RunnersInv, RunnerOK, Executing, Unstarted, ToRemove, ToRun
<1>2. FreedKey(action_memory_[s]) \in added
    BY <1>1 DEF ReplayInv, KeysInv
<1>3. pc[s] = "idle"
    BY DEF ReplayInv, RunnersInv, RunnerOK
<1>4. \A r \in Slots : pc[r] = "idle"
    BY <1>1, <1>3, OthersAreIdle
<1>5. ~InUse(FreedKey(action_memory_[s]))
    BY <1>1, <1>4 DEF InUse, Adding, Removing
<1> QED BY <1>2, <1>5 DEF MayRemove

\* The new key of a realloc is free once the old one was removed.
LEMMA ReallocMayAdd ==
    ASSUME ReplayInv, NEW s \in Slots, runner[s] = "removing", pc[s] = "idle",
           action_memory_[s].type = "realloc"
    PROVE  /\ MayAdd(action_memory_[s].key)
           /\ \A r \in Slots : ~ToRemove(r)
           /\ \A r \in Slots : r # s => ~pending_[r]
           /\ ToAdd(s)
<1>1. pending_[s] /\ ToAdd(s) /\ DoesFree(action_memory_[s]) /\ Callers = Slots
    BY ReplayAssumption DEF ReplayInv, RunnersInv, RunnerOK, Executing, Unstarted, ToAdd, Allocates
<1>2. \A r \in Slots : r # s => ~pending_[r] /\ pc[r] = "idle"
    BY <1>1, OthersAreIdle
<1>3. \A r \in Slots : ~ToRemove(r)
    BY <1>2 DEF ToRemove, ToRun, Unstarted
<1>4. ToBeRemoved = {}
    BY <1>3 DEF ToBeRemoved
<1>5. action_memory_[s].key \notin added
    BY <1>1, <1>4 DEF ReplayInv, KeysInv
<1>6. ~InUse(action_memory_[s].key)
    BY <1>1, <1>2 DEF InUse, Adding, Removing
<1> QED BY <1>1, <1>2, <1>3, <1>5, <1>6 DEF MayAdd

\* What a call to Add or Remove starts with.
LEMMA StartShape ==
    ASSUME ReplayTypeOK, NEW s \in Slots, NEW k \in Keys,
           \/ \E m \in Memory : Add(s, k, m)
           \/ Remove(s, k)
    PROVE  /\ arg' \in [Slots -> Keys \cup {0}] /\ arg'[s] = k
           /\ pc' \in [Slots -> Adding \cup Removing \cup {"idle", "err"}]
           /\ \A r \in Slots : r # s => pc'[r] = pc[r] /\ arg'[r] = arg[r]
BY DEF Add, Remove, StartProbe, Goto, ReplayTypeOK, Adding, Removing

\* A slot's action is begun: it is no longer to be run, and counts as executed.
LEMMA BegunKeepsLines ==
    ASSUME ReplayInv, NEW s \in Slots, runner[s] = "execute",
           runner'[s] \in {"adding", "removing", "clear"},
           \A r \in Slots : r # s => runner'[r] = runner[r],
           UNCHANGED <<pending_, action_memory_, lines, mpc>>,
           executed' = IF action_memory_[s].line = 0 THEN executed
                       ELSE [executed EXCEPT ![action_memory_[s].line] = @ + 1]
    PROVE  LinesInv' /\ executed' \in [1 .. MaxLines -> Nat]
<1> DEFINE n0 == action_memory_[s].line
<1>1. /\ pending_[s] /\ ToRun(s) /\ n0 \in 0 .. MaxLines
      /\ executed \in [1 .. MaxLines -> Nat] /\ MaxLines \in Nat
      /\ lines \in Nat
    BY SMTT(30), ActionFields, ReplayAssumption, SizeAssumption
    DEF ReplayInv, ReplayTypeOK, RunnersInv, RunnerOK, Executing, Unstarted, ToRun
<1>2. \A r \in Slots : ToRun(r)' <=> ToRun(r) /\ r # s
    BY DEF ToRun, Unstarted
<1>3. n0 # 0 => n0 \in 1 .. MaxLines /\ executed[n0] = 0
    BY SMTT(30), <1>1 DEF ReplayInv, LinesInv
<1> HIDE DEF n0
<1>4. /\ executed' \in [1 .. MaxLines -> Nat]
      /\ n0 # 0 => executed'[n0] = 1
      /\ \A n \in 1 .. MaxLines : n # n0 => executed'[n] = executed[n]
    BY SMTT(30), <1>1, <1>3 DEF n0
<1>5. /\ n0 <= lines
      /\ mpc \in HasLine => n0 < lines
    BY <1>1 DEF ReplayInv, LinesInv, n0
<1>6. \A r \in Slots :
        pending_'[r] => /\ mpc' \in HasLine => action_memory_'[r].line < lines'
                        /\ action_memory_'[r].line <= lines'
    BY DEF ReplayInv, LinesInv
<1>7. \A q, r \in Slots :
        /\ pending_'[q] /\ pending_'[r]
        /\ action_memory_'[q].line = action_memory_'[r].line
        /\ action_memory_'[q].line # 0
        => q = r
    BY DEF ReplayInv, LinesInv
<1>8. ASSUME NEW r \in Slots, ToRun(r)', action_memory_'[r].line # 0
      PROVE  executed'[action_memory_'[r].line] = 0
    <2>1. ToRun(r) /\ r # s /\ action_memory_[r].line # 0 /\ pending_[r]
        BY <1>2, <1>8 DEF ToRun
    <2>2. action_memory_[r].line # n0 /\ executed[action_memory_[r].line] = 0
        BY <1>1, <2>1 DEF ReplayInv, LinesInv, n0
    <2>3. action_memory_[r].line \in 1 .. MaxLines
        BY <2>1, ActionFields DEF ReplayInv, ReplayTypeOK
    <2> QED BY <1>4, <2>2, <2>3
<1>9. ASSUME NEW n \in 1 .. MaxLines
      PROVE  /\ executed'[n] <= 1
             /\ n > lines' \/ (mpc' \in HasLine /\ n = lines') => executed'[n] = 0
             /\ n < lines' \/ (mpc' \notin HasLine \cup {"err"} /\ n = lines') =>
                  \/ executed'[n] = 1
                  \/ \E r \in Slots : ToRun(r)' /\ action_memory_'[r].line = n
    <2>1. CASE n = n0
        <3>1. executed'[n] = 1 /\ ~(n > lines') /\ ~(mpc' \in HasLine /\ n = lines')
            BY <1>1, <1>4, <1>5, <2>1
        <3> QED BY SMTT(30), <3>1
    <2>2. CASE n # n0
        <3>1. executed'[n] = executed[n]
            BY <1>4, <2>2
        <3>2. \A r \in Slots : ToRun(r) /\ action_memory_[r].line = n => ToRun(r)'
            BY <1>2, <2>2 DEF n0
        <3> QED BY <3>1, <3>2 DEF ReplayInv, LinesInv
    <2> QED BY <2>1, <2>2
<1> QED BY <1>4, <1>6, <1>7, <1>8, <1>9 DEF LinesInv

\* A key moves from those to be added to those added.
LEMMA AddKeepsKeys ==
    ASSUME ReplayInv, NEW s \in Slots, ToAdd(s), Allocates(action_memory_[s]),
           \A r \in Slots : ~ToRemove(r),
           action_memory_[s].key \notin added,
           runner'[s] = "adding", arg'[s] = action_memory_[s].key,
           added' = added \cup {action_memory_[s].key},
           \A r \in Slots : r # s => runner'[r] = runner[r] /\ arg'[r] = arg[r],
           UNCHANGED <<pending_, action_memory_, live, line, mpc>>
    PROVE  KeysInv'
<1> DEFINE k == action_memory_[s].key
<1>1. \A r \in Slots : /\ ToAdd(r)' <=> ToAdd(r) /\ r # s
                       /\ ~ToRemove(r)'
    BY DEF ToAdd, ToRemove, ToRun, Unstarted, Allocates, DoesFree
<1>2. ToBeRemoved = {} /\ ToBeRemoved' = {}
    BY <1>1 DEF ToBeRemoved
<1>3. ToBeAdded = ToBeAdded' \cup {k}
    BY <1>1 DEF ToBeAdded
<1>4. WillBeBound' = WillBeBound
    BY <1>2, <1>3 DEF WillBeBound
<1>5. \A r \in Slots : ToAdd(r)' => action_memory_'[r].key \notin added' \ ToBeRemoved'
    BY <1>1, <1>2 DEF ReplayInv, KeysInv
<1>6. \A q, r \in Slots :
        ToAdd(q)' /\ ToAdd(r)' /\ action_memory_'[q].key = action_memory_'[r].key => q = r
    BY <1>1 DEF ReplayInv, KeysInv
<1>7. \A r \in Slots : runner'[r] = "adding" => arg'[r] \in added'
    BY DEF ReplayInv, KeysInv
<1>8. /\ mpc' \in HasLine => PossibleFrom(WillBeBound, line)' /\ live' = After(WillBeBound, line)'
      /\ mpc' \notin HasLine \cup {"err"} => live' = WillBeBound'
    BY Zenon, <1>4 DEF ReplayInv, KeysInv, PossibleFrom, After
<1> QED BY <1>1, <1>5, <1>6, <1>7, <1>8 DEF KeysInv

\* An action begins.
LEMMA ExecuteKeeps ==
    ASSUME ReplayInv, NEW s \in Slots, Execute(s)
    PROVE  ReplayInv'
<1> DEFINE a == action_memory_[s]
<1>1. /\ runner[s] = "execute"
      /\ executed' = IF a.line = 0 THEN executed ELSE [executed EXCEPT ![a.line] = @ + 1]
      /\ UNCHANGED <<tid_, pending_, action_memory_, num_threads_, mpc, mainWaits, cur, line,
                     lines, i, threads, live>>
    BY DEF Execute, mainVars
<1>2. /\ pending_[s] /\ a \in Actions /\ a.type \in Types /\ pc[s] = "idle"
      /\ Allocates(a) => a.key \in Keys
      /\ DoesFree(a) => FreedKey(a) \in Keys
      /\ ~(EndThread(a) /\ Allocates(a)) /\ ~(EndThread(a) /\ DoesFree(a))
    BY <1>1, ActionFields DEF ReplayInv, RunnersInv, RunnerOK, ReplayTypeOK, Executing
<1>3. ThreadsInv' /\ SlotInv' /\ LoopInv' /\ AloneInv'
    BY <1>1, RunnerMoves
<1>4. \/ /\ Allocates(a) /\ ~DoesFree(a)
         /\ \E m \in Memory : /\ Add(s, a.key, m)
                              /\ heap' = heap \cup {m}
                              /\ allocated' = [allocated EXCEPT ![a.key] = m]
         /\ runner' = [runner EXCEPT ![s] = "adding"]
      \/ /\ DoesFree(a) /\ Remove(s, FreedKey(a))
         /\ runner' = [runner EXCEPT ![s] = "removing"]
         /\ UNCHANGED <<heap, allocated>>
      \/ /\ ~Allocates(a) /\ ~DoesFree(a)
         /\ runner' = [runner EXCEPT ![s] = "clear"]
         /\ UNCHANGED <<added, arg, pc, heap, allocated>>
    BY DEF Execute, AddMemory, RunnerGoto, Allocates, DoesFree, FreedKey, EndThread,
           pointersVars, callVars, historyVars
<1> HIDE DEF a
<1>5. /\ \A r \in Slots : r # s => runner'[r] = runner[r]
      /\ runner' \in [Slots -> Executing \cup Unstarted \cup Over]
      /\ runner'[s] \in {"adding", "removing", "clear"}
    BY <1>4 DEF ReplayInv, ReplayTypeOK, Executing
<1>6. LinesInv' /\ executed' \in [1 .. MaxLines -> Nat]
    BY <1>1, <1>5, BegunKeepsLines DEF a
<1>7. EndInv'
    BY <1>1, <1>5 DEF ReplayInv, EndInv, EndThread
<1>8. a = action_memory_[s]
    BY DEF a
<1>9. CASE /\ Allocates(a) /\ ~DoesFree(a)
           /\ \E m \in Memory : /\ Add(s, a.key, m)
                                /\ heap' = heap \cup {m}
                                /\ allocated' = [allocated EXCEPT ![a.key] = m]
           /\ runner' = [runner EXCEPT ![s] = "adding"]
    <2>1. /\ added' = added \cup {a.key} /\ heap' \subseteq Memory
          /\ allocated' \in [Keys -> Memory \cup {NoMem}]
          /\ pc' = [pc EXCEPT ![s] = "find_empty"]
        BY <1>2, <1>9 DEF Add, StartProbe, Goto, ReplayInv, ReplayTypeOK
    <2>2. /\ arg' \in [Slots -> Keys \cup {0}] /\ arg'[s] = a.key
          /\ pc' \in [Slots -> Adding \cup Removing \cup {"idle", "err"}]
          /\ \A r \in Slots : r # s => pc'[r] = pc[r] /\ arg'[r] = arg[r]
        BY <1>2, <1>9, StartShape DEF ReplayInv
    <2>3. runner'[s] = "adding" /\ pc'[s] = "find_empty"
        BY <1>9, <2>1 DEF ReplayInv, ReplayTypeOK
    <2>4. a.key \notin added /\ (\A r \in Slots : ~ToRemove(r)) /\ ToAdd(s)
        BY <1>1, <1>2, <1>8, <1>9, AllocationMayAdd DEF MayAdd, ToAdd, Unstarted
    <2>5. ReplayTypeOK'
        BY <1>1, <1>2, <1>5, <1>6, <1>9, <2>1, <2>2 DEF ReplayInv, ReplayTypeOK
    <2>6. RunnersInv'
        <3>1. RunnerOK(s)'
            BY <1>1, <1>2, <1>8, <1>9, <2>2, <2>3
            DEF ReplayInv, RunnersInv, RunnerOK, Executing, Over, Adding, Allocates
        <3>2. \A r \in Slots : r # s => RunnerOK(r)'
            BY <1>1, <1>5, <2>2, RunnerKept DEF ReplayInv, RunnersInv
        <3> QED BY <3>1, <3>2 DEF RunnersInv
    <2>7. KeysInv'
        BY Zenon, <1>1, <1>5, <1>8, <1>9, <2>1, <2>2, <2>3, <2>4, AddKeepsKeys
    <2> QED BY <1>3, <1>6, <1>7, <2>5, <2>6, <2>7 DEF ReplayInv
<1>10. CASE /\ DoesFree(a) /\ Remove(s, FreedKey(a))
            /\ runner' = [runner EXCEPT ![s] = "removing"]
            /\ UNCHANGED <<heap, allocated>>
    <2>1. /\ added' = added \ {FreedKey(a)}
          /\ pc' = [pc EXCEPT ![s] = "find"]
        BY <1>10 DEF Remove, StartProbe, Goto
    <2>2. /\ arg' \in [Slots -> Keys \cup {0}] /\ arg'[s] = FreedKey(a)
          /\ pc' \in [Slots -> Adding \cup Removing \cup {"idle", "err"}]
          /\ \A r \in Slots : r # s => pc'[r] = pc[r] /\ arg'[r] = arg[r]
        BY <1>2, <1>10, StartShape DEF ReplayInv
    <2>3. runner'[s] = "removing" /\ pc'[s] = "find"
        BY <1>10, <2>1 DEF ReplayInv, ReplayTypeOK
    <2>4. ReplayTypeOK'
        BY Zenon, <1>1, <1>2, <1>5, <1>6, <1>10, <2>1, <2>2 DEF ReplayInv, ReplayTypeOK
    <2>5. RunnersInv'
        <3>1. RunnerOK(s)'
            BY Zenon, <1>1, <1>2, <1>8, <1>10, <2>2, <2>3
            DEF ReplayInv, RunnersInv, RunnerOK, Executing, Over, Removing, DoesFree, FreedKey
        <3>2. \A r \in Slots : r # s => RunnerOK(r)'
            BY Zenon, <1>1, <1>5, <2>2, RunnerKept DEF ReplayInv, RunnersInv
        <3> QED BY <3>1, <3>2 DEF RunnersInv
    <2>6. \A r \in Slots : r # s => ~pending_[r] /\ runner[r] \notin Executing
        BY Zenon, <1>2, <1>8, <1>10, OthersAreIdle
    <2>7. /\ ToRemove(s) /\ ~ToRemove(s)'
          /\ ToAdd(s)' <=> ToAdd(s)
          /\ \A r \in Slots : r # s => ~ToRemove(r) /\ ~ToRemove(r)' /\ ~ToAdd(r) /\ ~ToAdd(r)'
        BY Zenon, <1>1, <1>2, <1>8, <1>10, <2>3, <2>6
        DEF ToRemove, ToRun, ToAdd, Unstarted, Allocates, DoesFree
    <2>8. ToBeRemoved = {FreedKey(a)} /\ ToBeRemoved' = {}
        <3>1. {r \in Slots : ToRemove(r)} = {s} /\ {r \in Slots : ToRemove(r)}' = {}
            BY <2>7
        <3> QED BY <1>8, <3>1 DEF ToBeRemoved
    <2>9. ToBeAdded' = ToBeAdded
        BY <1>1, <2>7 DEF ToBeAdded
    <2>10. WillBeBound' = WillBeBound
        BY <2>1, <2>8, <2>9 DEF WillBeBound
    <2>11. KeysInv'
        <3>1. \A r \in Slots : ToAdd(r)' => action_memory_'[r].key \notin added' \ ToBeRemoved'
            BY <1>1, <2>1, <2>7, <2>8 DEF ReplayInv, KeysInv
        <3>2. \A q, r \in Slots :
                ToAdd(q)' /\ ToAdd(r)' /\ action_memory_'[q].key = action_memory_'[r].key => q = r
            BY <2>7
        <3>3. \A r \in Slots : runner'[r] # "adding"
            BY <1>5, <2>3, <2>6 DEF Executing
        <3>4. /\ mpc' \in HasLine => PossibleFrom(WillBeBound, line)' /\ live' = After(WillBeBound, line)'
              /\ mpc' \notin HasLine \cup {"err"} => live' = WillBeBound'
            BY Zenon, <1>1, <2>10 DEF ReplayInv, KeysInv, PossibleFrom, After
        <3> QED BY <2>7, <3>1, <3>2, <3>3, <3>4 DEF KeysInv
    <2> QED BY <1>3, <1>6, <1>7, <2>4, <2>5, <2>11 DEF ReplayInv
<1>11. CASE /\ ~Allocates(a) /\ ~DoesFree(a)
            /\ runner' = [runner EXCEPT ![s] = "clear"]
            /\ UNCHANGED <<added, arg, pc, heap, allocated>>
    <2>1. runner'[s] = "clear"
        BY <1>11 DEF ReplayInv, ReplayTypeOK
    <2>2. ReplayTypeOK'
        BY <1>1, <1>5, <1>6, <1>11 DEF ReplayInv, ReplayTypeOK
    <2>3. RunnersInv'
        BY Zenon, <1>1, <1>2, <1>5, <1>11, <2>1
        DEF ReplayInv, RunnersInv, RunnerOK, Executing, Over, Allocates, DoesFree, FreedKey, EndThread
    <2>4. \A r \in Slots : /\ ToAdd(r)' <=> ToAdd(r)
                           /\ ToRemove(r)' <=> ToRemove(r)
        BY <1>1, <1>5, <1>8, <1>11, <2>1
        DEF ToAdd, ToRemove, ToRun, Unstarted, Allocates, DoesFree
    <2>5. ToBeRemoved' = ToBeRemoved /\ ToBeAdded' = ToBeAdded
        BY <1>1, <2>4 DEF ToBeRemoved, ToBeAdded, FreedKey
    <2>6. WillBeBound' = WillBeBound
        BY <1>11, <2>5 DEF WillBeBound
    <2>7. KeysInv'
        <3>1. \A r \in Slots : ToAdd(r)' => action_memory_'[r].key \notin added' \ ToBeRemoved'
            BY <1>1, <1>11, <2>4, <2>5 DEF ReplayInv, KeysInv
        <3>2. \A q, r \in Slots :
                ToAdd(q)' /\ ToAdd(r)' /\ action_memory_'[q].key = action_memory_'[r].key => q = r
            BY <1>1, <2>4 DEF ReplayInv, KeysInv
        <3>3. \A r \in Slots : ToRemove(r)' => FreedKey(action_memory_[r])' \in added'
            BY <1>1, <1>11, <2>4 DEF ReplayInv, KeysInv, FreedKey
        <3>4. \A r \in Slots : runner'[r] = "adding" => arg'[r] \in added'
            BY <1>5, <1>11, <2>1 DEF ReplayInv, KeysInv
        <3>5. /\ mpc' \in HasLine => PossibleFrom(WillBeBound, line)' /\ live' = After(WillBeBound, line)'
              /\ mpc' \notin HasLine \cup {"err"} => live' = WillBeBound'
            BY Zenon, <1>1, <2>6 DEF ReplayInv, KeysInv, PossibleFrom, After
        <3> QED BY <3>1, <3>2, <3>3, <3>4, <3>5 DEF KeysInv
    <2> QED BY <1>3, <1>6, <1>7, <2>2, <2>3, <2>7 DEF ReplayInv
<1> QED BY <1>4, <1>9, <1>10, <1>11

\* Remove has returned; a realloc goes on with Add.
LEMMA RemovedKeeps ==
    ASSUME ReplayInv, NEW s \in Slots, Removed(s),
           result[s] \in Memory
    PROVE  ReplayInv'
<1> DEFINE a == action_memory_[s]
<1>1. /\ runner[s] = "removing" /\ pc[s] = "idle"
      /\ UNCHANGED <<tid_, pending_, action_memory_, num_threads_, mpc, mainWaits, cur, line,
                     lines, i, threads, live, executed>>
    BY DEF Removed, mainVars
<1>2. /\ pending_[s] /\ a \in Actions /\ DoesFree(a)
      /\ Allocates(a) => a.key \in Keys
    BY <1>1, ActionFields DEF ReplayInv, RunnersInv, RunnerOK, ReplayTypeOK, Executing
<1>3. ThreadsInv' /\ SlotInv' /\ LoopInv' /\ AloneInv'
    BY <1>1, RunnerMoves
<1>4. \/ /\ a.type = "free"
         /\ heap' \subseteq heap
         /\ runner' = [runner EXCEPT ![s] = "clear"]
         /\ UNCHANGED <<added, arg, pc, allocated>>
      \/ /\ a.type = "realloc"
         /\ \E m \in Memory : /\ Add(s, a.key, m)
                              /\ heap' \subseteq heap \cup {m}
                              /\ allocated' = [allocated EXCEPT ![a.key] = m]
         /\ runner' = [runner EXCEPT ![s] = "adding"]
    BY DEF Removed, AddMemory, RunnerGoto, pointersVars, callVars, historyVars
<1> HIDE DEF a
<1>5. a = action_memory_[s]
    BY DEF a
<1>6. /\ \A r \in Slots : r # s => runner'[r] = runner[r]
      /\ runner' \in [Slots -> Executing \cup Unstarted \cup Over]
      /\ runner'[s] \in {"adding", "clear"}
    BY <1>4 DEF ReplayInv, ReplayTypeOK, Executing
<1>7. EndInv'
    BY <1>1, <1>6 DEF ReplayInv, EndInv, EndThread
<1>8. CASE /\ a.type = "free"
           /\ heap' \subseteq heap
           /\ runner' = [runner EXCEPT ![s] = "clear"]
           /\ UNCHANGED <<added, arg, pc, allocated>>
    <2>1. runner'[s] = "clear"
        BY <1>8 DEF ReplayInv, ReplayTypeOK
    <2>2. ReplayTypeOK'
        BY Zenon, <1>1, <1>6, <1>8 DEF ReplayInv, ReplayTypeOK
    <2>3. RunnersInv'
        BY Zenon, <1>1, <1>2, <1>6, <1>8, <2>1
        DEF ReplayInv, RunnersInv, RunnerOK, Executing, Over, Allocates, DoesFree, FreedKey, EndThread
    <2>4. SameWork
        BY <1>1, <1>5, <1>6, <1>8, <2>1 DEF SameWork, ToRun, ToAdd, Allocates, Unstarted
    <2>5. SameSide
        BY <1>1 DEF SameSide
    <2> QED BY Zenon, <1>1, <1>3, <1>7, <2>2, <2>3, <2>4, <2>5, SameWorkKeepsKeys, SameWorkKeepsLines
            DEF ReplayInv
<1>9. CASE /\ a.type = "realloc"
           /\ \E m \in Memory : /\ Add(s, a.key, m)
                                /\ heap' \subseteq heap \cup {m}
                                /\ allocated' = [allocated EXCEPT ![a.key] = m]
           /\ runner' = [runner EXCEPT ![s] = "adding"]
    <2>1. Allocates(a) /\ a.key \in Keys
        BY <1>2, <1>9 DEF Allocates
    <2>2. /\ added' = added \cup {a.key} /\ heap' \subseteq Memory
          /\ allocated' \in [Keys -> Memory \cup {NoMem}]
          /\ pc' = [pc EXCEPT ![s] = "find_empty"]
        BY <1>9, <2>1 DEF Add, StartProbe, Goto, ReplayInv, ReplayTypeOK
    <2>3. /\ arg' \in [Slots -> Keys \cup {0}] /\ arg'[s] = a.key
          /\ pc' \in [Slots -> Adding \cup Removing \cup {"idle", "err"}]
          /\ \A r \in Slots : r # s => pc'[r] = pc[r] /\ arg'[r] = arg[r]
        BY <1>9, <2>1, StartShape DEF ReplayInv
    <2>4. runner'[s] = "adding" /\ pc'[s] = "find_empty"
        BY <1>9, <2>2 DEF ReplayInv, ReplayTypeOK
    <2>5. a.key \notin added /\ (\A r \in Slots : ~ToRemove(r)) /\ ToAdd(s)
        BY Zenon, <1>1, <1>5, <1>9, ReallocMayAdd DEF MayAdd
    <2>6. ReplayTypeOK'
        BY Zenon, <1>1, <1>6, <2>1, <2>2, <2>3 DEF ReplayInv, ReplayTypeOK
    <2>7. RunnersInv'
        <3>1. RunnerOK(s)'
            BY <1>1, <1>2, <1>5, <1>6, <2>1, <2>3, <2>4
            DEF ReplayInv, RunnersInv, RunnerOK, Executing, Over, Adding, Allocates
        <3>2. \A r \in Slots : r # s => RunnerOK(r)'
            BY <1>1, <1>6, <2>1, <2>3, <2>4, RunnerKept DEF ReplayInv, RunnersInv
        <3> QED BY <3>1, <3>2 DEF RunnersInv
    <2>8. KeysInv'
        BY <1>1, <1>5, <1>6, <2>1, <2>2, <2>3, <2>4, <2>5, AddKeepsKeys
    <2>9. LinesInv'
        <3>1. \A r \in Slots : ToRun(r)' <=> ToRun(r)
            BY <1>1, <1>6 DEF ToRun, Unstarted
        <3> QED BY <1>1, <3>1 DEF ReplayInv, LinesInv
    <2> QED BY <1>3, <1>7, <2>6, <2>7, <2>8, <2>9 DEF ReplayInv
<1> QED BY <1>4, <1>8, <1>9

-----------------------------------------------------------------------------
(* Wake-ups.  One condition variable serves both sides of an entry, and it *)
(* is signalled after the unlock.                                          *)

\* A step of main that triggers and signals nothing.
LEMMA QuietMainKeepsWakeUps ==
    ASSUME NoLostWakeUp, mpc \notin {"signal", "finish_all_signal"},
           \A s \in Slots : mainWaits' = s => pending_'[s],
           \A s \in Slots : runner'[s] = "blocked" => runner[s] = "blocked",
           pending_' = pending_
    PROVE  NoLostWakeUp'
BY DEF NoLostWakeUp, AboutToSignal

\* main triggers an action when no signal is due.
LEMMA TriggerKeepsWakeUps ==
    ASSUME NoLostWakeUp, mpc \notin {"signal", "finish_all_signal"}, mainWaits \notin Slots,
           NEW t \in Slots, pending_ \in [Slots -> BOOLEAN],
           SetPending(t), AboutToSignal(t)', UNCHANGED <<mainWaits, runner>>
    PROVE  NoLostWakeUp'
<1> SUFFICES ASSUME NEW s \in Slots
             PROVE  /\ mainWaits' # s
                    /\ runner'[s] = "blocked" /\ pending_'[s] => AboutToSignal(s)'
    BY DEF NoLostWakeUp
<1>1. s # t => pending_'[s] = pending_[s]
    BY DEF SetPending
<1>2. ~AboutToSignal(s)
    BY DEF AboutToSignal
<1> QED BY <1>1, <1>2 DEF NoLostWakeUp

\* main signals the entry it has triggered; nobody else can be waiting there.
LEMMA SignalKeepsWakeUps ==
    ASSUME NoLostWakeUp, mainWaits \notin Slots, NEW t \in Slots, Signal(t),
           \A s \in Slots : AboutToSignal(s) => s = t,
           runner \in [Slots -> Executing \cup Unstarted \cup Over], pending_' = pending_
    PROVE  NoLostWakeUp'
<1>1. /\ mainWaits' = mainWaits
      /\ \A s \in Slots : s # t => runner'[s] = runner[s]
      /\ runner'[t] # "blocked"
    BY DEF Signal
<1> QED BY <1>1 DEF NoLostWakeUp

\* No step of main loses a wake-up.
LEMMA MainKeepsWakeUps ==
    ASSUME ReplayInv, NoLostWakeUp, Main
    PROVE  NoLostWakeUp'
<1>1. mainWaits \notin Slots
    BY ReplayAssumption DEF Main, NoSlot, Slots
<1>2. /\ pending_ \in [Slots -> BOOLEAN]
      /\ runner \in [Slots -> Executing \cup Unstarted \cup Over]
      /\ cur \in Slots
      /\ i < max_threads /\ i \in 0 .. max_threads => i \in Slots
    BY ReplayAssumption DEF ReplayInv, ReplayTypeOK, Slots
<1>3. CASE ReadLine
    <2>1. \A s \in Slots : runner'[s] = "blocked" => runner[s] = "blocked"
        BY <1>2, <1>3 DEF ReadLine, CreateThread
    <2> QED BY <1>1, <1>3, <2>1, QuietMainKeepsWakeUps DEF ReadLine
<1>4. CASE WaitForPreviousAction
    BY <1>1, <1>4, QuietMainKeepsWakeUps DEF WaitForPreviousAction, WaitForReady, threadVars
<1>5. CASE WaitForFree
    BY <1>1, <1>5, QuietMainKeepsWakeUps DEF WaitForFree, WaitForReady, threadVars
<1>6. CASE WaitForAllToQuiesce
    BY <1>1, <1>6, QuietMainKeepsWakeUps DEF WaitForAllToQuiesce, QuiesceStep, threadVars
<1>7. CASE UnusableLine \/ CreateAction \/ EndOfDump \/ FreeAll
    BY <1>1, <1>7, QuietMainKeepsWakeUps DEF UnusableLine, CreateAction, EndOfDump, FreeAll, threadVars
<1>8. CASE Finish \/ FinishAllJoin
    <2>1. \A s \in Slots : runner'[s] = "blocked" => runner[s] = "blocked"
        BY <1>2, <1>8 DEF Finish, FinishAllJoin, Join
    <2> QED BY <1>1, <1>8, <2>1, QuietMainKeepsWakeUps DEF Finish, FinishAllJoin
<1>9. CASE TriggerAction
    BY <1>1, <1>2, <1>9, TriggerKeepsWakeUps DEF TriggerAction, AboutToSignal
<1>10. CASE FinishAllEntry
    <2>1. CASE UNCHANGED pending_
        BY <1>1, <1>10, <2>1, QuietMainKeepsWakeUps DEF FinishAllEntry
    <2>2. CASE pending_' # pending_
        <3>1. i \in Slots /\ SetPending(i) /\ mpc = "finish_all" /\ mpc' = "finish_all_signal"
              /\ UNCHANGED <<i, mainWaits, runner>>
            BY <1>2, <1>10, <2>2 DEF FinishAllEntry, ReplayInv, ReplayTypeOK
        <3> QED BY <1>1, <1>2, <3>1, TriggerKeepsWakeUps DEF AboutToSignal
    <2> QED BY <2>1, <2>2
<1>11. CASE SignalAction
    BY <1>1, <1>2, <1>11, SignalKeepsWakeUps DEF SignalAction, AboutToSignal
<1>12. CASE FinishAllSignal
    <2>1. i \in Slots
        BY <1>2, <1>12 DEF FinishAllSignal, ReplayInv, ReplayTypeOK, SlotInv, Ending
    <2> QED BY <1>1, <1>2, <1>12, <2>1, SignalKeepsWakeUps DEF FinishAllSignal, AboutToSignal
<1> QED BY <1>3, <1>4, <1>5, <1>6, <1>7, <1>8, <1>9, <1>10, <1>11, <1>12 DEF Main

\* No step of a runner does.
LEMMA RunnerKeepsWakeUps ==
    ASSUME ReplayInv, NoLostWakeUp, NEW s \in Slots, Runner(s)
    PROVE  NoLostWakeUp'
<1>1. /\ pending_ \in [Slots -> BOOLEAN]
      /\ runner \in [Slots -> Executing \cup Unstarted \cup Over]
    BY DEF ReplayInv, ReplayTypeOK
<1>2. mpc' = mpc /\ cur' = cur /\ i' = i
    BY DEF Runner, WaitForPending, Execute, TableStep, Removed, Added, ClearPending, RunnerSignal, mainVars
<1>3. \A r \in Slots : r # s => runner'[r] = runner[r] /\ pending_'[r] = pending_[r]
    BY <1>1 DEF Runner, WaitForPending, Execute, TableStep, Removed, Added, ClearPending, RunnerSignal,
                AddMemory, RunnerGoto, threadVars
<1>4. mainWaits' = mainWaits \/ (mainWaits = s /\ mainWaits' = NoSlot)
    BY DEF Runner, WaitForPending, Execute, TableStep, Removed, Added, ClearPending, RunnerSignal, mainVars
<1>5. NoSlot \notin Slots
    BY ReplayAssumption DEF NoSlot, Slots
<1>6. /\ mainWaits' = s => pending_'[s] \/ runner'[s] \in {"signal", "end_signal"}
      /\ runner'[s] = "blocked" /\ pending_'[s] => AboutToSignal(s)'
    <2>1. CASE WaitForPending(s)
        BY <1>1, <1>2, <2>1 DEF WaitForPending, RunnerGoto, mainVars, NoLostWakeUp, AboutToSignal
    <2>2. CASE Execute(s) \/ Removed(s) \/ Added(s)
        <3>1. pending_' = pending_ /\ mainWaits' = mainWaits
            BY <2>2 DEF Execute, Removed, Added, mainVars
        <3>2. runner[s] \in {"execute", "removing", "adding"} /\ runner'[s] \in {"adding", "removing", "clear"}
            BY <1>1, <2>2 DEF Execute, Removed, Added, AddMemory, RunnerGoto
        <3> QED BY <3>1, <3>2 DEF NoLostWakeUp
    <2>3. CASE TableStep(s)
        BY <1>2, <2>3 DEF TableStep, threadVars, mainVars, NoLostWakeUp, AboutToSignal
    <2>4. CASE ClearPending(s)
        BY <1>1, <2>4 DEF ClearPending, RunnerGoto, mainVars
    <2>5. CASE RunnerSignal(s)
        BY <1>1, <1>5, <2>5 DEF RunnerSignal, RunnerGoto
    <2> QED BY <2>1, <2>2, <2>3, <2>4, <2>5 DEF Runner
<1>7. ASSUME NEW r \in Slots, r # s
      PROVE  /\ mainWaits' = r => pending_'[r] \/ runner'[r] \in {"signal", "end_signal"}
             /\ runner'[r] = "blocked" /\ pending_'[r] => AboutToSignal(r)'
    BY <1>2, <1>3, <1>4, <1>5, <1>7 DEF NoLostWakeUp, AboutToSignal
<1> QED BY <1>6, <1>7 DEF NoLostWakeUp
===============================================================================
