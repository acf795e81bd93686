-------------------------- MODULE ReplayMainProofs ----------------------------
(***************************************************************************)
(* The steps of main keep ReplayInv: those that read a line and hand its   *)
(* action to a thread, and those that end threads.  So every step of the   *)
(* replay does; and the Adds of the threads are counted by the lines.      *)
(***************************************************************************)
EXTENDS ReplayThreadProofs, FiniteSetTheorems

-----------------------------------------------------------------------------
(* Slots, actions and the searches of the thread table.                    *)

\* A leaf is tried with SMT, then with Zenon, then with SMT for longer.
USE SMT, Zenon, SMTT(30)

\* The entries of the thread table are counted from 0.
LEMMA SlotsAreFinite ==
    /\ IsFiniteSet(Slots)
    /\ Cardinality(Slots) = max_threads
    /\ Slots \subseteq Nat
    /\ NoSlot \notin Slots
<1>1. max_threads \in Nat /\ max_threads > 0
    BY ReplayAssumption
<1>2. IsFiniteSet(0 .. max_threads - 1) /\ Cardinality(0 .. max_threads - 1) = max_threads
    BY <1>1, FS_Interval
<1> QED BY <1>1, <1>2 DEF Slots, NoSlot

\* FinishAll's action ends a thread and does nothing else.
LEMMA EndActionFields ==
    /\ EndThreadAction \in Actions
    /\ EndThread(EndThreadAction)
    /\ ~Allocates(EndThreadAction)
    /\ ~DoesFree(EndThreadAction)
    /\ EndThreadAction.line = 0
<1>1. MaxLines \in Nat
    BY ReplayAssumption, SizeAssumption
<1> QED BY <1>1 DEF EndThreadAction, Actions, Types, EndThread, Allocates, DoesFree

\* The fields of the action of a line are those of the line.
LEMMA LineAction ==
    ASSUME NEW l \in Lines, NEW n \in 0 .. MaxLines
    PROVE  /\ ActionOf(l, n) \in Actions
           /\ l.tid \in Tids
           /\ ActionOf(l, n).type = l.type
           /\ ActionOf(l, n).key = l.key
           /\ ActionOf(l, n).old = l.old
           /\ ActionOf(l, n).line = n
           /\ l.type \in Types
           /\ l.type \in {"malloc", "realloc"} => l.key \in Keys
           /\ l.key \in Keys \cup {0}
           /\ l.old \in Keys \cup {0}
BY DEF Lines, ActionOf, Actions, Types

\* A set of naturals that has a member has a least one.
LEMMA LeastIsMember ==
    ASSUME NEW S \in SUBSET Nat, S # {}
    PROVE  LeastOf(S) \in S
<1> DEFINE R == {ss \in Nat \X Nat : ss[1] < ss[2]}
<1>1. IsWellFoundedOn(R, Nat)
    BY NatLessThanWellFounded DEF OpToRel
<1>2. \A x, y \in Nat : y < x => <<y, x>> \in R
    OBVIOUS
<1> HIDE DEF R
<1>3. \E x \in S : \A y \in S : ~ (<<y, x>> \in R)
    BY Zenon, <1>1, WFMin
<1>4. PICK x \in S : \A y \in S : ~ (<<y, x>> \in R)
    BY <1>3
<1>5. ASSUME NEW y \in S PROVE x <= y
    <2>1. x \in Nat /\ y \in Nat /\ <<y, x>> \notin R
        BY <1>4
    <2>2. ~(y < x)
        BY <1>2, <2>1
    <2> QED BY <2>1, <2>2
<1> QED BY Zenon, <1>5 DEF LeastOf

\* The probes of a search stay in the table.
LEMMA ProbeInSlots == \A t \in Nat, n \in Slots : Probe(t, n) \in Slots
BY ReplayAssumption DEF Probe, GetHashEntry, Slots

\* The remainder of a position that went round the table at most once.
LEMMA RoundOnce ==
    ASSUME NEW M \in Nat \ {0}, NEW a \in Nat, a < M + M
    PROVE  a % M = IF a < M THEN a ELSE a - M
OBVIOUS

\* A search for t looks at every entry once.
LEMMA ProbesAreDistinct ==
    ASSUME NEW t \in Nat
    PROVE  /\ \A s \in Slots : \E n \in Slots : Probe(t, n) = s
           /\ \A m, n \in Slots : Probe(t, m) = Probe(t, n) => m = n
<1> DEFINE M == max_threads
           h == t % M
<1>1. M \in Nat \ {0} /\ h \in Nat /\ h < M
    BY ReplayAssumption
<1>2. \A n \in Slots : n \in Nat /\ n < M /\ Probe(t, n) = (h + n) % M
    BY <1>1 DEF Slots, Probe, GetHashEntry
<1> HIDE DEF h
<1>3. \A n \in Slots : Probe(t, n) = IF h + n < M THEN h + n ELSE h + n - M
    <2> SUFFICES ASSUME NEW n \in Slots
                 PROVE  Probe(t, n) = IF h + n < M THEN h + n ELSE h + n - M
        OBVIOUS
    <2>1. h + n \in Nat /\ h + n < M + M
        BY <1>1, <1>2
    <2> QED BY <1>1, <1>2, <2>1, RoundOnce
<1> HIDE DEF M
<1>4. Slots = 0 .. M - 1
    BY DEF Slots, M
<1>5. ASSUME NEW s \in Slots PROVE \E n \in Slots : Probe(t, n) = s
    <2> DEFINE n == IF h <= s THEN s - h ELSE s + M - h
    <2>1. n \in Slots
        BY <1>1, <1>4
    <2>2. (IF h + n < M THEN h + n ELSE h + n - M) = s
        BY <1>1, <1>4
    <2> QED BY <1>3, <2>1, <2>2
<1>6. ASSUME NEW m \in Slots, NEW n \in Slots, Probe(t, m) = Probe(t, n) PROVE m = n
    BY <1>1, <1>3, <1>4, <1>6
<1> QED BY <1>5, <1>6

\* Threads::FindThread finds the thread of a tid if there is one: the
\* num_threads_ used entries cannot all come before it (Threads.cpp 96-111).
LEMMA FindThreadFinds ==
    ASSUME ReplayTypeOK, ThreadsInv, NEW t \in Tids
    PROVE  \/ FindThread(t) \in Slots /\ tid_[FindThread(t)] = t
           \/ FindThread(t) = NoSlot /\ \A s \in Slots : tid_[s] # t
<1>1. t \in Nat /\ t # NoTid /\ Slots \subseteq Nat /\ NoSlot \notin Slots
    BY ReplayAssumption, SlotsAreFinite
<1> DEFINE Before(n) == {m \in 0 .. n - 1 : tid_[Probe(t, m)] # NoTid}
           found == {n \in Slots : tid_[Probe(t, n)] = t /\ Cardinality(Before(n)) < num_threads_}
<1>2. FindThread(t) = IF found = {} THEN NoSlot ELSE Probe(t, LeastOf(found))
    BY DEF FindThread
<1>3. CASE found # {}
    <2>1. found \in SUBSET Nat
        BY Zenon, <1>1
    <2>2. LeastOf(found) \in found
        BY Zenon, <1>3, <2>1, LeastIsMember
    <2> QED BY Zenon, <1>1, <1>2, <1>3, <2>2, ProbeInSlots
<1>4. ASSUME NEW s \in Slots, tid_[s] = t PROVE found # {}
    <2>1. PICK n \in Slots : Probe(t, n) = s
        BY <1>1, ProbesAreDistinct
    <2>2. Before(n) \subseteq Slots /\ n \notin Before(n)
        BY ReplayAssumption DEF Slots
    <2> DEFINE f == [m \in Before(n) |-> Probe(t, m)]
    <2>3. \A m \in Before(n) : m \in Slots /\ Probe(t, m) \in Used \ {s}
        BY Zenon, <1>1, <2>1, <2>2, ProbeInSlots, ProbesAreDistinct DEF Used
    <2>4. f \in Injection(Before(n), Used \ {s})
        <3>1. f \in [Before(n) -> Used \ {s}]
            BY <2>3
        <3>2. \A a, b \in Before(n) : f[a] = f[b] => a = b
            BY Zenon, <1>1, <2>3, ProbesAreDistinct
        <3> QED BY <3>1, <3>2 DEF Injection, IsInjective
    <2>5. IsFiniteSet(Used) /\ s \in Used
        BY <1>1, <1>4, SlotsAreFinite, FS_Subset DEF Used
    <2>6. /\ IsFiniteSet(Used \ {s})
          /\ Cardinality(Used \ {s}) = num_threads_ - 1
        BY Zenon, <2>5, FS_RemoveElement DEF ThreadsInv
    <2>7. /\ IsFiniteSet(Before(n))
          /\ Cardinality(Before(n)) <= num_threads_ - 1
        BY <2>4, <2>6, FS_Injection
    <2>8. Cardinality(Before(n)) \in Nat
        BY <2>7, FS_CardinalityType
    <2>9. Cardinality(Before(n)) < num_threads_
        BY <2>7, <2>8 DEF ReplayTypeOK
    <2> QED BY <1>4, <2>1, <2>9
<1> QED BY <1>2, <1>3, <1>4

\* Threads::FindEmptyEntry returns an entry that is not in use.
LEMMA FindEmptyFinds ==
    ASSUME NEW t \in Tids
    PROVE  \/ FindEmptyEntry(t) \in Slots /\ tid_[FindEmptyEntry(t)] = NoTid
           \/ FindEmptyEntry(t) = NoSlot
<1>1. t \in Nat /\ Slots \subseteq Nat
    BY ReplayAssumption, SlotsAreFinite
<1> DEFINE empty == {n \in Slots : tid_[Probe(t, n)] = NoTid}
<1>2. FindEmptyEntry(t) = IF empty = {} THEN NoSlot ELSE Probe(t, LeastOf(empty))
    BY DEF FindEmptyEntry
<1>3. CASE empty # {}
    <2>1. empty \in SUBSET Nat
        BY Zenon, <1>1
    <2>2. LeastOf(empty) \in empty
        BY <1>3, <2>1, LeastIsMember
    <2> QED BY Zenon, <1>1, <1>2, <1>3, <2>2, ProbeInSlots
<1> QED BY <1>2, <1>3

-----------------------------------------------------------------------------
(* Steps that wait.                                                        *)

\* A step in which only main moves keeps all that is not about where main is.
LEMMA MainMoves ==
    ASSUME ReplayInv, UNCHANGED <<slotVars, line, lines, live, executed>>, SameSide
    PROVE  ThreadsInv' /\ RunnersInv' /\ KeysInv' /\ LinesInv'
<1>1. ThreadsInv' /\ RunnersInv'
    BY DEF ReplayInv, slotVars, ThreadsInv, Used, RunnersInv, RunnerOK, DoesFree, Allocates, FreedKey,
           EndThread
<1>2. SameWork
    BY DEF slotVars, SameWork, ToRun, ToAdd
<1> QED BY <1>1, <1>2, SameWorkKeepsKeys, SameWorkKeepsLines DEF ReplayInv

\* main waits for the thread of the line to be ready.
LEMMA WaitForPreviousActionKeeps ==
    ASSUME ReplayInv, WaitForPreviousAction
    PROVE  ReplayInv'
<1>1. /\ mpc = "wait_ready"
      /\ UNCHANGED <<slotVars, cur, line, lines, i, threads, heap, live, allocated, executed>>
      /\ \/ pending_[cur] /\ mainWaits' = cur /\ mpc' = mpc
         \/ ~pending_[cur] /\ mainWaits' = mainWaits /\ mpc' = "create_action"
    BY DEF WaitForPreviousAction, WaitForReady, pointersVars, callVars, historyVars,
           threadVars, traceVars, slotVars
<1> USE DEF HasLine, HasThread, Ending
<1>2. ThreadsInv' /\ RunnersInv' /\ KeysInv' /\ LinesInv'
    <2>1. SameSide
        BY <1>1 DEF SameSide
    <2> QED BY <1>1, <2>1, MainMoves
<1>3. ReplayTypeOK'
    BY <1>1 DEF ReplayInv, ReplayTypeOK, slotVars
<1>4. SlotInv' /\ LoopInv'
    BY <1>1 DEF ReplayInv, SlotInv, LoopInv, slotVars
<1>5. EndInv' /\ AloneInv'
    BY <1>1 DEF ReplayInv, EndInv, AloneInv, slotVars
<1> QED BY <1>2, <1>3, <1>4, <1>5 DEF ReplayInv

\* A line is refused.
LEMMA UnusableLineKeeps ==
    ASSUME ReplayInv, UnusableLine
    PROVE  ReplayInv'
<1>1. /\ mpc \in {"read", "create_action"}
      /\ UNCHANGED <<slotVars, mainWaits, cur, line, lines, i, threads, heap, live, allocated, executed>>
      /\ mpc' = "err"
    BY DEF UnusableLine, pointersVars, callVars, historyVars, threadVars, traceVars, slotVars
<1> USE DEF HasLine, HasThread, Ending
<1>2. ThreadsInv' /\ RunnersInv' /\ KeysInv' /\ LinesInv'
    <2>1. SameSide
        BY <1>1 DEF SameSide
    <2> QED BY <1>1, <2>1, MainMoves
<1>3. ReplayTypeOK'
    BY <1>1 DEF ReplayInv, ReplayTypeOK, slotVars
<1>4. SlotInv' /\ LoopInv'
    BY <1>1 DEF ReplayInv, SlotInv, LoopInv, slotVars
<1>5. EndInv' /\ AloneInv'
    BY <1>1 DEF ReplayInv, EndInv, AloneInv, slotVars
<1> QED BY <1>2, <1>3, <1>4, <1>5 DEF ReplayInv

\* main waits for an action that frees.
LEMMA WaitForFreeKeeps ==
    ASSUME ReplayInv, WaitForFree
    PROVE  ReplayInv'
<1>1. /\ mpc = "wait_done"
      /\ UNCHANGED <<slotVars, cur, line, lines, i, threads, heap, live, allocated, executed>>
      /\ \/ pending_[cur] /\ mainWaits' = cur /\ mpc' = mpc
         \/ ~pending_[cur] /\ mainWaits' = mainWaits /\ mpc' = "read"
    BY DEF WaitForFree, WaitForReady, pointersVars, callVars, historyVars,
           threadVars, traceVars, slotVars
<1> USE DEF HasLine, HasThread, Ending
<1>2. ThreadsInv' /\ RunnersInv' /\ KeysInv' /\ LinesInv'
    <2>1. SameSide
        BY <1>1 DEF SameSide
    <2> QED BY <1>1, <2>1, MainMoves
<1>3. ReplayTypeOK'
    BY <1>1 DEF ReplayInv, ReplayTypeOK, slotVars
<1>4. SlotInv' /\ LoopInv'
    BY <1>1 DEF ReplayInv, SlotInv, LoopInv, slotVars
<1>5. EndInv' /\ AloneInv'
    BY <1>1 DEF ReplayInv, EndInv, AloneInv, slotVars
<1> QED BY <1>2, <1>3, <1>4, <1>5 DEF ReplayInv

\* The dump ends.
LEMMA EndOfDumpKeeps ==
    ASSUME ReplayInv, EndOfDump
    PROVE  ReplayInv'
<1>1. /\ mpc = "read"
      /\ UNCHANGED <<slotVars, mainWaits, cur, line, lines, heap, live, allocated, executed>>
      /\ mpc' = "quiesce_end" /\ i' = 0 /\ threads' = 0
    BY DEF EndOfDump, pointersVars, callVars, historyVars, threadVars, traceVars, slotVars
<1> USE DEF HasLine, HasThread, Ending
<1>2. ThreadsInv' /\ RunnersInv' /\ KeysInv' /\ LinesInv'
    <2>1. SameSide
        BY <1>1 DEF SameSide
    <2> QED BY <1>1, <2>1, MainMoves
<1>3. ReplayTypeOK'
    BY SMTT(30), <1>1, ReplayAssumption DEF ReplayInv, ReplayTypeOK, slotVars
<1>4. LoopInv'
    <2>1. \A r \in Slots : ~(r < 0)
        BY SlotsAreFinite
    <2>2. {r \in Slots : r < 0 /\ tid_[r] # NoTid} = {}
        BY <2>1
    <2> QED BY <1>1, <2>1, <2>2, FS_EmptySet DEF LoopInv, slotVars
<1>5. SlotInv' /\ EndInv' /\ AloneInv'
    BY <1>1 DEF ReplayInv, SlotInv, EndInv, AloneInv, slotVars
<1> QED BY <1>2, <1>3, <1>4, <1>5 DEF ReplayInv

\* One more entry is quiet, or all are: the loop has then counted every entry
\* in use, and no other can have an action (Threads.cpp 113-128).
LEMMA WaitForAllToQuiesceKeeps ==
    ASSUME ReplayInv, WaitForAllToQuiesce
    PROVE  ReplayInv'
<1> DEFINE next == IF mpc = "quiesce" THEN "set_pending" ELSE "finish_all"
           Counted(j) == {r \in Slots : r < j /\ tid_[r] # NoTid}
<1>1. /\ mpc \in {"quiesce", "quiesce_end"}
      /\ UNCHANGED <<slotVars, cur, line, lines, heap, live, allocated, executed>>
      /\ \/ threads = num_threads_ /\ mpc' = next /\ i' = 0 /\ UNCHANGED <<mainWaits, threads>>
         \/ /\ threads # num_threads_ /\ tid_[i] # NoTid /\ pending_[i]
            /\ mainWaits' = i /\ UNCHANGED <<mpc, i, threads>>
         \/ /\ threads # num_threads_ /\ ~(tid_[i] # NoTid /\ pending_[i])
            /\ i' = i + 1
            /\ threads' = IF tid_[i] # NoTid THEN threads + 1 ELSE threads
            /\ UNCHANGED <<mpc, mainWaits>>
    BY DEF WaitForAllToQuiesce, QuiesceStep, pointersVars, callVars, historyVars,
           threadVars, traceVars, slotVars
<1>2. /\ threads = Cardinality(Counted(i))
      /\ \A r \in Slots : r < i => ~pending_[r]
      /\ num_threads_ = Cardinality(Used)
      /\ i \in 0 .. max_threads /\ threads \in Nat
      /\ tid_ \in [Slots -> Tids \cup {NoTid}]
    BY <1>1 DEF ReplayInv, LoopInv, ThreadsInv, ReplayTypeOK
<1>3. \A r \in Slots : tid_[r] = NoTid => ~pending_[r]
    BY DEF ReplayInv, RunnersInv, RunnerOK, Over
<1>4. /\ max_threads \in Nat \ {0} /\ Slots = 0 .. max_threads - 1 /\ Slots \subseteq Nat
      /\ IsFiniteSet(Used) /\ \A j : Counted(j) \in SUBSET Used
    BY ReplayAssumption, SlotsAreFinite, FS_Subset DEF Slots, Used
<1>5. threads = num_threads_ => Quiet
    <2> SUFFICES ASSUME threads = num_threads_ PROVE Quiet
        OBVIOUS
    <2>1. Cardinality(Used) = Cardinality(Counted(i)) => Used = Counted(i)
        BY <1>4, FS_Subset
    <2>2. Used = Counted(i)
        BY Zenon, <1>2, <2>1
    <2>3. \A r \in Slots : tid_[r] # NoTid => r < i
        BY <2>2 DEF Used
    <2> QED BY <1>2, <1>3, <2>3 DEF Quiet
<1>6. threads # num_threads_ => i < max_threads /\ i \in Slots
    <2> SUFFICES ASSUME i = max_threads PROVE threads = num_threads_
        BY <1>2, <1>4
    <2>1. Counted(i) = Used
        BY <1>4 DEF Used
    <2> QED BY <1>2, <2>1
<1> USE DEF HasLine, HasThread, Ending
<1>7. ThreadsInv' /\ RunnersInv' /\ KeysInv' /\ LinesInv'
    <2>1. SameSide
        <3>1. CASE mpc = "quiesce"
            BY <1>1, <3>1 DEF SameSide
        <3>2. CASE mpc = "quiesce_end"
            BY <1>1, <3>2 DEF SameSide
        <3> QED BY <1>1, <3>1, <3>2
    <2> QED BY <1>1, <2>1, MainMoves
<1>8. ReplayTypeOK'
    <2>1. /\ i' \in 0 .. max_threads /\ threads' \in Nat
          /\ mainWaits' \in Slots \cup {NoSlot}
        BY SMTT(30), <1>1, <1>2, <1>4, <1>6 DEF ReplayInv, ReplayTypeOK
    <2>2. /\ mpc' \in HasThread \cup {"quiesce_end", "finish_all"}
          /\ mpc' \in HasThread => mpc \in HasThread
        BY <1>1
    <2> QED BY <1>1, <2>1, <2>2 DEF ReplayInv, ReplayTypeOK, slotVars
<1>9. SlotInv' /\ EndInv' /\ AloneInv'
    BY <1>1 DEF ReplayInv, SlotInv, EndInv, AloneInv, slotVars
<1>10. LoopInv'
    <2>1. CASE threads = num_threads_
        <3>1. \A r \in Slots : ~(r < 0)
            BY <1>4
        <3>2. Quiet'
            BY <1>1, <1>5, <2>1 DEF Quiet, slotVars
        <3> QED BY <1>1, <2>1, <3>1, <3>2 DEF LoopInv
    <2>2. CASE threads # num_threads_ /\ i' = i
        <3>1. UNCHANGED <<mpc, i, threads>>
            BY <1>1, <1>2, <2>2
        <3> QED BY <1>1, <3>1 DEF ReplayInv, LoopInv, slotVars, Quiet
    <2>3. CASE threads # num_threads_ /\ i' # i
        <3>1. /\ i' = i + 1 /\ mpc' = mpc
              /\ threads' = IF tid_[i] # NoTid THEN threads + 1 ELSE threads
              /\ tid_[i] # NoTid => ~pending_[i]
            BY <1>1, <2>3
        <3>2. i \in Slots /\ i \notin Counted(i) /\ \A r \in Slots : r < i' <=> r < i \/ r = i
            BY <1>2, <1>4, <1>6, <2>3, <3>1
        <3>3. \A r \in Slots : r < i' => ~pending_'[r]
            BY <1>1, <1>2, <1>3, <3>1, <3>2 DEF slotVars
        <3>4. {r \in Slots : r < i' /\ tid_'[r] # NoTid} =
                IF tid_[i] # NoTid THEN Counted(i) \cup {i} ELSE Counted(i)
            BY <1>1, <3>2 DEF slotVars
        <3>5. IsFiniteSet(Counted(i))
            BY <1>4, FS_Subset
        <3>6. Cardinality(Counted(i) \cup {i}) = threads + 1
            BY <1>2, <3>2, <3>5, FS_AddElement
        <3>7. threads' = Cardinality({r \in Slots : r < i' /\ tid_'[r] # NoTid})
            BY <1>2, <3>1, <3>4, <3>6
        <3> QED BY <1>1, <3>1, <3>3, <3>7 DEF LoopInv
    <2> QED BY <2>1, <2>2, <2>3
<1> QED BY <1>7, <1>8, <1>9, <1>10 DEF ReplayInv

-----------------------------------------------------------------------------
(* A line becomes an action in a slot.                                     *)

\* main puts the action of the line in a slot that is not pending.
LEMMA CreateActionKeeps ==
    ASSUME ReplayInv, CreateAction
    PROVE  ReplayInv'
<1> DEFINE a == ActionOf(line, lines)
<1>1. /\ mpc = "create_action"
      /\ UNCHANGED <<tid_, pending_, runner, num_threads_, added, arg, pc, mainWaits, cur,
                     line, lines, heap, live, allocated, executed>>
      /\ action_memory_' = [action_memory_ EXCEPT ![cur] = a]
      /\ mpc' = IF DoesFree(a) THEN "quiesce" ELSE "set_pending"
      /\ i' = 0 /\ threads' = 0
    BY DEF CreateAction, pointersVars, callVars, historyVars, traceVars
<1> USE DEF HasLine, HasThread, Ending
<1>2. /\ cur \in Slots /\ ~pending_[cur] /\ a \in Actions /\ tid_[cur] # NoTid
      /\ action_memory_ \in [Slots -> Actions]
    BY <1>1, LineAction DEF ReplayInv, ReplayTypeOK, SlotInv
<1>3. /\ action_memory_'[cur] = a
      /\ \A s \in Slots : s # cur => action_memory_'[s] = action_memory_[s]
      /\ \A s \in Slots : pending_[s] => action_memory_'[s] = action_memory_[s]
    BY <1>1, <1>2
<1>4. ReplayTypeOK'
    BY SMTT(30), <1>1, <1>2, ReplayAssumption DEF ReplayInv, ReplayTypeOK
<1>5. ThreadsInv'
    BY <1>1 DEF ReplayInv, ThreadsInv, Used
<1>6. RunnersInv'
    <2>1. \A s \in Slots :
            runner[s] \in {"end_signal", "exited", "adding", "removing"} =>
                action_memory_'[s] = action_memory_[s]
        BY <1>1, <1>3 DEF ReplayInv, RunnersInv, RunnerOK, EndInv, Executing
    <2> QED BY SMTT(30), <1>1, <2>1
            DEF ReplayInv, RunnersInv, RunnerOK, DoesFree, Allocates, FreedKey, EndThread
<1>7. SlotInv'
    BY <1>1, <1>2, <1>3 DEF ReplayInv, SlotInv, DoesFree
<1>8. EndInv' /\ AloneInv'
    BY <1>1, <1>3 DEF ReplayInv, EndInv, AloneInv, EndThread, DoesFree
<1>9. LoopInv'
    <2>1. \A r \in Slots : ~(r < 0)
        BY SlotsAreFinite
    <2>2. {r \in Slots : r < 0 /\ tid_[r] # NoTid} = {}
        BY <2>1
    <2>3. DoesFree(action_memory_[cur])' => mpc' = "quiesce"
        BY <1>1, <1>3 DEF DoesFree
    <2> QED BY <1>1, <2>1, <2>2, <2>3, FS_EmptySet DEF LoopInv
<1>10. KeysInv' /\ LinesInv'
    <2>1. SameWork
        BY <1>1, <1>3 DEF SameWork, ToRun, ToAdd, Allocates
    <2>2. SameSide
        BY <1>1 DEF SameSide
    <2> QED BY <1>1, <2>1, <2>2, SameWorkKeepsKeys, SameWorkKeepsLines DEF ReplayInv
<1> QED BY <1>4, <1>5, <1>6, <1>7, <1>8, <1>9, <1>10 DEF ReplayInv

\* PossibleNext and LiveAfter are about the keys that are live.
LEMMA FromLive == \A l : /\ PossibleNext(l) <=> PossibleFrom(live, l)
                         /\ LiveAfter(l) = After(live, l)
BY DEF PossibleNext, PossibleFrom, LiveAfter, After

\* main reads a line; the search of the thread table finds the thread of its
\* tid, or there is none and a new one gets an entry.
LEMMA ReadLineKeeps ==
    ASSUME ReplayInv, ReadLine
    PROVE  ReplayInv'
<1>1. /\ mpc = "read" /\ lines < MaxLines
      /\ UNCHANGED <<pending_, action_memory_, added, arg, pc, mainWaits, i, threads, heap,
                     allocated, executed>>
    BY DEF ReadLine, pointersVars, callVars, historyVars
<1>2. PICK l \in Lines :
        /\ PossibleFrom(live, l) /\ line' = l /\ live' = After(live, l) /\ lines' = lines + 1
        /\ LET s == FindThread(l.tid)
           IN  IF s = NoSlot
               THEN CreateThread(l.tid)
               ELSE /\ cur' = s
                    /\ mpc' = "wait_ready"
                    /\ UNCHANGED <<tid_, runner, num_threads_>>
    BY FromLive DEF ReadLine
<1> DEFINE t == l.tid
<1>3. l.tid \in Tids /\ l.tid # NoTid /\ NoSlot \notin Slots
    BY LineAction, ReplayAssumption, SlotsAreFinite, ZeroIsNoKey DEF Lines
<1>4. \/ /\ UNCHANGED <<tid_, runner, num_threads_>>
         /\ \/ mpc' = "err" /\ cur' = cur
            \/ mpc' = "wait_ready" /\ cur' \in Slots /\ tid_[cur'] = t
      \/ /\ mpc' = "wait_ready" /\ cur' \in Slots /\ tid_[cur'] = NoTid
         /\ tid_' = [tid_ EXCEPT ![cur'] = t]
         /\ \/ runner' = [runner EXCEPT ![cur'] = "wait"]
            \/ runner' = [runner EXCEPT ![cur'] = "failed"]
         /\ num_threads_' = num_threads_ + 1
         /\ \A s \in Slots : tid_[s] # t
    <2>1. CASE FindThread(t) # NoSlot
        BY <1>2, <1>3, <2>1, FindThreadFinds DEF ReplayInv
    <2>2. CASE FindThread(t) = NoSlot
        <3>1. CreateThread(t) /\ \A s \in Slots : tid_[s] # t
            BY <1>2, <1>3, <2>2, FindThreadFinds DEF ReplayInv
        <3> QED BY Zenon, <1>3, <3>1, FindEmptyFinds, ReplayAssumption DEF CreateThread
    <2> QED BY <2>1, <2>2
<1> HIDE DEF t
<1>5. t \in Tids /\ t # NoTid
    BY <1>3 DEF t
<1> USE DEF HasLine, HasThread, Ending
<1>6. lines \in Nat /\ lines' \in 0 .. MaxLines /\ lines' > 0 /\ live' \subseteq Keys
    <2>1. lines \in Nat /\ MaxLines \in Nat /\ live \subseteq Keys
        BY SMTT(30), ReplayAssumption, SizeAssumption DEF ReplayInv, ReplayTypeOK
    <2>2. After(live, l) \subseteq Keys
        BY <2>1, LineAction DEF After, Lines
    <2> QED BY <1>1, <1>2, <2>1, <2>2
<1>7. ReplayTypeOK'
    <2>1. /\ tid_' \in [Slots -> Tids \cup {NoTid}] /\ num_threads_' \in Nat
          /\ runner' \in [Slots -> Executing \cup Unstarted \cup Over]
          /\ cur' \in Slots
        BY SMTT(30), <1>4, <1>5 DEF ReplayInv, ReplayTypeOK, Executing, Unstarted, Over
    <2> QED BY <1>1, <1>2, <1>4, <1>6, <2>1 DEF ReplayInv, ReplayTypeOK
<1>8. ThreadsInv'
    <2>1. CASE UNCHANGED <<tid_, num_threads_>>
        BY <2>1 DEF ReplayInv, ThreadsInv, Used
    <2>2. CASE /\ cur' \in Slots /\ tid_[cur'] = NoTid
               /\ tid_' = [tid_ EXCEPT ![cur'] = t]
               /\ num_threads_' = num_threads_ + 1
               /\ \A s \in Slots : tid_[s] # t
        <3>1. /\ tid_'[cur'] = t
              /\ \A s \in Slots : s # cur' => tid_'[s] = tid_[s]
            BY <2>2 DEF ReplayInv, ReplayTypeOK
        <3>2. Used' = Used \cup {cur'} /\ cur' \notin Used
            BY <1>5, <2>2, <3>1 DEF Used
        <3>3. IsFiniteSet(Used)
            BY SlotsAreFinite, FS_Subset DEF Used
        <3>4. num_threads_' = Cardinality(Used')
            BY Zenon, <2>2, <3>2, <3>3, FS_AddElement DEF ReplayInv, ThreadsInv
        <3>5. \A s, r \in Slots : tid_'[s] = tid_'[r] /\ tid_'[s] # NoTid => s = r
            BY <2>2, <3>1 DEF ReplayInv, ThreadsInv
        <3> QED BY <3>4, <3>5 DEF ThreadsInv
    <2> QED BY <1>4, <2>1, <2>2
<1>9. \A s \in Slots : \/ runner'[s] = runner[s] /\ (tid_'[s] = NoTid <=> tid_[s] = NoTid)
                       \/ /\ runner[s] = "none" /\ runner'[s] \in {"wait", "failed"}
                          /\ tid_'[s] # NoTid /\ ~pending_[s]
    BY SMTT(30), <1>4, <1>5 DEF ReplayInv, ReplayTypeOK, RunnersInv, RunnerOK, Over
<1>10. RunnersInv'
    BY Zenon, <1>1, <1>9 DEF ReplayInv, RunnersInv, RunnerOK, Executing, Over, Allocates, DoesFree, FreedKey, EndThread
<1>11. SlotInv' /\ LoopInv'
    <2>1. mpc' = "wait_ready" => tid_'[cur'] # NoTid
        BY <1>4, <1>5 DEF ReplayInv, ReplayTypeOK
    <2> QED BY <1>4, <2>1 DEF SlotInv, LoopInv
<1>12. EndInv' /\ AloneInv'
    BY <1>1, <1>4, <1>9 DEF ReplayInv, EndInv, AloneInv, EndThread, DoesFree
<1>13. SameWork
    BY <1>1, <1>9 DEF SameWork, ToRun, ToAdd, Allocates, Unstarted
<1>14. KeysInv'
    <2> USE SameKeys, <1>13
    <2>1. \A s \in Slots : ToAdd(s)' => action_memory_'[s].key \notin added' \ ToBeRemoved'
        BY DEF ReplayInv, KeysInv, SameWork
    <2>2. \A s, r \in Slots :
            ToAdd(s)' /\ ToAdd(r)' /\ action_memory_'[s].key = action_memory_'[r].key => s = r
        BY DEF ReplayInv, KeysInv, SameWork
    <2>3. \A s \in Slots : ToRemove(s)' => FreedKey(action_memory_[s])' \in added'
        BY DEF ReplayInv, KeysInv, SameWork, ToRemove, FreedKey
    <2>4. \A s \in Slots : runner'[s] = "adding" => arg'[s] \in added'
        BY DEF ReplayInv, KeysInv, SameWork
    <2>5. live = WillBeBound
        BY <1>1 DEF ReplayInv, KeysInv
    <2>6. PossibleFrom(WillBeBound, line)' /\ live' = After(WillBeBound, line)'
        BY Zenon, <1>2, <2>5 DEF PossibleFrom, After
    <2>7. mpc' \in HasLine \cup {"err"}
        BY <1>4
    <2> QED BY <2>1, <2>2, <2>3, <2>4, <2>6, <2>7 DEF KeysInv
<1>15. LinesInv'
    <2>1. \A s \in Slots : pending_'[s] => action_memory_'[s].line <= lines /\ action_memory_'[s].line \in Nat
        <3>1. \A s \in Slots : action_memory_[s] \in Actions
            BY DEF ReplayInv, ReplayTypeOK
        <3>2. \A s \in Slots : action_memory_[s].line \in 0 .. MaxLines
            BY Zenon, <3>1, ActionFields
        <3>3. \A s \in Slots : pending_[s] => action_memory_[s].line <= lines
            BY Zenon DEF ReplayInv, LinesInv
        <3> QED BY <1>1, <3>2, <3>3
    <2>2. \A s \in Slots : pending_'[s] => action_memory_'[s].line < lines' /\ action_memory_'[s].line <= lines'
        <3>1. lines' = lines + 1 /\ lines \in Nat
            BY <1>2, <1>6
        <3> QED BY <2>1, <3>1
    <2>3. \A s, r \in Slots :
            /\ pending_'[s] /\ pending_'[r]
            /\ action_memory_'[s].line = action_memory_'[r].line
            /\ action_memory_'[s].line # 0
            => s = r
        BY <1>1 DEF ReplayInv, LinesInv
    <2>4. \A s \in Slots :
            ToRun(s)' /\ action_memory_'[s].line # 0 => executed'[action_memory_'[s].line] = 0
        BY <1>1, <1>13 DEF ReplayInv, LinesInv, SameWork
    <2>5. \A n \in 1 .. MaxLines :
            /\ n > lines' \/ (mpc' \in HasLine /\ n = lines') => n > lines
            /\ n < lines' \/ (mpc' \notin HasLine \cup {"err"} /\ n = lines') => n < lines \/ n = lines
        BY SMTT(30), <1>2, <1>4, <1>6
    <2>6. \A n \in 1 .. MaxLines :
            /\ executed'[n] <= 1
            /\ n > lines' \/ (mpc' \in HasLine /\ n = lines') => executed'[n] = 0
        BY <1>1, <2>5 DEF ReplayInv, LinesInv
    <2>7. \A n \in 1 .. MaxLines :
            n < lines' \/ (mpc' \notin HasLine \cup {"err"} /\ n = lines') =>
                \/ executed'[n] = 1
                \/ \E s \in Slots : ToRun(s)' /\ action_memory_'[s].line = n
        BY <1>1, <1>13, <2>5 DEF ReplayInv, LinesInv, SameWork
    <2> QED BY <2>2, <2>3, <2>4, <2>6, <2>7 DEF LinesInv
<1> QED BY <1>7, <1>8, <1>10, <1>11, <1>12, <1>14, <1>15 DEF ReplayInv

\* The action of the line is triggered.  Nothing is being freed then, and if
\* this action frees nothing else is pending.
LEMMA TriggerActionKeeps ==
    ASSUME ReplayInv, TriggerAction
    PROVE  ReplayInv'
<1> DEFINE a == action_memory_[cur]
<1>1. /\ mpc = "set_pending" /\ mpc' = "signal"
      /\ UNCHANGED <<tid_, action_memory_, runner, num_threads_, added, arg, pc, mainWaits, cur,
                     line, lines, i, threads, heap, live, allocated, executed>>
      /\ pending_' = [pending_ EXCEPT ![cur] = TRUE]
    BY DEF TriggerAction, SetPending, pointersVars, callVars, historyVars, traceVars
<1> USE DEF HasLine, HasThread, Ending
<1>2. /\ cur \in Slots /\ ~pending_[cur] /\ tid_[cur] # NoTid
      /\ a = ActionOf(line, lines) /\ a \in Actions /\ line \in Lines /\ lines \in 0 .. MaxLines
      /\ lines > 0
      /\ pending_ \in [Slots -> BOOLEAN]
    BY <1>1 DEF ReplayInv, ReplayTypeOK, SlotInv
<1>3. /\ pending_'[cur]
      /\ \A s \in Slots : s # cur => (pending_'[s] <=> pending_[s])
    BY <1>1, <1>2
<1>4. runner[cur] \in Unstarted /\ runner[cur] \notin Over
    <2>1. runner[cur] \notin Executing /\ runner[cur] # "none" /\ runner[cur] \notin {"end_signal", "exited"}
        BY <1>1, <1>2 DEF ReplayInv, RunnersInv, RunnerOK, EndInv
    <2> QED BY <1>2, <2>1 DEF ReplayInv, ReplayTypeOK, Over
<1>5. DoesFree(a) => Quiet
    BY <1>1 DEF ReplayInv, LoopInv
<1>6. \A s \in Slots : ~ToRemove(s)
    BY <1>1 DEF ReplayInv, AloneInv, ToRemove, ToRun
<1>7. ReplayTypeOK'
    BY <1>1, <1>2 DEF ReplayInv, ReplayTypeOK
<1>8. ThreadsInv'
    BY <1>1 DEF ReplayInv, ThreadsInv, Used
<1>9. RunnersInv'
    BY <1>1, <1>3, <1>4 DEF ReplayInv, RunnersInv, RunnerOK, Allocates, DoesFree, FreedKey, EndThread
<1>10. SlotInv' /\ LoopInv'
    BY <1>1 DEF ReplayInv, SlotInv, LoopInv
<1>11. EndInv'
    BY <1>1, <1>3 DEF ReplayInv, EndInv, EndThread
<1>12. AloneInv'
    BY <1>1, <1>3, <1>5 DEF ReplayInv, AloneInv, DoesFree, Quiet
<1>13. /\ a.type = line.type /\ a.key = line.key /\ a.old = line.old /\ a.line = lines
       /\ a.type \in Types /\ 0 \notin Keys
       /\ Allocates(a) => a.key \in Keys
    <2>1. a.type \in Types /\ (Allocates(a) => a.key \in Keys)
        BY Zenon, <1>2, ActionFields
    <2> HIDE DEF a
    <2>2. a.type = line.type /\ a.key = line.key /\ a.old = line.old /\ a.line = lines
        BY <1>2, LineAction
    <2> QED BY Zenon, <2>1, <2>2, ZeroIsNoKey
<1>14. /\ \A s \in Slots : ToRun(s)' <=> ToRun(s) \/ s = cur
       /\ \A s \in Slots : ToAdd(s)' <=> ToAdd(s) \/ (s = cur /\ Allocates(a))
       /\ \A s \in Slots : ToRemove(s)' <=> s = cur /\ DoesFree(a)
       /\ ~ToRun(cur) /\ ~ToAdd(cur)
    BY <1>1, <1>2, <1>3, <1>4, <1>6 DEF ToRun, ToAdd, ToRemove, Allocates, DoesFree
<1>15. ToBeRemoved = {} /\ ToBeRemoved' = IF DoesFree(a) THEN {FreedKey(a)} ELSE {}
    <2>1. ToBeRemoved = {}
        BY <1>6 DEF ToBeRemoved
    <2>2. {s \in Slots : ToRemove(s)}' = IF DoesFree(a) THEN {cur} ELSE {}
        BY <1>2, <1>14
    <2>3. ToBeRemoved' = IF DoesFree(a) THEN {FreedKey(a)} ELSE {}
        BY <1>1, <2>2 DEF ToBeRemoved, FreedKey
    <2> QED BY <2>1, <2>3
<1>16. ToBeAdded' = IF Allocates(a) THEN ToBeAdded \cup {a.key} ELSE ToBeAdded
    BY <1>1, <1>2, <1>14 DEF ToBeAdded
<1>17. DoesFree(a) => ToBeAdded = {}
    BY <1>5 DEF ToBeAdded, ToAdd, Quiet
<1>18. /\ PossibleFrom(WillBeBound, line) /\ live = After(WillBeBound, line)
       /\ WillBeBound = added \cup ToBeAdded /\ added \subseteq Keys
    BY <1>1, <1>15 DEF ReplayInv, ReplayTypeOK, KeysInv, WillBeBound
<1>19. ToBeAdded \subseteq Keys
    <2>1. \A s \in Slots : action_memory_[s] \in Actions
        BY DEF ReplayInv, ReplayTypeOK
    <2>2. \A s \in Slots : ToAdd(s) => action_memory_[s].key \in Keys
        BY Zenon, <2>1, ActionFields DEF ToAdd
    <2> QED BY Zenon, <2>2 DEF ToBeAdded
<1> HIDE DEF a
<1>20. /\ Allocates(a) => a.key \notin added \ ToBeRemoved' /\ a.key \notin ToBeAdded
       /\ DoesFree(a) => FreedKey(a) \in added
       /\ live = WillBeBound'
    <2>1. WillBeBound' = (added \ ToBeRemoved') \cup ToBeAdded'
        BY <1>1 DEF WillBeBound
    <2>2. CASE a.type = "malloc"
        <3>1. Allocates(a) /\ ~DoesFree(a)
            BY <2>2 DEF Allocates, DoesFree
        <3>2. a.key \notin added \cup ToBeAdded /\ live = (added \cup ToBeAdded) \cup {a.key}
            BY <1>13, <1>18, <2>2 DEF PossibleFrom, After
        <3> QED BY <1>15, <1>16, <2>1, <3>1, <3>2
    <2>3. CASE a.type = "realloc" /\ a.old = 0
        <3>1. Allocates(a) /\ ~DoesFree(a)
            BY <2>3 DEF Allocates, DoesFree
        <3>2. /\ a.key \notin (added \cup ToBeAdded) \ {0}
              /\ live = ((added \cup ToBeAdded) \ {0}) \cup {a.key}
            BY <1>13, <1>18, <2>3 DEF PossibleFrom, After
        <3>3. (added \cup ToBeAdded) \ {0} = added \cup ToBeAdded
            BY <1>13, <1>18, <1>19
        <3> QED BY <1>15, <1>16, <2>1, <3>1, <3>2, <3>3
    <2>4. CASE a.type = "realloc" /\ a.old # 0
        <3>1. Allocates(a) /\ DoesFree(a) /\ FreedKey(a) = a.old
            BY <2>4 DEF Allocates, DoesFree, FreedKey
        <3>2. /\ a.old \in added
              /\ a.key \notin added \ {a.old}
              /\ live = (added \ {a.old}) \cup {a.key}
            BY <1>13, <1>17, <1>18, <2>4, <3>1 DEF PossibleFrom, After
        <3> QED BY <1>15, <1>16, <1>17, <2>1, <3>1, <3>2
    <2>5. CASE a.type = "free" /\ a.key = 0
        <3>1. ~Allocates(a) /\ ~DoesFree(a)
            BY <2>5 DEF Allocates, DoesFree
        <3>2. live = (added \cup ToBeAdded) \ {0}
            BY <1>13, <1>18, <2>5 DEF After
        <3>3. (added \cup ToBeAdded) \ {0} = added \cup ToBeAdded
            BY <1>13, <1>18, <1>19
        <3> QED BY <1>15, <1>16, <2>1, <3>1, <3>2, <3>3
    <2>6. CASE a.type = "free" /\ a.key # 0
        <3>1. ~Allocates(a) /\ DoesFree(a) /\ FreedKey(a) = a.key
            BY <2>6 DEF Allocates, DoesFree, FreedKey
        <3>2. a.key \in added /\ live = added \ {a.key}
            BY <1>13, <1>17, <1>18, <2>6, <3>1 DEF PossibleFrom, After
        <3> QED BY <1>15, <1>16, <1>17, <2>1, <3>1, <3>2
    <2>7. CASE a.type = "thread_done"
        <3>1. ~Allocates(a) /\ ~DoesFree(a)
            BY <2>7 DEF Allocates, DoesFree
        <3>2. live = added \cup ToBeAdded
            BY <1>13, <1>18, <2>7 DEF After
        <3> QED BY <1>15, <1>16, <2>1, <3>1, <3>2
    <2> QED BY <1>13, <2>2, <2>3, <2>4, <2>5, <2>6, <2>7 DEF Types
<1>21. a = action_memory_[cur]
    BY DEF a
<1>22. KeysInv'
    <2>1. \A s \in Slots : ToAdd(s)' => action_memory_'[s].key \notin added' \ ToBeRemoved'
        BY Zenon, <1>1, <1>14, <1>15, <1>20, <1>21 DEF ReplayInv, KeysInv
    <2>2. \A s \in Slots : ToAdd(s) => action_memory_[s].key \in ToBeAdded
        BY DEF ToBeAdded
    <2>3. \A s, r \in Slots :
            ToAdd(s)' /\ ToAdd(r)' /\ action_memory_'[s].key = action_memory_'[r].key => s = r
        BY <1>1, <1>14, <1>20, <1>21, <2>2 DEF ReplayInv, KeysInv
    <2>4. \A s \in Slots : ToRemove(s)' => FreedKey(action_memory_[s])' \in added'
        BY <1>1, <1>14, <1>20, <1>21 DEF FreedKey
    <2>5. \A s \in Slots : runner'[s] = "adding" => arg'[s] \in added'
        BY <1>1 DEF ReplayInv, KeysInv
    <2> QED BY <1>1, <1>20, <2>1, <2>3, <2>4, <2>5 DEF KeysInv
<1>23. LinesInv'
    <2>1. \A s \in Slots : action_memory_[s].line \in Nat
        <3>1. \A s \in Slots : action_memory_[s] \in Actions
            BY DEF ReplayInv, ReplayTypeOK
        <3>2. \A s \in Slots : action_memory_[s].line \in 0 .. MaxLines
            BY Zenon, <3>1, ActionFields
        <3> QED BY <3>2
    <2>2. \A s \in Slots : pending_[s] => action_memory_[s].line < lines
        BY <1>1 DEF ReplayInv, LinesInv
    <2>3. lines \in 1 .. MaxLines /\ executed[lines] = 0
        BY SMTT(30), <1>1, <1>2 DEF ReplayInv, LinesInv
    <2>4. \A s \in Slots : pending_'[s] => action_memory_'[s].line <= lines'
        BY <1>1, <1>3, <1>13, <1>21, <2>1, <2>2, <2>3
    <2>5. \A s, r \in Slots :
            /\ pending_'[s] /\ pending_'[r]
            /\ action_memory_'[s].line = action_memory_'[r].line
            /\ action_memory_'[s].line # 0
            => s = r
        <3>1. \A s \in Slots : s # cur /\ pending_'[s] =>
                pending_[s] /\ action_memory_'[s].line = action_memory_[s].line /\ action_memory_[s].line < lines
            BY <1>1, <1>3, <2>2
        <3>2. action_memory_'[cur].line = lines
            BY <1>1, <1>13, <1>21
        <3>3. lines \in Nat /\ \A s \in Slots : action_memory_[s].line # lines \/ ~ (action_memory_[s].line < lines)
            BY <2>1, <2>3
        <3>4. \A s, r \in Slots :
                /\ pending_[s] /\ pending_[r]
                /\ action_memory_[s].line = action_memory_[r].line
                /\ action_memory_[s].line # 0
                => s = r
            BY DEF ReplayInv, LinesInv
        <3> QED BY Zenon, <3>1, <3>2, <3>3, <3>4
    <2>6. \A s \in Slots :
            ToRun(s)' /\ action_memory_'[s].line # 0 => executed'[action_memory_'[s].line] = 0
        BY Zenon, <1>1, <1>13, <1>14, <1>21, <2>3 DEF ReplayInv, LinesInv
    <2>7. \A n \in 1 .. MaxLines :
            /\ executed'[n] <= 1
            /\ n > lines' \/ (mpc' \in HasLine /\ n = lines') => executed'[n] = 0
        BY <1>1 DEF ReplayInv, LinesInv
    <2>8. \A n \in 1 .. MaxLines :
            n < lines' \/ (mpc' \notin HasLine \cup {"err"} /\ n = lines') =>
                \/ executed'[n] = 1
                \/ \E s \in Slots : ToRun(s)' /\ action_memory_'[s].line = n
        BY Zenon, <1>1, <1>2, <1>13, <1>14, <1>21 DEF ReplayInv, LinesInv
    <2> QED BY <1>1, <2>4, <2>5, <2>6, <2>7, <2>8 DEF LinesInv
<1> QED BY <1>7, <1>8, <1>9, <1>10, <1>11, <1>12, <1>22, <1>23 DEF ReplayInv

-----------------------------------------------------------------------------
(* Signals, joins, FinishAll and FreeAll.                                  *)

\* FinishAll ends the thread of an entry of the table.
LEMMA EndingSlot ==
    ASSUME ReplayInv
    PROVE  i \in Nat /\ (mpc \in Ending => i \in Slots /\ i + 1 \in 0 .. max_threads)
<1>1. i \in 0 .. max_threads
    BY DEF ReplayInv, ReplayTypeOK
<1>2. mpc \in Ending => i < max_threads
    BY DEF ReplayInv, SlotInv
<1>3. max_threads \in Nat
    BY ReplayAssumption
<1> QED BY <1>1, <1>2, <1>3 DEF Slots

\* Nothing is triggered at first.
LEMMA InitReplay == ReplayInit => ReplayInv
<1> SUFFICES ASSUME ReplayInit PROVE ReplayInv
    OBVIOUS
<1>1. /\ max_threads \in Nat \ {0} /\ 0 \in Slots /\ MaxLines \in Nat /\ Callers = Slots
      /\ NoSlot \notin Slots
    BY ReplayAssumption, SizeAssumption, SlotsAreFinite DEF Slots
<1>2. /\ added = {} /\ arg = [t \in Slots |-> 0] /\ pc = [t \in Slots |-> "idle"]
    BY <1>1 DEF ReplayInit, Init
<1>3. ReplayTypeOK
    BY <1>1, <1>2, EndActionFields
    DEF ReplayInit, ReplayTypeOK, Executing, Unstarted, Over, HasLine, HasThread, Ending
<1>4. ThreadsInv
    <2>1. Used = {}
        BY DEF ReplayInit, Used
    <2> QED BY <2>1, FS_EmptySet DEF ReplayInit, ThreadsInv
<1>5. RunnersInv
    BY <1>2 DEF ReplayInit, RunnersInv, RunnerOK, Executing
<1>6. SlotInv /\ LoopInv
    BY DEF ReplayInit, SlotInv, LoopInv, HasLine, HasThread, Ending
<1>7. EndInv /\ AloneInv
    BY DEF ReplayInit, EndInv, AloneInv
<1>8. \A s \in Slots : ~ToRun(s) /\ ~ToAdd(s) /\ ~ToRemove(s)
    BY DEF ReplayInit, ToRun, ToAdd, ToRemove
<1>9. WillBeBound = {}
    BY <1>2, <1>8 DEF WillBeBound, ToBeAdded
<1>10. KeysInv
    BY <1>8, <1>9 DEF ReplayInit, KeysInv, HasLine
<1>11. LinesInv
    BY <1>1, <1>8 DEF ReplayInit, LinesInv, HasLine
<1> QED BY <1>3, <1>4, <1>5, <1>6, <1>7, <1>10, <1>11 DEF ReplayInv

\* pthread_cond_signal only moves a waiting runner on.
LEMMA SignalMoves ==
    ASSUME NEW s \in Slots, Signal(s), ReplayTypeOK
    PROVE  /\ mainWaits' \in Slots \cup {NoSlot}
           /\ runner' \in [Slots -> Executing \cup Unstarted \cup Over]
           /\ \A r \in Slots : runner'[r] = runner[r] \/ (runner[r] = "blocked" /\ runner'[r] = "wait")
BY DEF Signal, ReplayTypeOK, Unstarted

\* The action is signalled; main goes where the action sends it.
LEMMA SignalActionKeeps ==
    ASSUME ReplayInv, SignalAction
    PROVE  ReplayInv'
<1>1. /\ mpc = "signal" /\ Signal(cur) /\ mpc' = AfterSignal
      /\ UNCHANGED <<tid_, pending_, action_memory_, num_threads_, added, arg, pc, cur,
                     line, lines, i, threads, heap, live, allocated, executed>>
    BY DEF SignalAction, pointersVars, callVars, historyVars, traceVars
<1> USE DEF HasLine, HasThread, Ending
<1>2. /\ mainWaits' \in Slots \cup {NoSlot}
      /\ runner' \in [Slots -> Executing \cup Unstarted \cup Over]
      /\ \A r \in Slots : runner'[r] = runner[r] \/ (runner[r] = "blocked" /\ runner'[r] = "wait")
    BY <1>1, SignalMoves DEF ReplayInv, ReplayTypeOK
<1>3. /\ EndThread(action_memory_[cur]) => mpc' = "finish"
      /\ DoesFree(action_memory_[cur]) => mpc' = "wait_done"
      /\ mpc' = "finish" => EndThread(action_memory_[cur])
      /\ mpc' = "wait_done" => DoesFree(action_memory_[cur])
      /\ mpc' \in {"finish", "wait_done", "read"}
    BY <1>1 DEF AfterSignal, EndThread, DoesFree
<1>4. ReplayTypeOK'
    BY <1>1, <1>2, <1>3 DEF ReplayInv, ReplayTypeOK
<1>5. ThreadsInv'
    BY <1>1 DEF ReplayInv, ThreadsInv, Used
<1>6. RunnersInv'
    <2>1. ASSUME NEW r \in Slots, runner'[r] = runner[r] PROVE RunnerOK(r)'
        BY <1>1, <2>1, RunnerKept DEF ReplayInv, RunnersInv
    <2>2. ASSUME NEW r \in Slots, runner[r] = "blocked", runner'[r] = "wait" PROVE RunnerOK(r)'
        BY <1>1, <2>2 DEF ReplayInv, RunnersInv, RunnerOK, Executing, Over
    <2> QED BY <1>2, <2>1, <2>2 DEF RunnersInv
<1>7. SlotInv' /\ LoopInv'
    BY <1>1, <1>3 DEF ReplayInv, SlotInv, LoopInv, DoesFree, EndThread
<1>8. EndInv'
    <2>1. \A s \in Slots : runner'[s] \in {"end_signal", "exited"} => runner[s] = runner'[s]
        BY <1>2
    <2>2. \A s \in Slots : runner[s] \in {"end_signal", "exited"} => EndThread(action_memory_[s])
        BY DEF ReplayInv, RunnersInv, RunnerOK
    <2> QED BY <1>1, <1>3, <2>1, <2>2 DEF ReplayInv, EndInv, EndThread
<1>9. AloneInv'
    BY Zenon, <1>1, <1>3 DEF ReplayInv, AloneInv, DoesFree
<1>10. KeysInv' /\ LinesInv'
    <2>1. SameWork
        BY <1>1, <1>2 DEF SameWork, ToRun, ToAdd, Allocates, Unstarted
    <2>2. SameSide
        BY <1>1, <1>3 DEF SameSide
    <2> QED BY <1>1, <2>1, <2>2, SameWorkKeepsKeys, SameWorkKeepsLines DEF ReplayInv
<1> QED BY <1>4, <1>5, <1>6, <1>7, <1>8, <1>9, <1>10 DEF ReplayInv

\* FinishAll signals the action that ends a thread.
LEMMA FinishAllSignalKeeps ==
    ASSUME ReplayInv, FinishAllSignal
    PROVE  ReplayInv'
<1>1. /\ mpc = "finish_all_signal" /\ Signal(i) /\ mpc' = "finish_all_join"
      /\ UNCHANGED <<tid_, pending_, action_memory_, num_threads_, added, arg, pc, cur,
                     line, lines, i, threads, heap, live, allocated, executed>>
    BY DEF FinishAllSignal, pointersVars, callVars, historyVars, traceVars
<1> USE DEF HasLine, HasThread, Ending
<1>2. i \in Slots
    BY <1>1, EndingSlot
<1>3. /\ mainWaits' \in Slots \cup {NoSlot}
      /\ runner' \in [Slots -> Executing \cup Unstarted \cup Over]
      /\ \A r \in Slots : runner'[r] = runner[r] \/ (runner[r] = "blocked" /\ runner'[r] = "wait")
    BY <1>1, <1>2, SignalMoves DEF ReplayInv
<1>4. ReplayTypeOK'
    BY <1>1, <1>3 DEF ReplayInv, ReplayTypeOK
<1>5. ThreadsInv'
    BY <1>1 DEF ReplayInv, ThreadsInv, Used
<1>6. RunnersInv'
    <2>1. ASSUME NEW r \in Slots, runner'[r] = runner[r] PROVE RunnerOK(r)'
        BY <1>1, <2>1, RunnerKept DEF ReplayInv, RunnersInv
    <2>2. ASSUME NEW r \in Slots, runner[r] = "blocked", runner'[r] = "wait" PROVE RunnerOK(r)'
        BY <1>1, <2>2 DEF ReplayInv, RunnersInv, RunnerOK, Executing, Over
    <2> QED BY <1>3, <2>1, <2>2 DEF RunnersInv
<1>7. SlotInv' /\ LoopInv'
    BY <1>1 DEF ReplayInv, SlotInv, LoopInv
<1>8. EndInv'
    BY <1>1, <1>3 DEF ReplayInv, EndInv, EndThread
<1>9. AloneInv'
    BY <1>1 DEF ReplayInv, AloneInv, DoesFree
<1>10. KeysInv' /\ LinesInv'
    <2>1. SameWork
        BY <1>1, <1>3 DEF SameWork, ToRun, ToAdd, Allocates, Unstarted
    <2>2. SameSide
        BY <1>1 DEF SameSide
    <2> QED BY <1>1, <2>1, <2>2, SameWorkKeepsKeys, SameWorkKeepsLines DEF ReplayInv
<1> QED BY <1>4, <1>5, <1>6, <1>7, <1>8, <1>9, <1>10 DEF ReplayInv

\* A joined thread leaves its entry free; it had no action pending.
LEMMA JoinKeeps ==
    ASSUME ReplayInv, NEW s \in Slots,
           \/ mpc = "finish" /\ cur = s /\ Join(s, "read")
           \/ mpc = "finish_all_join" /\ i = s /\ Join(s, "finish_all"),
           UNCHANGED <<pending_, action_memory_, added, arg, pc, cur, line, lines, live, executed>>
    PROVE  /\ tid_' = [tid_ EXCEPT ![s] = NoTid] /\ ~pending_[s]
           /\ tid_' \in [Slots -> Tids \cup {NoTid}] /\ num_threads_' \in Nat
           /\ runner' \in [Slots -> Executing \cup Unstarted \cup Over]
           /\ ThreadsInv' /\ RunnersInv' /\ EndInv' /\ AloneInv' /\ KeysInv' /\ LinesInv'
<1> USE DEF HasLine, HasThread, Ending
<1>1. /\ runner[s] = "exited" /\ runner' = [runner EXCEPT ![s] = "none"]
      /\ tid_' = [tid_ EXCEPT ![s] = NoTid]
      /\ num_threads_' = num_threads_ - 1
    BY DEF Join
<1>2. /\ ~pending_[s] /\ tid_[s] # NoTid
      /\ tid_ \in [Slots -> Tids \cup {NoTid}]
      /\ runner \in [Slots -> Executing \cup Unstarted \cup Over]
    BY <1>1 DEF ReplayInv, ReplayTypeOK, RunnersInv, RunnerOK, Over
<1>3. /\ tid_'[s] = NoTid /\ runner'[s] = "none"
      /\ \A r \in Slots : r # s => tid_'[r] = tid_[r] /\ runner'[r] = runner[r]
    BY <1>1, <1>2
<1>4. ThreadsInv' /\ num_threads_' \in Nat
    <2>1. IsFiniteSet(Used) /\ s \in Used
        BY <1>2, SlotsAreFinite, FS_Subset DEF Used
    <2>2. Used' = Used \ {s}
        BY <1>3 DEF Used
    <2>3. num_threads_' = Cardinality(Used') /\ IsFiniteSet(Used')
        BY <1>1, <2>1, <2>2, FS_RemoveElement DEF ReplayInv, ThreadsInv
    <2>4. \A q, r \in Slots : tid_'[q] = tid_'[r] /\ tid_'[q] # NoTid => q = r
        BY <1>3 DEF ReplayInv, ThreadsInv
    <2> QED BY <2>3, <2>4, FS_CardinalityType DEF ThreadsInv
<1>5. RunnersInv'
    <2>1. RunnerOK(s)'
        BY <1>1, <1>2, <1>3 DEF ReplayInv, RunnersInv, RunnerOK, Executing, Over
    <2>2. \A r \in Slots : r # s => RunnerOK(r)'
        BY Zenon, <1>3, RunnerKept DEF ReplayInv, RunnersInv
    <2> QED BY <2>1, <2>2 DEF RunnersInv
<1>6. EndInv'
    BY <1>2, <1>3 DEF ReplayInv, EndInv, EndThread
<1>7. mpc' \in {"read", "finish_all"}
    BY DEF Join
<1>8. AloneInv'
    BY DEF ReplayInv, AloneInv, DoesFree
<1>9. KeysInv' /\ LinesInv'
    <2>1. SameWork
        BY <1>1, <1>2, <1>3 DEF SameWork, ToRun, ToAdd, Allocates
    <2>2. SameSide
        BY <1>7 DEF SameSide
    <2> QED BY <2>1, <2>2, SameWorkKeepsKeys, SameWorkKeepsLines DEF ReplayInv
<1> QED BY <1>1, <1>2, <1>4, <1>5, <1>6, <1>8, <1>9 DEF Over

\* A thread whose dump says that it is done is joined.
LEMMA FinishKeeps ==
    ASSUME ReplayInv, Finish
    PROVE  ReplayInv'
<1>1. /\ mpc = "finish" /\ Join(cur, "read") /\ mpc' = "read"
      /\ UNCHANGED <<pending_, action_memory_, added, arg, pc, mainWaits, cur, line, lines, i,
                     threads, heap, live, allocated, executed>>
    BY DEF Finish, Join, pointersVars, callVars, historyVars, traceVars
<1>2. cur \in Slots
    BY DEF ReplayInv, ReplayTypeOK
<1> USE DEF HasLine, HasThread, Ending
<1>3. ReplayTypeOK'
    BY <1>1, <1>2, JoinKeeps DEF ReplayInv, ReplayTypeOK
<1>4. SlotInv' /\ LoopInv'
    BY <1>1 DEF SlotInv, LoopInv
<1> QED BY <1>1, <1>2, <1>3, <1>4, JoinKeeps DEF ReplayInv

\* FinishAll joins the thread it has ended.
LEMMA FinishAllJoinKeeps ==
    ASSUME ReplayInv, FinishAllJoin
    PROVE  ReplayInv'
<1>1. /\ mpc = "finish_all_join" /\ Join(i, "finish_all") /\ mpc' = "finish_all" /\ i' = i + 1
      /\ UNCHANGED <<pending_, action_memory_, added, arg, pc, mainWaits, cur, line, lines,
                     threads, heap, live, allocated, executed>>
    BY DEF FinishAllJoin, Join, pointersVars, callVars, historyVars, traceVars
<1> USE DEF HasLine, HasThread, Ending
<1>2. i \in Slots /\ i' \in 0 .. max_threads /\ Slots \subseteq Nat
    BY <1>1, EndingSlot, SlotsAreFinite
<1>3. /\ tid_' = [tid_ EXCEPT ![i] = NoTid] /\ ~pending_[i]
      /\ tid_' \in [Slots -> Tids \cup {NoTid}] /\ num_threads_' \in Nat
      /\ runner' \in [Slots -> Executing \cup Unstarted \cup Over]
      /\ ThreadsInv' /\ RunnersInv' /\ EndInv' /\ AloneInv' /\ KeysInv' /\ LinesInv'
    BY <1>1, <1>2, JoinKeeps
<1>4. ReplayTypeOK'
    BY <1>1, <1>2, <1>3 DEF ReplayInv, ReplayTypeOK
<1>5. SlotInv'
    BY <1>1 DEF SlotInv
<1>6. LoopInv'
    <2>1. Quiet'
        BY <1>1, <1>3 DEF ReplayInv, LoopInv, Quiet
    <2>2. ASSUME NEW r \in Slots, r < i' PROVE tid_'[r] = NoTid
        <3>1. r < i \/ r = i
            BY <1>1, <1>2, <2>2
        <3> QED BY <1>1, <1>2, <1>3, <3>1 DEF ReplayInv, ReplayTypeOK, LoopInv
    <2> QED BY <1>1, <2>1, <2>2 DEF LoopInv
<1> QED BY <1>3, <1>4, <1>5, <1>6 DEF ReplayInv

\* FinishAll triggers the end of the next thread; nothing else is pending.
LEMMA FinishAllEntryKeeps ==
    ASSUME ReplayInv, FinishAllEntry
    PROVE  ReplayInv'
<1>1. /\ mpc = "finish_all"
      /\ UNCHANGED <<tid_, runner, num_threads_, added, arg, pc, mainWaits, cur, line, lines,
                     threads, heap, live, allocated, executed>>
    BY DEF FinishAllEntry, pointersVars, callVars, historyVars, traceVars
<1> USE DEF HasLine, HasThread, Ending
<1>2. /\ Quiet /\ \A r \in Slots : r < i => tid_[r] = NoTid
      /\ i \in 0 .. max_threads /\ max_threads \in Nat
    BY <1>1, ReplayAssumption DEF ReplayInv, LoopInv, ReplayTypeOK
<1>3. CASE i = max_threads /\ mpc' = "free_all" /\ UNCHANGED <<i, pending_, action_memory_>>
    <2>1. ThreadsInv' /\ RunnersInv' /\ KeysInv' /\ LinesInv'
        BY <1>1, <1>3, MainMoves DEF slotVars, SameSide
    <2>2. ReplayTypeOK'
        BY <1>1, <1>3 DEF ReplayInv, ReplayTypeOK
    <2>3. SlotInv' /\ EndInv' /\ AloneInv'
        BY <1>1, <1>3 DEF ReplayInv, SlotInv, EndInv, AloneInv, EndThread, DoesFree
    <2>4. LoopInv'
        <3>1. \A r \in Slots : r < i
            BY <1>2, <1>3 DEF Slots
        <3> QED BY <1>1, <1>2, <1>3, <3>1 DEF LoopInv
    <2> QED BY <2>1, <2>2, <2>3, <2>4 DEF ReplayInv
<1>4. CASE i < max_threads /\ tid_[i] = NoTid /\ i' = i + 1 /\ UNCHANGED <<mpc, pending_, action_memory_>>
    <2>1. ThreadsInv' /\ RunnersInv' /\ KeysInv' /\ LinesInv'
        BY <1>1, <1>4, MainMoves DEF slotVars, SameSide
    <2>2. ReplayTypeOK'
        BY SMTT(30), <1>1, <1>2, <1>4 DEF ReplayInv, ReplayTypeOK
    <2>3. SlotInv' /\ EndInv' /\ AloneInv'
        BY <1>1, <1>4 DEF ReplayInv, SlotInv, EndInv, AloneInv, EndThread, DoesFree
    <2>4. LoopInv'
        <3>1. \A r \in Slots : r < i' => r < i \/ r = i
            BY <1>2, <1>4, SlotsAreFinite
        <3>2. \A r \in Slots : r < i' => tid_[r] = NoTid
            BY <1>2, <1>4, <3>1
        <3> QED BY <1>1, <1>2, <1>4, <3>2 DEF LoopInv, Quiet
    <2> QED BY <2>1, <2>2, <2>3, <2>4 DEF ReplayInv
<1>5. CASE /\ i < max_threads /\ tid_[i] # NoTid
           /\ action_memory_' = [action_memory_ EXCEPT ![i] = EndThreadAction]
           /\ pending_' = [pending_ EXCEPT ![i] = TRUE]
           /\ mpc' = "finish_all_signal" /\ UNCHANGED i
    <2>1. i \in Slots
        BY <1>2, <1>5 DEF Slots
    <2>2. /\ pending_'[i] /\ action_memory_'[i] = EndThreadAction
          /\ \A s \in Slots : s # i => pending_'[s] = pending_[s] /\ action_memory_'[s] = action_memory_[s]
          /\ pending_' \in [Slots -> BOOLEAN] /\ action_memory_' \in [Slots -> Actions]
        BY <1>5, <2>1, EndActionFields DEF ReplayInv, ReplayTypeOK
    <2>3. \A s \in Slots : pending_'[s] => s = i
        BY <1>2, <2>2 DEF Quiet
    <2>4. ReplayTypeOK'
        BY <1>1, <1>5, <2>2 DEF ReplayInv, ReplayTypeOK
    <2>5. ThreadsInv'
        BY <1>1 DEF ReplayInv, ThreadsInv, Used
    <2>6. \A s \in Slots : runner[s] \notin Executing /\ runner[s] \notin {"end_signal", "exited"}
        BY <1>1, <1>2 DEF ReplayInv, RunnersInv, RunnerOK, EndInv, Quiet
    <2>7. RunnersInv'
        <3>1. \A s \in Slots : runner'[s] \in Over => ~pending_'[s]
            BY <1>1, <1>5, <2>3, <2>6 DEF ReplayInv, RunnersInv, RunnerOK, Over
        <3> QED BY Zenon, <1>1, <2>6, <3>1 DEF ReplayInv, RunnersInv, RunnerOK, Executing
    <2>8. SlotInv'
        BY <1>1, <1>5, <2>2 DEF SlotInv
    <2>9. EndInv'
        BY <1>1, <1>5, <2>3, <2>6 DEF EndInv
    <2>10. LoopInv'
        BY <1>1, <1>2, <1>5, <2>3 DEF LoopInv
    <2>11. \A s \in Slots : pending_'[s] => ~DoesFree(action_memory_[s])' /\ ~Allocates(action_memory_[s])'
        BY <2>2, <2>3, EndActionFields DEF DoesFree, Allocates
    <2>12. AloneInv'
        BY <2>11 DEF AloneInv
    <2>13. \A s \in Slots : /\ ~ToRun(s) /\ ~ToAdd(s) /\ ~ToRemove(s)
                            /\ ~ToAdd(s)' /\ ~ToRemove(s)'
        BY <1>2, <2>11 DEF Quiet, ToRun, ToAdd, ToRemove
    <2>14. WillBeBound = added /\ WillBeBound' = added
        BY <1>1, <2>13 DEF WillBeBound, ToBeAdded, ToBeRemoved
    <2>15. KeysInv'
        BY <1>1, <1>5, <2>13, <2>14 DEF ReplayInv, KeysInv
    <2>16. LinesInv'
        <3>1. EndThreadAction.line = 0 /\ lines \in Nat
            BY SMTT(30), EndActionFields DEF ReplayInv, ReplayTypeOK
        <3>2. \A s \in Slots : pending_'[s] => action_memory_'[s].line = 0
            BY <2>2, <2>3, <3>1
        <3>3. \A s \in Slots : pending_'[s] => action_memory_'[s].line <= lines'
            BY <1>1, <3>1, <3>2
        <3>4. \A s \in Slots : ToRun(s)' => action_memory_'[s].line = 0
            BY <3>2 DEF ToRun
        <3>5. \A n \in 1 .. MaxLines :
                /\ executed'[n] <= 1
                /\ n > lines' \/ (mpc' \in HasLine /\ n = lines') => executed'[n] = 0
            BY <1>1, <1>5 DEF ReplayInv, LinesInv
        <3>6. \A n \in 1 .. MaxLines :
                n < lines' \/ (mpc' \notin HasLine \cup {"err"} /\ n = lines') => executed'[n] = 1
            BY <1>1, <1>5, <2>13 DEF ReplayInv, LinesInv
        <3> QED BY <1>5, <2>3, <3>3, <3>4, <3>5, <3>6 DEF LinesInv
    <2> QED BY <2>4, <2>5, <2>7, <2>8, <2>9, <2>10, <2>12, <2>15, <2>16 DEF ReplayInv
<1> QED BY <1>3, <1>4, <1>5 DEF FinishAllEntry, SetPending

\* FreeAll frees what the table still has.
LEMMA FreeAllKeeps ==
    ASSUME ReplayInv, FreeAll
    PROVE  ReplayInv'
<1>1. /\ mpc = "free_all" /\ mpc' = "done" /\ heap' \subseteq heap
      /\ UNCHANGED <<slotVars, mainWaits, cur, line, lines, i, threads, live, allocated, executed>>
    BY DEF FreeAll, pointersVars, callVars, historyVars, threadVars, traceVars, slotVars
<1> USE DEF HasLine, HasThread, Ending
<1>2. ThreadsInv' /\ RunnersInv' /\ KeysInv' /\ LinesInv'
    BY <1>1, MainMoves DEF SameSide
<1>3. ReplayTypeOK'
    BY <1>1 DEF ReplayInv, ReplayTypeOK, slotVars
<1>4. SlotInv' /\ LoopInv'
    BY <1>1 DEF ReplayInv, SlotInv, LoopInv, slotVars
<1>5. EndInv' /\ AloneInv'
    BY <1>1 DEF ReplayInv, EndInv, AloneInv, slotVars
<1> QED BY <1>2, <1>3, <1>4, <1>5 DEF ReplayInv

\* Every step of the replay keeps ReplayInv, given that a Remove that has
\* returned gave a piece of memory.
LEMMA NextReplay ==
    ASSUME ReplayInv, [ReplayNext]_vars,
           \A s \in Slots : Removed(s) => result[s] \in Memory
    PROVE  ReplayInv'
<1>1. CASE UNCHANGED vars
    <2>1. UNCHANGED <<slotVars, mpc, mainWaits, cur, line, lines, i, threads, heap, live, allocated, executed>>
        BY <1>1 DEF vars, pointersVars, callVars, historyVars, threadVars, mainVars, traceVars, slotVars
    <2>2. ThreadsInv' /\ RunnersInv'
        BY Zenon, <2>1 DEF ReplayInv, slotVars, ThreadsInv, Used, RunnersInv, RunnerOK, DoesFree, Allocates, FreedKey,
                    EndThread
    <2>3. ReplayTypeOK' /\ SlotInv' /\ LoopInv'
        <3>1. ReplayTypeOK'
            BY Zenon, <2>1 DEF ReplayInv, ReplayTypeOK, slotVars
        <3>2. SlotInv'
            BY Zenon, <2>1 DEF ReplayInv, SlotInv, slotVars
        <3>3. LoopInv'
            BY Zenon, <2>1 DEF ReplayInv, LoopInv, Quiet, slotVars
        <3> QED BY <3>1, <3>2, <3>3
    <2>4. EndInv' /\ AloneInv'
        BY Zenon, <2>1 DEF ReplayInv, EndInv, AloneInv, slotVars
    <2>5. SameWork
        BY Zenon, <2>1 DEF slotVars, SameWork, ToRun, ToAdd
    <2>6. KeysInv' /\ LinesInv'
        <3>1. CASE mpc = "err"
            BY <2>1, <2>5, <3>1, SameWorkKeepsKeys, SameWorkKeepsLines DEF ReplayInv, SameSide
        <3>2. CASE mpc # "err"
            BY <2>1, <2>5, <3>2, SameWorkKeepsKeys, SameWorkKeepsLines DEF ReplayInv, SameSide
        <3> QED BY <3>1, <3>2
    <2> QED BY <2>2, <2>3, <2>4, <2>6 DEF ReplayInv
<1>2. CASE Main
    BY <1>2, ReadLineKeeps, WaitForPreviousActionKeeps, UnusableLineKeeps, CreateActionKeeps,
       WaitForAllToQuiesceKeeps, TriggerActionKeeps, SignalActionKeeps, FinishKeeps,
       WaitForFreeKeeps, EndOfDumpKeeps, FinishAllEntryKeeps, FinishAllSignalKeeps,
       FinishAllJoinKeeps, FreeAllKeeps
    DEF Main
<1>3. ASSUME NEW s \in Slots, Runner(s) PROVE ReplayInv'
    BY <1>3, WaitForPendingKeeps, ExecuteKeeps, TableStepKeeps, RemovedKeeps, AddedKeeps,
       ClearPendingKeeps, RunnerSignalKeeps
    DEF Runner
<1> QED BY <1>1, <1>2, <1>3 DEF ReplayNext, Terminated

\* main never touches the table; only FreeAll touches the heap, and only the
\* threads themselves start or end a call.
LEMMA MainShape ==
    ASSUME ReplayInv, Main
    PROVE  /\ UNCHANGED <<pointersVars, allocated>>
           /\ mpc # "done"
           /\ FreeAll \/ (heap' = heap /\ mpc' # "done")
           /\ \A s \in Slots : runner'[s] = "removing" <=> runner[s] = "removing"
<1> USE DEF traceVars
<1>1. CASE ReadLine
    <2>1. /\ UNCHANGED <<pointersVars, allocated, heap>> /\ mpc = "read"
          /\ \E l \in Lines :
                \/ UNCHANGED runner /\ mpc' \in {"wait_ready", "err"}
                \/ /\ FindEmptyEntry(l.tid) # NoSlot /\ mpc' = "wait_ready"
                   /\ \E x \in {"wait", "failed"} : runner' = [runner EXCEPT ![FindEmptyEntry(l.tid)] = x]
        <3>1. UNCHANGED <<pointersVars, allocated, heap>> /\ mpc = "read"
            BY <1>1 DEF ReadLine
        <3>2. PICK l \in Lines :
                \/ CreateThread(l.tid)
                \/ mpc' = "wait_ready" /\ UNCHANGED <<tid_, runner, num_threads_>>
            BY <1>1 DEF ReadLine
        <3>3. \/ UNCHANGED runner /\ mpc' \in {"wait_ready", "err"}
              \/ /\ FindEmptyEntry(l.tid) # NoSlot /\ mpc' = "wait_ready"
                 /\ \E x \in {"wait", "failed"} : runner' = [runner EXCEPT ![FindEmptyEntry(l.tid)] = x]
            BY <3>2 DEF CreateThread
        <3> QED BY <3>1, <3>3
    <2>2. ASSUME NEW l \in Lines, FindEmptyEntry(l.tid) # NoSlot
          PROVE  FindEmptyEntry(l.tid) \in Slots /\ runner[FindEmptyEntry(l.tid)] = "none"
        <3>1. l.tid \in Tids
            BY DEF Lines
        <3>2. FindEmptyEntry(l.tid) \in Slots /\ tid_[FindEmptyEntry(l.tid)] = NoTid
            BY <2>2, <3>1, FindEmptyFinds
        <3> QED BY <3>2 DEF ReplayInv, RunnersInv, RunnerOK
    <2> QED BY <2>1, <2>2 DEF ReplayInv, ReplayTypeOK
<1>2. CASE WaitForPreviousAction \/ WaitForFree \/ UnusableLine
    BY <1>2 DEF WaitForPreviousAction, WaitForFree, WaitForReady, UnusableLine, threadVars
<1>3. CASE CreateAction \/ TriggerAction \/ EndOfDump \/ FinishAllEntry
    BY <1>3 DEF CreateAction, TriggerAction, EndOfDump, FinishAllEntry, threadVars
<1>4. CASE WaitForAllToQuiesce
    BY <1>4 DEF WaitForAllToQuiesce, QuiesceStep, threadVars
<1>5. CASE SignalAction
    <2>1. \A r \in Slots : runner'[r] = runner[r] \/ (runner[r] = "blocked" /\ runner'[r] = "wait")
        BY <1>5, SignalMoves DEF SignalAction, ReplayInv, ReplayTypeOK
    <2>2. mpc' # "done"
        BY <1>5 DEF SignalAction, AfterSignal
    <2> QED BY <1>5, <2>1, <2>2 DEF SignalAction
<1>6. CASE FinishAllSignal
    <2>1. i \in Slots
        BY <1>6, EndingSlot DEF FinishAllSignal, Ending
    <2>2. \A r \in Slots : runner'[r] = runner[r] \/ (runner[r] = "blocked" /\ runner'[r] = "wait")
        BY <1>6, <2>1, SignalMoves DEF FinishAllSignal, ReplayInv
    <2> QED BY <1>6, <2>2 DEF FinishAllSignal
<1>7. CASE Finish \/ FinishAllJoin
    BY <1>7 DEF Finish, FinishAllJoin, Join, ReplayInv, ReplayTypeOK
<1>8. CASE FreeAll
    BY <1>8 DEF FreeAll, threadVars
<1> QED BY <1>1, <1>2, <1>3, <1>4, <1>5, <1>6, <1>7, <1>8 DEF Main

-----------------------------------------------------------------------------
(* The table is sized by the lines of the dump: the threads call Add no    *)
(* more often than there are lines.                                        *)

\* The slots whose action is still to call Add.
Adders == {s \in Slots : ToAdd(s)}

\* The line that main holds and has not handed to its thread.
InHand == IF mpc \in HasLine THEN 1 ELSE 0

\* A line is worth one Add: made, in a slot, or in the hands of main.
AddsInv ==
    /\ adds \in Nat
    /\ adds + Cardinality(Adders) + InHand <= lines

\* The quantities that AddsInv adds up are numbers.
LEMMA AddsAreNumbers ==
    ASSUME ReplayInv, AddsInv
    PROVE  /\ IsFiniteSet(Adders) /\ Cardinality(Adders) \in Nat
           /\ adds \in Nat /\ lines \in Nat /\ InHand \in 0 .. 1
           /\ MaxAdds \in Nat /\ lines <= MaxAdds
<1>1. IsFiniteSet(Adders) /\ Cardinality(Adders) \in Nat
    BY SlotsAreFinite, FS_Subset, FS_CardinalityType DEF Adders
<1>2. adds \in Nat /\ lines \in Nat /\ lines <= MaxAdds /\ MaxAdds \in Nat
    BY ReplayAssumption, SizeAssumption DEF ReplayInv, ReplayTypeOK, AddsInv
<1> QED BY <1>1, <1>2 DEF InHand

\* A step that calls no Add and puts no allocation in a slot.
LEMMA NoMoreAdders ==
    ASSUME ReplayInv, AddsInv, adds' = adds,
           \A s \in Slots : ToAdd(s)' => ToAdd(s),
           \/ lines' = lines /\ (mpc' \in HasLine => mpc \in HasLine)
           \/ lines' = lines + 1
    PROVE  AddsInv'
<1>1. Adders' \subseteq Adders
    BY DEF Adders
<1>2. Cardinality(Adders') <= Cardinality(Adders) /\ Cardinality(Adders') \in Nat
    BY <1>1, AddsAreNumbers, FS_Subset, FS_CardinalityType
<1>3. Cardinality(Adders)' = Cardinality(Adders')
    OBVIOUS
<1>4. InHand' \in 0 .. 1 /\ InHand \in 0 .. 1 /\ (lines' = lines + 1 \/ (lines' = lines /\ InHand' <= InHand))
    BY DEF InHand
<1> QED BY <1>2, <1>3, <1>4, AddsAreNumbers DEF AddsInv

\* An allocation is put in the slot of its thread.
LEMMA TriggerKeepsAdds ==
    ASSUME ReplayInv, AddsInv, TriggerAction
    PROVE  AddsInv'
<1>1. /\ mpc = "set_pending" /\ mpc' = "signal" /\ cur \in Slots
      /\ pending_' = [pending_ EXCEPT ![cur] = TRUE]
      /\ pending_ \in [Slots -> BOOLEAN]
      /\ UNCHANGED <<action_memory_, runner, lines, adds>>
    BY DEF TriggerAction, SetPending, pointersVars, historyVars, ReplayInv, ReplayTypeOK
<1>2. Adders' \subseteq Adders \cup {cur}
    BY <1>1 DEF Adders, ToAdd
<1>3. /\ IsFiniteSet(Adders \cup {cur})
      /\ Cardinality(Adders \cup {cur}) <= Cardinality(Adders) + 1
      /\ Cardinality(Adders \cup {cur}) \in Nat
    <2>1. IsFiniteSet(Adders)
        BY AddsAreNumbers
    <2>2. /\ IsFiniteSet(Adders \cup {cur})
          /\ \/ Cardinality(Adders \cup {cur}) = Cardinality(Adders)
             \/ Cardinality(Adders \cup {cur}) = Cardinality(Adders) + 1
        BY <2>1, FS_AddElement
    <2> QED BY <2>2, AddsAreNumbers
<1>4. Cardinality(Adders') <= Cardinality(Adders) + 1 /\ Cardinality(Adders') \in Nat
    BY <1>2, <1>3, AddsAreNumbers, FS_Subset, FS_CardinalityType
<1>5. Cardinality(Adders)' = Cardinality(Adders')
    OBVIOUS
<1>6. InHand = 1 /\ InHand' = 0
    BY <1>1 DEF InHand, HasLine
<1> QED BY <1>1, <1>4, <1>5, <1>6, AddsAreNumbers DEF AddsInv

\* A thread calls Add: its action is no longer to do it.
LEMMA AddKeepsAdds ==
    ASSUME ReplayInv, AddsInv, NEW s \in Slots, ToAdd(s), ~ToAdd(s)', adds' = adds + 1,
           \A r \in Slots : r # s /\ ToAdd(r)' => ToAdd(r),
           UNCHANGED <<lines, mpc>>
    PROVE  AddsInv'
<1>1. Adders' \subseteq Adders \ {s} /\ s \in Adders
    BY DEF Adders
<1>2. /\ IsFiniteSet(Adders \ {s})
      /\ Cardinality(Adders \ {s}) = Cardinality(Adders) - 1
    BY <1>1, AddsAreNumbers, FS_RemoveElement
<1>3. Cardinality(Adders') <= Cardinality(Adders) - 1 /\ Cardinality(Adders') \in Nat
    BY <1>1, <1>2, FS_Subset, FS_CardinalityType
<1>4. Cardinality(Adders)' = Cardinality(Adders') /\ InHand' = InHand
    BY DEF InHand
<1> QED BY <1>3, <1>4, AddsAreNumbers DEF AddsInv

\* main puts no other allocation in a slot.
LEMMA MainKeepsAdds ==
    ASSUME ReplayInv, AddsInv, Main
    PROVE  AddsInv'
<1>1. adds' = adds
    BY MainShape DEF pointersVars, historyVars
<1> USE DEF ToAdd
<1>2. CASE ReadLine
    <2>1. /\ lines' = lines + 1 /\ UNCHANGED <<pending_, action_memory_>>
          /\ \E l \in Lines :
                \/ UNCHANGED runner
                \/ /\ FindEmptyEntry(l.tid) # NoSlot
                   /\ \E x : runner' = [runner EXCEPT ![FindEmptyEntry(l.tid)] = x]
        <3>1. lines' = lines + 1 /\ UNCHANGED <<pending_, action_memory_>>
            BY <1>2 DEF ReadLine
        <3>2. PICK l \in Lines : CreateThread(l.tid) \/ UNCHANGED <<tid_, runner, num_threads_>>
            BY <1>2 DEF ReadLine
        <3>3. \/ UNCHANGED runner
              \/ /\ FindEmptyEntry(l.tid) # NoSlot
                 /\ \E x : runner' = [runner EXCEPT ![FindEmptyEntry(l.tid)] = x]
            BY <3>2 DEF CreateThread
        <3> QED BY <3>1, <3>3
    <2>2. ASSUME NEW l \in Lines, FindEmptyEntry(l.tid) # NoSlot
          PROVE  FindEmptyEntry(l.tid) \in Slots /\ ~pending_[FindEmptyEntry(l.tid)]
        <3>1. l.tid \in Tids
            BY DEF Lines
        <3>2. FindEmptyEntry(l.tid) \in Slots /\ tid_[FindEmptyEntry(l.tid)] = NoTid
            BY <2>2, <3>1, FindEmptyFinds
        <3> QED BY <3>2 DEF ReplayInv, RunnersInv, RunnerOK, Over
    <2>3. \A s \in Slots : ToAdd(s)' => ToAdd(s)
        BY <2>1, <2>2 DEF ReplayInv, ReplayTypeOK
    <2> QED BY <1>1, <2>1, <2>3, NoMoreAdders
<1>3. CASE WaitForPreviousAction \/ WaitForFree \/ UnusableLine \/ EndOfDump \/ FreeAll
    <2>1. /\ UNCHANGED <<pending_, action_memory_, runner, lines>>
          /\ mpc' \in HasLine => mpc \in HasLine
        BY <1>3 DEF WaitForPreviousAction, WaitForFree, WaitForReady, UnusableLine, EndOfDump,
                    FreeAll, threadVars, HasLine
    <2> QED BY <1>1, <2>1, NoMoreAdders
<1>4. CASE WaitForAllToQuiesce
    <2>1. /\ UNCHANGED <<pending_, action_memory_, runner, lines>>
          /\ mpc' \in HasLine => mpc \in HasLine
        BY <1>4 DEF WaitForAllToQuiesce, QuiesceStep, threadVars, HasLine
    <2> QED BY <1>1, <2>1, NoMoreAdders
<1>5. CASE CreateAction
    <2>1. /\ action_memory_' = [action_memory_ EXCEPT ![cur] = ActionOf(line, lines)]
          /\ UNCHANGED <<pending_, runner, lines>>
          /\ ~pending_[cur] /\ cur \in Slots /\ mpc \in HasLine
        BY <1>5 DEF CreateAction, ReplayInv, ReplayTypeOK, SlotInv, HasLine
    <2>2. \A s \in Slots : ToAdd(s)' => ToAdd(s)
        BY <2>1 DEF ReplayInv, ReplayTypeOK
    <2> QED BY <1>1, <2>1, <2>2, NoMoreAdders
<1>6. CASE TriggerAction
    BY <1>6, TriggerKeepsAdds
<1>7. CASE SignalAction \/ FinishAllSignal
    <2>1. /\ UNCHANGED <<pending_, action_memory_, lines>> /\ mpc' \notin HasLine
          /\ \E s \in {cur, i} \cap Slots : Signal(s)
        <3>1. CASE SignalAction
            BY <3>1 DEF SignalAction, AfterSignal, HasLine, ReplayInv, ReplayTypeOK
        <3>2. CASE FinishAllSignal
            <4>1. i \in Slots
                BY <3>2, EndingSlot DEF FinishAllSignal, Ending
            <4> QED BY <3>2, <4>1 DEF FinishAllSignal, HasLine
        <3> QED BY <1>7, <3>1, <3>2
    <2>2. \A r \in Slots : runner'[r] = runner[r] \/ (runner[r] = "blocked" /\ runner'[r] = "wait")
        BY <2>1, SignalMoves DEF ReplayInv
    <2>3. \A s \in Slots : ToAdd(s)' => ToAdd(s)
        BY <2>1, <2>2 DEF Unstarted
    <2> QED BY <1>1, <2>1, <2>3, NoMoreAdders
<1>8. CASE Finish \/ FinishAllJoin
    <2>1. /\ UNCHANGED <<pending_, action_memory_, lines>> /\ mpc' \notin HasLine
          /\ \A s \in Slots : runner'[s] = runner[s] \/ runner'[s] = "none"
        BY <1>8 DEF Finish, FinishAllJoin, Join, HasLine, ReplayInv, ReplayTypeOK
    <2>2. \A s \in Slots : ToAdd(s)' => ToAdd(s)
        BY <2>1 DEF Unstarted
    <2> QED BY <1>1, <2>1, <2>2, NoMoreAdders
<1>9. CASE FinishAllEntry
    <2>1. /\ UNCHANGED <<runner, lines>> /\ mpc' \notin HasLine
          /\ \/ UNCHANGED <<pending_, action_memory_>>
             \/ /\ i \in Nat /\ i < max_threads
                /\ action_memory_' = [action_memory_ EXCEPT ![i] = EndThreadAction]
                /\ pending_' = [pending_ EXCEPT ![i] = TRUE]
        <3>1. i \in Nat
            BY EndingSlot
        <3> QED BY <1>9, <3>1 DEF FinishAllEntry, SetPending, HasLine
    <2>2. \A s \in Slots : ToAdd(s)' => ToAdd(s)
        BY <2>1, EndActionFields DEF ReplayInv, ReplayTypeOK
    <2> QED BY <1>1, <2>1, <2>2, NoMoreAdders
<1> QED BY <1>2, <1>3, <1>4, <1>5, <1>6, <1>7, <1>8, <1>9 DEF Main

\* A thread that begins or goes on with its action.
LEMMA RunnerKeepsAdds ==
    ASSUME ReplayInv, AddsInv, NEW s \in Slots, Runner(s)
    PROVE  AddsInv'
<1> DEFINE a == action_memory_[s]
<1>1. /\ runner \in [Slots -> Executing \cup Unstarted \cup Over]
      /\ pending_ \in [Slots -> BOOLEAN]
      /\ runner[s] \in Executing => pending_[s]
    BY DEF ReplayInv, ReplayTypeOK, RunnersInv, RunnerOK
<1>2. CASE WaitForPending(s) \/ Added(s) \/ ClearPending(s) \/ RunnerSignal(s)
    <2>1. /\ UNCHANGED <<action_memory_, lines, mpc, adds>>
          /\ pending_' = pending_ \/ pending_' = [pending_ EXCEPT ![s] = FALSE]
        BY <1>2 DEF WaitForPending, Added, ClearPending, RunnerSignal, mainVars, pointersVars,
                    historyVars
    <2>2. \/ \E x \in {"execute", "blocked", "wait"} :
                runner' = [runner EXCEPT ![s] = x] /\ runner[s] \in {"wait", "signal"}
          \/ \E x \in {"clear", "signal", "end_signal", "exited"} :
                runner' = [runner EXCEPT ![s] = x] /\ (x = "signal" => pending_'[s] = FALSE)
        BY <1>1, <1>2 DEF WaitForPending, Added, ClearPending, RunnerSignal, RunnerGoto
    <2>3. \A r \in Slots : ToAdd(r)' => ToAdd(r)
        BY <1>1, <2>1, <2>2 DEF ToAdd, Unstarted
    <2> QED BY <2>1, <2>3, NoMoreAdders
<1>3. CASE TableStep(s)
    <2>1. UNCHANGED <<action_memory_, pending_, runner, lines, mpc, adds>>
        BY <1>3 DEF TableStep, Step, threadVars, mainVars, FindEmpty, FindEmptyClaimed,
                    FindEmptyOccupied, ProbeNext, StoreKey, StorePointer, Find, FindHit, FindMiss,
                    LoadPointer, ClearKey, historyVars
    <2>2. \A r \in Slots : ToAdd(r)' => ToAdd(r)
        BY <2>1 DEF ToAdd
    <2> QED BY <2>1, <2>2, NoMoreAdders
<1>4. CASE Execute(s)
    <2>1. /\ UNCHANGED <<action_memory_, pending_, lines, mpc>>
          /\ runner[s] = "execute" /\ pending_[s]
          /\ \/ /\ Allocates(a) /\ adds' = adds + 1
                /\ runner' = [runner EXCEPT ![s] = "adding"]
             \/ /\ adds' = adds
                /\ \E x \in {"removing", "clear"} : runner' = [runner EXCEPT ![s] = x]
        BY Zenon, <1>1, <1>4 DEF Execute, AddMemory, RunnerGoto, Add, Remove, Allocates, mainVars, Executing,
                    pointersVars, historyVars
    <2>2. \A r \in Slots : r # s => (ToAdd(r)' <=> ToAdd(r))
        BY <1>1, <2>1 DEF ToAdd
    <2>3. CASE Allocates(a) /\ adds' = adds + 1 /\ runner' = [runner EXCEPT ![s] = "adding"]
        <3>1. ToAdd(s) /\ ~ToAdd(s)'
            BY <1>1, <2>1, <2>3 DEF ToAdd, Unstarted
        <3> QED BY <2>1, <2>2, <2>3, <3>1, AddKeepsAdds
    <2>4. CASE adds' = adds /\ \E x \in {"removing", "clear"} : runner' = [runner EXCEPT ![s] = x]
        <3>1. ToAdd(s)' => ToAdd(s)
            BY <1>1, <2>1, <2>4 DEF ToAdd, Unstarted
        <3> QED BY <2>1, <2>2, <2>4, <3>1, NoMoreAdders
    <2> QED BY <2>1, <2>3, <2>4
<1>5. CASE Removed(s)
    <2>1. /\ UNCHANGED <<action_memory_, pending_, lines, mpc>>
          /\ runner[s] = "removing" /\ pending_[s]
          /\ \/ /\ Allocates(a) /\ adds' = adds + 1
                /\ runner' = [runner EXCEPT ![s] = "adding"]
             \/ adds' = adds /\ runner' = [runner EXCEPT ![s] = "clear"]
        BY <1>1, <1>5 DEF Removed, AddMemory, RunnerGoto, Add, Allocates, mainVars, Executing,
                    pointersVars, historyVars
    <2>2. \A r \in Slots : r # s => (ToAdd(r)' <=> ToAdd(r))
        BY <1>1, <2>1 DEF ToAdd
    <2>3. CASE Allocates(a) /\ adds' = adds + 1 /\ runner' = [runner EXCEPT ![s] = "adding"]
        <3>1. ToAdd(s) /\ ~ToAdd(s)'
            BY <1>1, <2>1, <2>3 DEF ToAdd, Unstarted
        <3> QED BY <2>1, <2>2, <2>3, <3>1, AddKeepsAdds
    <2>4. CASE adds' = adds /\ runner' = [runner EXCEPT ![s] = "clear"]
        <3>1. ToAdd(s)' => ToAdd(s)
            BY <1>1, <2>1, <2>4 DEF ToAdd, Unstarted
        <3> QED BY <2>1, <2>2, <2>4, <3>1, NoMoreAdders
    <2> QED BY <2>1, <2>3, <2>4
<1> QED BY <1>2, <1>3, <1>4, <1>5 DEF Runner
===============================================================================
