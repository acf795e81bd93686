--------------------------- MODULE ReplayTheorems -----------------------------
(***************************************************************************)
(* What memory_replay as a whole guarantees, for every number of threads,  *)
(* tids, keys and lines.                                                   *)
(*                                                                         *)
(* ReplayInv says that the calls are made at the right time, TableInv what *)
(* the table then does, HeapInv that the table and the threads own what is *)
(* allocated.  Each step keeps the three together: ReplayInv gives the     *)
(* contract that TableInv needs, TableInv finds the entry of a key, and    *)
(* HeapInv says that what Remove returned is memory that realloc can take. *)
(***************************************************************************)
EXTENDS ReplayMainProofs, PointersProofs

\* Keys whose memory is allocated: added, or removed and not yet freed.
Owned == added \cup {arg[s] : s \in {s \in Slots : runner[s] = "removing"}}

\* Every piece of memory has one owner, and the table and the calls hold the
\* one of their key.
HeapInv ==
    /\ mpc = "done" => heap = {}
    /\ mpc # "done" => heap = {allocated[k] : k \in Owned}
    /\ \A k \in Owned : k \in Keys /\ allocated[k] \in Memory
    /\ \A k, j \in Owned : allocated[k] = allocated[j] => k = j
    /\ \A s \in Slots : runner[s] = "removing" => arg[s] \notin added
    /\ \A s \in Slots : pc[s] \in Adding \cup {"clear_key"} => mem[s] = allocated[arg[s]]
    /\ \A s \in Slots : runner[s] = "removing" /\ pc[s] = "idle" => result[s] = allocated[arg[s]]
    /\ \A e \in Entries, k \in Keys : Bound(k, e) => pointer[e] = allocated[k]

\* The inductive invariant of the replay.
WholeInv == TableInv /\ ReplayInv /\ HeapInv

-----------------------------------------------------------------------------
(* The steps of the replay are steps of the table under its contract.      *)

\* A leaf is tried with SMT, then with Zenon, then with SMT for longer.
USE SMT, Zenon, SMTT(30)

\* What a Remove that has returned gave is the memory of its key.
LEMMA RemoveGaveMemory ==
    ASSUME WholeInv, NEW s \in Slots, runner[s] = "removing"
    PROVE  /\ arg[s] \in Owned /\ arg[s] \in Keys /\ allocated[arg[s]] \in Memory
           /\ pc[s] = "idle" => result[s] = allocated[arg[s]]
BY DEF WholeInv, HeapInv, Owned

\* The threads keep the contract of the table.
LEMMA StepKeepsContract ==
    ASSUME WholeInv, [ReplayNext]_vars
    PROVE  [Next]_pointersVars
<1>1. CASE UNCHANGED vars
    BY <1>1 DEF vars
<1>2. CASE Main
    BY <1>2, MainShape DEF WholeInv
<1>3. ASSUME ~Ended, NEW s \in Slots, Runner(s) PROVE [Next]_pointersVars
    <2> DEFINE a == action_memory_[s]
    <2>1. ~Failed /\ s \in Callers /\ Callers = Slots
        BY <1>3, ReplayAssumption DEF Ended
    <2>2. /\ a \in Actions
          /\ Allocates(a) => a.key \in Keys
          /\ DoesFree(a) => FreedKey(a) \in Keys
        BY ActionFields DEF WholeInv, ReplayInv, ReplayTypeOK
    <2>3. CASE WaitForPending(s) \/ Added(s) \/ ClearPending(s) \/ RunnerSignal(s)
        BY <2>3 DEF WaitForPending, Added, ClearPending, RunnerSignal
    <2>4. CASE TableStep(s)
        BY <2>1, <2>4 DEF TableStep, Next
    <2>5. CASE Execute(s)
        <3>1. \/ runner[s] = "execute" /\ Allocates(a) /\ ~DoesFree(a) /\ \E m \in Memory : Add(s, a.key, m)
              \/ runner[s] = "execute" /\ DoesFree(a) /\ Remove(s, FreedKey(a))
              \/ UNCHANGED pointersVars
            BY <2>5 DEF Execute, AddMemory, Allocates, DoesFree, FreedKey
        <3>2. CASE runner[s] = "execute" /\ Allocates(a) /\ ~DoesFree(a) /\ \E m \in Memory : Add(s, a.key, m)
            <4>1. MayAdd(a.key)
                BY <3>2, AllocationMayAdd DEF WholeInv
            <4> QED BY <2>1, <2>2, <3>2, <4>1 DEF Next
        <3>3. CASE runner[s] = "execute" /\ DoesFree(a) /\ Remove(s, FreedKey(a))
            <4>1. MayRemove(FreedKey(a))
                BY <3>3, FreeMayRemove DEF WholeInv
            <4> QED BY <2>1, <2>2, <3>3, <4>1 DEF Next
        <3> QED BY <3>1, <3>2, <3>3
    <2>6. CASE Removed(s)
        <3>1. \/ /\ runner[s] = "removing" /\ pc[s] = "idle" /\ a.type = "realloc"
                 /\ \E m \in (Memory \ heap) \cup {result[s]} : Add(s, a.key, m)
              \/ UNCHANGED pointersVars
            BY <2>6 DEF Removed, AddMemory
        <3>2. CASE /\ runner[s] = "removing" /\ pc[s] = "idle" /\ a.type = "realloc"
                   /\ \E m \in (Memory \ heap) \cup {result[s]} : Add(s, a.key, m)
            <4>1. MayAdd(a.key) /\ a.key \in Keys
                BY <2>2, <3>2, ReallocMayAdd DEF WholeInv, Allocates
            <4>2. result[s] \in Memory
                BY <3>2, RemoveGaveMemory
            <4>3. \E m \in Memory : Add(s, a.key, m)
                BY <3>2, <4>2
            <4> QED BY <2>1, <4>1, <4>3 DEF Next
        <3> QED BY <3>1, <3>2
    <2> QED BY <1>3, <2>3, <2>4, <2>5, <2>6 DEF Runner
<1> QED BY <1>1, <1>2, <1>3 DEF ReplayNext, Terminated

-----------------------------------------------------------------------------
(* Who owns the memory.                                                    *)

\* The variables that HeapInv mentions, but for the runners and main.
ownVars == <<added, arg, pc, mem, index, result, key_pointer, pointer, allocated>>

\* Nothing is owned at first.
LEMMA InitHeap == ReplayInit => HeapInv
<1> SUFFICES ASSUME ReplayInit PROVE HeapInv
    OBVIOUS
<1>1. \A s \in Slots : runner[s] # "removing" /\ pc[s] = "idle"
    BY ReplayAssumption DEF ReplayInit, Init
<1>2. Owned = {}
    BY <1>1 DEF ReplayInit, Init, Owned
<1>3. \A e \in Entries, k \in Keys : ~Bound(k, e)
    BY MarksAreNoKeys DEF ReplayInit, Init, Bound
<1> QED BY <1>1, <1>2, <1>3 DEF ReplayInit, HeapInv, Adding

\* A step that makes no call and frees nothing.
LEMMA SameOwners ==
    ASSUME HeapInv, UNCHANGED ownVars, heap' = heap, mpc' = "done" <=> mpc = "done",
           \A s \in Slots : runner'[s] = "removing" <=> runner[s] = "removing"
    PROVE  HeapInv'
<1> USE DEF ownVars
<1>1. Owned' = Owned
    BY DEF Owned
<1>2. \A e \in Entries, k \in Keys : Bound(k, e)' <=> Bound(k, e)
    BY DEF Bound
<1>3. /\ mpc' = "done" => heap' = {}
      /\ mpc' # "done" => heap' = {allocated'[k] : k \in Owned'}
      /\ \A k \in Owned' : k \in Keys /\ allocated'[k] \in Memory
      /\ \A k, j \in Owned' : allocated'[k] = allocated'[j] => k = j
    BY <1>1 DEF HeapInv
<1>4. /\ \A s \in Slots : runner'[s] = "removing" => arg'[s] \notin added'
      /\ \A s \in Slots : pc'[s] \in Adding \cup {"clear_key"} => mem'[s] = allocated'[arg'[s]]
      /\ \A s \in Slots : runner'[s] = "removing" /\ pc'[s] = "idle" => result'[s] = allocated'[arg'[s]]
    BY DEF HeapInv
<1>5. \A e \in Entries, k \in Keys : Bound(k, e)' => pointer'[e] = allocated'[k]
    BY <1>2 DEF HeapInv
<1> QED BY <1>3, <1>4, <1>5 DEF HeapInv

\* A call in progress leaves the owners alone and puts or finds the memory of
\* its key.
LEMMA TableStepKeepsHeap ==
    ASSUME WholeInv, ~Failed, mpc # "done", NEW s \in Slots, TableStep(s)
    PROVE  HeapInv'
<1>1. /\ Step(s)
      /\ UNCHANGED <<runner, mpc, heap, allocated>>
    BY DEF TableStep, threadVars, mainVars, traceVars
<1>2. /\ UNCHANGED <<added, arg>>
      /\ pc[s] \in Adding \cup Removing
      /\ \A r \in Slots : r # s => pc'[r] = pc[r]
      /\ Callers = Slots
    BY <1>1, StepShape, ReplayAssumption DEF WholeInv, ReplayInv
<1>3. TypeOK /\ SlotsHeld /\ OneHolder
    BY DEF WholeInv, TableInv
<1>4. /\ heap' = {allocated'[k] : k \in Owned'}
      /\ \A k \in Owned' : k \in Keys /\ allocated'[k] \in Memory
      /\ \A k, j \in Owned' : allocated'[k] = allocated'[j] => k = j
      /\ \A r \in Slots : runner'[r] = "removing" => arg'[r] \notin added'
    <2>1. Owned' = Owned
        BY <1>1, <1>2 DEF Owned
    <2> QED BY SMTT(30), <1>1, <1>2, <2>1 DEF WholeInv, HeapInv
<1>5. /\ \A r \in Slots : pc[r] \in Adding \cup {"clear_key"} => mem[r] = allocated[arg[r]]
      /\ \A r \in Slots : runner[r] = "removing" /\ pc[r] = "idle" => result[r] = allocated[arg[r]]
      /\ \A e \in Entries, k \in Keys : Bound(k, e) => pointer[e] = allocated[k]
    BY DEF WholeInv, HeapInv
<1> DEFINE CallsHold ==
             /\ pc'[s] \in Adding \cup {"clear_key"} => mem'[s] = allocated[arg[s]]
             /\ runner[s] = "removing" /\ pc'[s] = "idle" => result'[s] = allocated[arg[s]]
             /\ \A r \in Slots : r # s => mem'[r] = mem[r] /\ result'[r] = result[r]
           EntriesHold ==
             \A e \in Entries, k \in Keys : Bound(k, e)' => pointer'[e] = allocated[k]
<1>6. index[s] \in Entries /\ s \in Callers
    BY <1>2, <1>3 DEF TypeOK
<1>7. ASSUME FindEmpty(s) PROVE CallsHold /\ EntriesHold
    <2>1. /\ pc[s] = "find_empty" /\ UNCHANGED <<pointer, arg, mem, result>>
          /\ pc' = [pc EXCEPT ![s] = pc'[s]] /\ pc'[s] \notin {"store_pointer", "idle", "clear_key"}
          /\ \/ key_pointer' = [key_pointer EXCEPT ![index[s]] = Claimed] /\ UNCHANGED index
             \/ key_pointer' = key_pointer /\ \A r \in Slots : r # s => index'[r] = index[r]
        BY <1>3, <1>7, <1>2
        DEF FindEmpty, FindEmptyClaimed, FindEmptyOccupied, ProbeNext, Goto, TypeOK
    <2>2. CallsHold
        BY <1>5, <2>1 DEF Adding
    <2>3. \A e \in Entries, k \in Keys : Bound(k, e)' => Bound(k, e)
        BY SMTT(30), <1>2, <1>3, <2>1, MarksAreNoKeys DEF Bound, TypeOK
    <2> QED BY <1>5, <2>1, <2>2, <2>3
<1>8. ASSUME StoreKey(s) PROVE CallsHold /\ EntriesHold
    <2>1. /\ pc[s] = "store_key" /\ UNCHANGED <<pointer, arg, mem, result, index>>
          /\ pc'[s] = "store_pointer"
          /\ key_pointer' = [key_pointer EXCEPT ![index[s]] = arg[s]]
        BY <1>3, <1>8, <1>2 DEF StoreKey, Goto, TypeOK
    <2>2. CallsHold
        BY <1>5, <2>1 DEF Adding
    <2>3. \A e \in Entries, k \in Keys : Bound(k, e)' => e # index[s] /\ Bound(k, e)
        BY <1>2, <1>3, <1>6, <2>1 DEF Bound, TypeOK
    <2> QED BY <1>5, <2>1, <2>2, <2>3
<1>9. ASSUME StorePointer(s) PROVE CallsHold /\ EntriesHold
    <2>1. /\ pc[s] = "store_pointer" /\ UNCHANGED <<key_pointer, arg, mem, result, index>>
          /\ pc'[s] = "idle"
          /\ pointer' = [pointer EXCEPT ![index[s]] = mem[s]]
        BY <1>3, <1>9, <1>2 DEF StorePointer, Goto, TypeOK
    <2>2. runner[s] # "removing"
        BY <2>1 DEF WholeInv, ReplayInv, RunnersInv, RunnerOK, Adding, Removing
    <2>3. CallsHold
        BY <2>1, <2>2 DEF Adding
    <2>4. key_pointer[index[s]] = arg[s] /\ mem[s] = allocated[arg[s]]
        BY <1>3, <1>5, <1>6, <2>1 DEF SlotsHeld, Keyed, Adding
    <2>5. ASSUME NEW e \in Entries, NEW k \in Keys, Bound(k, e)' PROVE pointer'[e] = allocated[k]
        <3>1. CASE e = index[s]
            <4>1. k = arg[s]
                BY <2>1, <2>4, <2>5, <3>1 DEF Bound
            <4> QED BY <1>3, <1>6, <2>1, <2>4, <3>1, <4>1 DEF TypeOK
        <3>2. CASE e # index[s]
            <4>1. Bound(k, e)
                BY <1>2, <2>1, <2>5, <3>2 DEF Bound
            <4> QED BY <1>3, <1>5, <1>6, <2>1, <3>2, <4>1 DEF TypeOK
        <3> QED BY <3>1, <3>2
    <2> QED BY <2>3, <2>5
<1>10. ASSUME Find(s) PROVE CallsHold /\ EntriesHold
    <2>1. /\ pc[s] = "find" /\ UNCHANGED <<key_pointer, pointer, arg, mem, result>>
          /\ pc'[s] \notin {"store_pointer", "idle", "clear_key"} \cup Adding
          /\ \A r \in Slots : r # s => index'[r] = index[r]
        BY <1>3, <1>10, <1>2 DEF Find, FindHit, FindMiss, ProbeNext, Goto, TypeOK, tableVars, Adding
    <2>2. CallsHold
        BY <2>1
    <2>3. \A e \in Entries, k \in Keys : Bound(k, e)' => Bound(k, e)
        BY <1>2, <2>1 DEF Bound
    <2> QED BY <1>5, <2>1, <2>2, <2>3
<1>11. ASSUME LoadPointer(s) PROVE CallsHold /\ EntriesHold
    <2>1. /\ pc[s] = "load_pointer" /\ UNCHANGED <<key_pointer, pointer, arg, result, index>>
          /\ pc'[s] = "clear_key"
          /\ mem' = [mem EXCEPT ![s] = pointer[index[s]]]
        BY <1>3, <1>11, <1>2 DEF LoadPointer, Goto, TypeOK, tableVars
    <2>2. key_pointer[index[s]] = arg[s] /\ arg[s] \in Keys
        BY <1>3, <1>6, <2>1 DEF WholeInv, TableInv, SlotsHeld, Keyed, CallsKnown, Busy, Adding, Removing
    <2>3. \A r \in Callers : ~(pc[r] = "store_pointer" /\ index[r] = index[s])
        BY <1>3, <1>6, <2>1 DEF OneHolder, Holding
    <2>4. pointer[index[s]] = allocated[arg[s]]
        BY <1>5, <1>6, <2>2, <2>3 DEF Bound
    <2>5. CallsHold
        BY <1>3, <1>6, <2>1, <2>4, <1>2 DEF TypeOK
    <2>6. \A e \in Entries, k \in Keys : Bound(k, e)' => Bound(k, e)
        BY <1>2, <2>1 DEF Bound
    <2> QED BY <1>5, <2>1, <2>5, <2>6
<1>12. ASSUME ClearKey(s) PROVE CallsHold /\ EntriesHold
    <2>1. /\ pc[s] = "clear_key" /\ UNCHANGED <<pointer, arg, mem, index>>
          /\ pc'[s] = "idle"
          /\ key_pointer' = [key_pointer EXCEPT ![index[s]] = Empty]
          /\ result' = [result EXCEPT ![s] = mem[s]]
        BY <1>3, <1>12, <1>2 DEF ClearKey, Goto, TypeOK
    <2>2. CallsHold
        BY <1>2, <1>3, <1>5, <1>6, <2>1 DEF TypeOK, Adding
    <2>3. \A e \in Entries, k \in Keys : Bound(k, e)' => Bound(k, e)
        BY <1>2, <1>3, <1>6, <2>1, MarksAreNoKeys DEF Bound, TypeOK
    <2> QED BY <1>5, <2>1, <2>2, <2>3
<1>13. CallsHold /\ EntriesHold
    BY Zenon, <1>1, <1>7, <1>8, <1>9, <1>10, <1>11, <1>12 DEF Step
<1>14. /\ \A r \in Slots : pc'[r] \in Adding \cup {"clear_key"} => mem'[r] = allocated'[arg'[r]]
       /\ \A r \in Slots : runner'[r] = "removing" /\ pc'[r] = "idle" => result'[r] = allocated'[arg'[r]]
    BY SMTT(30), <1>1, <1>2, <1>5, <1>13
<1> QED BY <1>1, <1>4, <1>13, <1>14 DEF HeapInv

\* malloc gives memory nobody owns, realloc that or what the old key owned,
\* and the new key owns it.
LEMMA AllocateKeepsHeap ==
    ASSUME WholeInv, ~Failed, mpc # "done", mpc' = mpc, NEW s \in Slots, NEW k \in Keys,
           NEW m \in Memory, MayAdd(k), Add(s, k, m),
           allocated' = [allocated EXCEPT ![k] = m],
           runner'[s] = "adding",
           \A r \in Slots : r # s => runner'[r] = runner[r] /\ runner[r] # "removing",
           \/ runner[s] # "removing" /\ m \notin heap /\ heap' = heap \cup {m}
           \/ /\ runner[s] = "removing" /\ pc[s] = "idle"
              /\ m \in (Memory \ heap) \cup {result[s]}
              /\ heap' = (heap \ {result[s]}) \cup {m}
    PROVE  HeapInv'
<1>1. /\ k \notin added /\ ~InUse(k) /\ Callers = Slots
      /\ allocated \in [Keys -> Memory \cup {NoMem}]
    BY ReplayAssumption DEF MayAdd, WholeInv, ReplayInv, ReplayTypeOK
<1>2. /\ pc[s] = "idle" /\ pc' = [pc EXCEPT ![s] = "find_empty"]
      /\ arg' = [arg EXCEPT ![s] = k]
      /\ index' = [index EXCEPT ![s] = GetHash(k)]
      /\ mem' = [mem EXCEPT ![s] = m]
      /\ added' = added \cup {k}
      /\ UNCHANGED <<key_pointer, pointer, result>>
    BY DEF Add, StartProbe, Goto, tableVars
<1>3. /\ pc'[s] = "find_empty" /\ arg'[s] = k /\ mem'[s] = m
      /\ \A r \in Slots : r # s => /\ pc'[r] = pc[r] /\ arg'[r] = arg[r] /\ mem'[r] = mem[r]
                                   /\ index'[r] = index[r]
    BY <1>1, <1>2 DEF WholeInv, TableInv, TypeOK
<1> DEFINE A == {allocated[j] : j \in added}
<1>4. /\ heap = {allocated[j] : j \in Owned}
      /\ \A j \in Owned : j \in Keys /\ allocated[j] \in Memory
      /\ \A j, l \in Owned : allocated[j] = allocated[l] => j = l
    BY DEF WholeInv, HeapInv
<1>5. heap' = A \cup {m} /\ m \notin A
    <2>1. CASE runner[s] # "removing"
        <3>1. Owned = added
            BY <2>1 DEF Owned
        <3> QED BY <1>4, <2>1, <3>1
    <2>2. CASE runner[s] = "removing"
        <3>1. Owned = added \cup {arg[s]}
            BY <2>2 DEF Owned
        <3>2. arg[s] \notin added /\ result[s] = allocated[arg[s]]
            BY <2>2 DEF WholeInv, HeapInv
        <3>3. result[s] \notin A
            BY <1>4, <3>1, <3>2
        <3>4. heap = A \cup {result[s]}
            BY <1>4, <3>1, <3>2
        <3> QED BY <2>2, <3>3, <3>4
    <2> QED BY <2>1, <2>2
<1>6. Owned' = added \cup {k}
    BY <1>2 DEF Owned
<1>7. allocated'[k] = m /\ \A j \in added : j \in Keys /\ j # k /\ allocated'[j] = allocated[j]
    BY <1>1, <1>4 DEF Owned
<1>8. heap' = {allocated'[j] : j \in Owned'}
    BY <1>5, <1>6, <1>7
<1>9. /\ \A j \in Owned' : j \in Keys /\ allocated'[j] \in Memory
      /\ \A j, l \in Owned' : allocated'[j] = allocated'[l] => j = l
    BY SMTT(30), <1>4, <1>5, <1>6, <1>7 DEF Owned
<1>10. \A r \in Slots : r # s => runner'[r] # "removing"
    OBVIOUS
<1>11. \A r \in Slots : pc'[r] \in Adding \cup {"clear_key"} => mem'[r] = allocated'[arg'[r]]
    <2>1. \A r \in Slots : r # s /\ pc[r] \in Adding => arg[r] \in added
        BY <1>1 DEF WholeInv, TableInv, CallsKnown
    <2>2. \A r \in Slots : r # s => pc[r] # "clear_key"
        BY DEF WholeInv, ReplayInv, RunnersInv, RunnerOK, Adding
    <2>3. \A r \in Slots : pc[r] \in Adding => mem[r] = allocated[arg[r]]
        BY DEF WholeInv, HeapInv
    <2>4. mem'[s] = allocated'[arg'[s]]
        BY <1>3, <1>7
    <2>5. ASSUME NEW r \in Slots, r # s, pc'[r] \in Adding \cup {"clear_key"}
          PROVE  mem'[r] = allocated'[arg'[r]]
        <3>1. pc'[r] = pc[r] /\ arg'[r] = arg[r] /\ mem'[r] = mem[r]
            BY <1>3, <2>5
        <3>2. pc[r] \in Adding
            BY <2>2, <2>5, <3>1
        <3>3. mem[r] = allocated[arg[r]] /\ arg[r] \in added
            BY <2>1, <2>3, <2>5, <3>2
        <3> QED BY <1>7, <3>1, <3>3
    <2> QED BY Zenon, <2>4, <2>5
<1>12. ASSUME NEW e \in Entries, NEW j \in Keys, Bound(j, e)' PROVE pointer'[e] = allocated'[j]
    <2>1. key_pointer[e] = j
        BY <1>2, <1>12 DEF Bound
    <2>2. \A r \in Callers : ~(pc[r] = "store_pointer" /\ index[r] = e)
        BY <1>1, <1>2, <1>3, <1>12 DEF Bound
    <2>3. Bound(j, e) /\ HasKey(j)
        BY <2>1, <2>2 DEF Bound, HasKey
    <2>4. j # k
        BY <1>1, <2>3 DEF WholeInv, TableInv, AddedIsTable
    <2>5. pointer[e] = allocated[j]
        BY <2>3 DEF WholeInv, HeapInv
    <2> QED BY <1>1, <1>2, <2>4, <2>5
<1> QED BY <1>8, <1>9, <1>10, <1>11, <1>12 DEF HeapInv

\* An action that begins.
LEMMA ExecuteKeepsHeap ==
    ASSUME WholeInv, ~Failed, mpc # "done", NEW s \in Slots, Execute(s)
    PROVE  HeapInv'
<1> DEFINE a == action_memory_[s]
<1>1. /\ runner[s] = "execute" /\ mpc' = mpc
      /\ pending_[s] /\ a \in Actions
      /\ Allocates(a) => a.key \in Keys
      /\ DoesFree(a) => FreedKey(a) \in Keys
    BY Zenon, ActionFields DEF Execute, mainVars, WholeInv, ReplayInv, ReplayTypeOK, RunnersInv, RunnerOK, Executing
<1>2. \A r \in Slots : runner[r] # "removing"
    <2> SUFFICES ASSUME NEW r \in Slots, runner[r] = "removing" PROVE FALSE
        OBVIOUS
    <2>1. pending_[r] /\ DoesFree(action_memory_[r])
        BY DEF WholeInv, ReplayInv, RunnersInv, RunnerOK, Executing
    <2> QED BY <1>1, <2>1, OthersAreIdle DEF WholeInv
<1>3. \/ /\ Allocates(a) /\ ~DoesFree(a)
         /\ \E m \in Memory \ heap : /\ Add(s, a.key, m)
                                     /\ heap' = heap \cup {m}
                                     /\ allocated' = [allocated EXCEPT ![a.key] = m]
         /\ runner' = [runner EXCEPT ![s] = "adding"]
      \/ /\ DoesFree(a) /\ Remove(s, FreedKey(a))
         /\ runner' = [runner EXCEPT ![s] = "removing"]
         /\ UNCHANGED <<heap, allocated>>
      \/ /\ runner' = [runner EXCEPT ![s] = "clear"]
         /\ UNCHANGED <<pointersVars, heap, allocated>>
    BY DEF Execute, AddMemory, RunnerGoto, Allocates, DoesFree, FreedKey
<1>4. \A r \in Slots : r # s => runner'[r] = runner[r]
    BY <1>3 DEF WholeInv, ReplayInv, ReplayTypeOK
<1>5. runner \in [Slots -> Executing \cup Unstarted \cup Over]
    BY DEF WholeInv, ReplayInv, ReplayTypeOK
<1>6. CASE /\ Allocates(a) /\ ~DoesFree(a)
           /\ \E m \in Memory \ heap : /\ Add(s, a.key, m)
                                       /\ heap' = heap \cup {m}
                                       /\ allocated' = [allocated EXCEPT ![a.key] = m]
           /\ runner' = [runner EXCEPT ![s] = "adding"]
    <2>1. runner'[s] = "adding"
        BY <1>5, <1>6
    <2>2. MayAdd(a.key)
        BY <1>1, <1>6, AllocationMayAdd DEF WholeInv
    <2> QED BY Zenon, <1>1, <1>2, <1>4, <1>6, <2>1, <2>2, AllocateKeepsHeap
<1>7. CASE /\ DoesFree(a) /\ Remove(s, FreedKey(a))
           /\ runner' = [runner EXCEPT ![s] = "removing"]
           /\ UNCHANGED <<heap, allocated>>
    <2> DEFINE k == FreedKey(a)
    <2>1. MayRemove(k) /\ k \in Keys
        BY <1>1, <1>7, FreeMayRemove DEF WholeInv
    <2> HIDE DEF k
    <2>2. /\ pc[s] = "idle" /\ pc' = [pc EXCEPT ![s] = "find"]
          /\ arg' = [arg EXCEPT ![s] = k]
          /\ index' = [index EXCEPT ![s] = GetHash(k)]
          /\ added' = added \ {k}
          /\ UNCHANGED <<key_pointer, pointer, mem, result>>
        BY <1>7 DEF Remove, StartProbe, Goto, tableVars, k
    <2>3. /\ pc'[s] = "find" /\ arg'[s] = k /\ runner'[s] = "removing"
          /\ \A r \in Slots : r # s => /\ pc'[r] = pc[r] /\ arg'[r] = arg[r] /\ index'[r] = index[r]
                                       /\ runner'[r] # "removing"
        BY <1>2, <1>4, <1>5, <1>7, <2>2, ReplayAssumption DEF WholeInv, TableInv, TypeOK
    <2>4. Owned = added /\ Owned' = added /\ k \in added
        <3>1. Owned = added /\ k \in added
            BY <1>2, <2>1 DEF Owned, MayRemove
        <3>2. Owned' = added' \cup {k}
            BY <2>3 DEF Owned
        <3> QED BY <2>2, <3>1, <3>2
    <2>5. /\ heap' = {allocated'[j] : j \in Owned'}
          /\ \A j \in Owned' : j \in Keys /\ allocated'[j] \in Memory
          /\ \A j, l \in Owned' : allocated'[j] = allocated'[l] => j = l
        BY <1>7, <2>4 DEF WholeInv, HeapInv
    <2>6. \A r \in Slots : runner'[r] = "removing" => r = s /\ arg'[r] \notin added' /\ pc'[r] # "idle"
        BY <2>2, <2>3
    <2>7. \A r \in Slots : pc'[r] \in Adding \cup {"clear_key"} => mem'[r] = allocated'[arg'[r]]
        BY SMTT(30), <1>7, <2>2, <2>3 DEF WholeInv, HeapInv, Adding
    <2>8. \A e \in Entries, j \in Keys : Bound(j, e)' => Bound(j, e)
        BY <2>2, <2>3, ReplayAssumption DEF Bound
    <2>9. \A e \in Entries, j \in Keys : Bound(j, e)' => pointer'[e] = allocated'[j]
        BY <1>7, <2>2, <2>8 DEF WholeInv, HeapInv
    <2> QED BY <1>1, <2>5, <2>6, <2>7, <2>9 DEF HeapInv
<1>8. CASE /\ runner' = [runner EXCEPT ![s] = "clear"]
           /\ UNCHANGED <<pointersVars, heap, allocated>>
    <2>1. runner'[s] = "clear" /\ UNCHANGED ownVars
        BY <1>5, <1>8 DEF pointersVars, tableVars, callVars, historyVars, ownVars
    <2> QED BY <1>1, <1>4, <1>8, <2>1, SameOwners DEF WholeInv
<1> QED BY <1>3, <1>6, <1>7, <1>8

\* A Remove that has returned: the memory is freed or goes to the new key.
LEMMA RemovedKeepsHeap ==
    ASSUME WholeInv, ~Failed, mpc # "done", NEW s \in Slots, Removed(s)
    PROVE  HeapInv'
<1> DEFINE a == action_memory_[s]
<1>1. /\ runner[s] = "removing" /\ pc[s] = "idle" /\ mpc' = mpc
      /\ pending_[s] /\ a \in Actions /\ DoesFree(a)
      /\ Allocates(a) => a.key \in Keys
    BY ActionFields DEF Removed, mainVars, WholeInv, ReplayInv, ReplayTypeOK, RunnersInv, RunnerOK, Executing
<1>2. \A r \in Slots : r # s => runner[r] # "removing"
    BY <1>1, OthersAreIdle DEF WholeInv, Executing
<1>3. \/ /\ a.type = "free"
         /\ heap' = heap \ {result[s]}
         /\ runner' = [runner EXCEPT ![s] = "clear"]
         /\ UNCHANGED <<pointersVars, allocated>>
      \/ /\ a.type = "realloc"
         /\ \E m \in (Memory \ heap) \cup {result[s]} :
                /\ Add(s, a.key, m)
                /\ heap' = (heap \ {result[s]}) \cup {m}
                /\ allocated' = [allocated EXCEPT ![a.key] = m]
         /\ runner' = [runner EXCEPT ![s] = "adding"]
    BY DEF Removed, AddMemory, RunnerGoto
<1>4. \A r \in Slots : r # s => runner'[r] = runner[r]
    BY <1>3 DEF WholeInv, ReplayInv, ReplayTypeOK
<1>5. runner \in [Slots -> Executing \cup Unstarted \cup Over]
    BY DEF WholeInv, ReplayInv, ReplayTypeOK
<1>6. CASE /\ a.type = "free"
           /\ heap' = heap \ {result[s]}
           /\ runner' = [runner EXCEPT ![s] = "clear"]
           /\ UNCHANGED <<pointersVars, allocated>>
    <2>1. runner'[s] = "clear" /\ UNCHANGED ownVars
        BY <1>5, <1>6 DEF pointersVars, tableVars, callVars, historyVars, ownVars
    <2>2. \A r \in Slots : runner'[r] # "removing"
        BY <1>2, <1>4, <2>1
    <2>3. Owned' = added /\ Owned = added \cup {arg[s]} /\ arg[s] \notin added
        <3>1. arg[s] \notin added
            BY <1>1 DEF WholeInv, HeapInv
        <3>2. added' = added /\ Owned' = added'
            BY <2>1, <2>2 DEF Owned, ownVars
        <3>3. Owned = added \cup {arg[s]}
            BY <1>1, <1>2 DEF Owned
        <3> QED BY <3>1, <3>2, <3>3
    <2>4. /\ result[s] = allocated[arg[s]]
          /\ heap = {allocated[j] : j \in Owned}
          /\ \A j \in Owned : j \in Keys /\ allocated[j] \in Memory
          /\ \A j, l \in Owned : allocated[j] = allocated[l] => j = l
        BY <1>1 DEF WholeInv, HeapInv
    <2>5. heap' = {allocated[j] : j \in added}
        BY SMTT(30), <1>6, <2>3, <2>4
    <2>6. /\ heap' = {allocated'[j] : j \in Owned'}
          /\ \A j \in Owned' : j \in Keys /\ allocated'[j] \in Memory
          /\ \A j, l \in Owned' : allocated'[j] = allocated'[l] => j = l
        BY SMTT(30), <1>6, <2>3, <2>4, <2>5
    <2>7. \A r \in Slots : pc'[r] \in Adding \cup {"clear_key"} => mem'[r] = allocated'[arg'[r]]
        BY <2>1 DEF ownVars, WholeInv, HeapInv
    <2>8. \A e \in Entries, j \in Keys : Bound(j, e)' => pointer'[e] = allocated'[j]
        BY SMTT(30), <2>1 DEF ownVars, WholeInv, HeapInv, Bound
    <2> QED BY <1>1, <2>2, <2>6, <2>7, <2>8 DEF HeapInv
<1>7. CASE /\ a.type = "realloc"
           /\ \E m \in (Memory \ heap) \cup {result[s]} :
                /\ Add(s, a.key, m)
                /\ heap' = (heap \ {result[s]}) \cup {m}
                /\ allocated' = [allocated EXCEPT ![a.key] = m]
           /\ runner' = [runner EXCEPT ![s] = "adding"]
    <2>1. runner'[s] = "adding" /\ a.key \in Keys
        BY <1>1, <1>5, <1>7 DEF Allocates
    <2>2. MayAdd(a.key)
        BY <1>1, <1>7, ReallocMayAdd DEF WholeInv
    <2>3. result[s] \in Memory
        BY <1>1, RemoveGaveMemory
    <2> QED BY Zenon, <1>1, <1>2, <1>4, <1>7, <2>1, <2>2, <2>3, AllocateKeepsHeap
<1> QED BY <1>3, <1>6, <1>7

\* When all threads have ended, the table holds all that is allocated.
LEMMA FreeAllKeepsHeap ==
    ASSUME WholeInv, ~Failed, FreeAll
    PROVE  HeapInv'
<1>1. /\ mpc = "free_all" /\ mpc' = "done"
      /\ heap' = heap \ {pointer[e] : e \in {e \in Entries : key_pointer[e] # Empty}}
      /\ UNCHANGED <<pointersVars, runner, allocated>>
    BY DEF FreeAll, threadVars, traceVars
<1>2. \A s \in Slots : runner[s] = "none" /\ pc[s] = "idle"
    BY Zenon, <1>1 DEF WholeInv, ReplayInv, LoopInv, RunnersInv, RunnerOK
<1>3. Owned = added /\ Owned' = added
    BY <1>1, <1>2 DEF Owned, pointersVars, historyVars
<1>4. ASSUME NEW k \in added
      PROVE  \E e \in Entries : key_pointer[e] # Empty /\ pointer[e] = allocated[k]
    <2>1. k \in Keys
        BY <1>3, <1>4 DEF WholeInv, HeapInv
    <2>2. ~InUse(k)
        BY <1>2, ReplayAssumption DEF InUse, Adding, Removing
    <2>3. HasKey(k)
        BY <1>4, <2>1, <2>2 DEF WholeInv, TableInv, AddedIsTable
    <2>4. PICK e \in Entries : key_pointer[e] = k
        BY <2>3 DEF HasKey
    <2>5. Bound(k, e)
        BY <1>2, <2>4, ReplayAssumption DEF Bound
    <2> QED BY <2>1, <2>4, <2>5, MarksAreNoKeys DEF WholeInv, HeapInv
<1>5. heap = {allocated[k] : k \in added}
    BY <1>1, <1>3 DEF WholeInv, HeapInv
<1>6. heap' = {}
    BY <1>1, <1>4, <1>5
<1>7. /\ \A k \in Owned' : k \in Keys /\ allocated'[k] \in Memory
      /\ \A k, j \in Owned' : allocated'[k] = allocated'[j] => k = j
    BY <1>1, <1>3 DEF WholeInv, HeapInv
<1>8. \A s \in Slots : runner'[s] = "none" /\ pc'[s] = "idle"
    BY <1>1, <1>2 DEF pointersVars, callVars
<1>9. \A e \in Entries, k \in Keys : Bound(k, e)' => pointer'[e] = allocated'[k]
    BY Zenon, <1>1 DEF Bound, pointersVars, callVars, tableVars, WholeInv, HeapInv
<1> QED BY <1>1, <1>6, <1>7, <1>8, <1>9 DEF HeapInv, Adding

\* Every step of main and of a thread keeps the owners.
LEMMA NextHeap ==
    ASSUME WholeInv, [ReplayNext]_vars
    PROVE  HeapInv'
<1>1. CASE UNCHANGED vars
    <2>1. UNCHANGED <<ownVars, heap, mpc, runner>>
        BY <1>1 DEF vars, pointersVars, tableVars, callVars, historyVars, threadVars, mainVars,
                    traceVars, ownVars
    <2> QED BY <2>1, SameOwners DEF WholeInv
<1>2. CASE ~Ended /\ Main
    <2>1. CASE FreeAll
        BY <1>2, <2>1, FreeAllKeepsHeap DEF Ended
    <2>2. CASE ~FreeAll
        <3>1. UNCHANGED ownVars
            BY <1>2, MainShape DEF WholeInv, pointersVars, tableVars, callVars, historyVars, ownVars
        <3> QED BY <1>2, <2>2, <3>1, MainShape, SameOwners DEF WholeInv
    <2> QED BY <2>1, <2>2
<1>3. ASSUME ~Ended, NEW s \in Slots, Runner(s) PROVE HeapInv'
    <2>1. ~Failed /\ mpc # "done"
        BY <1>3 DEF Ended
    <2>2. CASE Execute(s) \/ Removed(s) \/ TableStep(s)
        BY <2>1, <2>2, ExecuteKeepsHeap, RemovedKeepsHeap, TableStepKeepsHeap
    <2>3. CASE WaitForPending(s) \/ Added(s) \/ ClearPending(s) \/ RunnerSignal(s)
        <3>1. UNCHANGED <<pointersVars, allocated, heap, mpc>>
            BY <2>3 DEF WaitForPending, Added, ClearPending, RunnerSignal, mainVars, traceVars
        <3>2. UNCHANGED ownVars
            BY <3>1 DEF pointersVars, tableVars, callVars, historyVars, ownVars
        <3>3. /\ runner[s] # "removing"
              /\ \E x \in {"execute", "blocked", "clear", "signal", "end_signal", "wait", "exited"} :
                    runner' = [runner EXCEPT ![s] = x]
            BY <2>3 DEF WaitForPending, Added, ClearPending, RunnerSignal, RunnerGoto
        <3>4. \A r \in Slots : runner'[r] = "removing" <=> runner[r] = "removing"
            BY <3>3 DEF WholeInv, ReplayInv, ReplayTypeOK
        <3> QED BY <2>1, <3>1, <3>2, <3>4, SameOwners DEF WholeInv
    <2> QED BY <1>3, <2>2, <2>3 DEF Runner
<1> QED BY <1>1, <1>2, <1>3 DEF ReplayNext, Terminated

\* The three invariants hold together.
LEMMA NextWhole == WholeInv /\ [ReplayNext]_vars => WholeInv' /\ [Next]_pointersVars
<1> SUFFICES ASSUME WholeInv, [ReplayNext]_vars PROVE WholeInv' /\ [Next]_pointersVars
    OBVIOUS
<1>1. [Next]_pointersVars
    BY StepKeepsContract
<1>2. TableInv'
    BY <1>1, NextTable DEF WholeInv
<1>3. \A s \in Slots : Removed(s) => result[s] \in Memory
    BY RemoveGaveMemory DEF Removed
<1>4. ReplayInv'
    BY <1>3, NextReplay DEF WholeInv
<1>5. HeapInv'
    BY NextHeap
<1> QED BY <1>1, <1>2, <1>4, <1>5 DEF WholeInv

\* Every state of the replay satisfies them.
LEMMA WholeInvariant == ReplaySpec => []WholeInv
<1>1. ReplayInit => WholeInv
    BY InitTable, InitReplay, InitHeap DEF ReplayInit, WholeInv
<1> QED BY <1>1, NextWhole, PTL DEF ReplaySpec

-----------------------------------------------------------------------------
\* The threads that main.cpp drives keep the contract of the pointer table,
\* for every dump that records a real execution: the waits around a freeing
\* action (main.cpp 117-123 and 133-138) are enough, however the threads
\* interleave.
THEOREM ReplayKeepsContract == ReplaySpec => KeepsContract
<1>1. ReplayInit => Init
    BY DEF ReplayInit
<1> QED BY <1>1, WholeInvariant, NextWhole, PTL DEF ReplaySpec, KeepsContract, Spec

\* No Add and no Remove of a replay ends in err(1).
THEOREM ReplayNeverErrs == ReplaySpec => []NeverErr
BY ReplayKeepsContract, NoCallFails DEF KeepsContract

\* What the threads of a replay see of the pointer table is an atomic map.
THEOREM ReplayImplementsMap == ReplaySpec => ImplementsMap
BY ReplayKeepsContract, TableImplementsMap DEF KeepsContract

\* A freeing action gets from the table the memory that the last allocation of
\* its key returned, which is still allocated, and when FreeAll returns nothing
\* is.
THEOREM MemoryFreedOnce == ReplaySpec => []FreedOnce
<1>1. WholeInv => FreedOnce
    <2> SUFFICES ASSUME WholeInv PROVE FreedOnce
        OBVIOUS
    <2>1. mpc = "done" => heap = {}
        BY DEF WholeInv, HeapInv
    <2>2. ASSUME NEW s \in Slots, runner[s] = "removing", pc[s] = "idle"
          PROVE  result[s] = allocated[arg[s]] /\ result[s] \in heap
        <3>1. arg[s] \in Owned /\ result[s] = allocated[arg[s]]
            BY <2>2, RemoveGaveMemory
        <3>2. pending_[s] /\ DoesFree(action_memory_[s])
            BY <2>2 DEF WholeInv, ReplayInv, RunnersInv, RunnerOK, Executing
        <3>3. mpc # "done"
            BY <3>2 DEF WholeInv, ReplayInv, AloneInv
        <3> QED BY <3>1, <3>3 DEF WholeInv, HeapInv
    <2> QED BY <2>1, <2>2 DEF FreedOnce
<1> QED BY <1>1, WholeInvariant, PTL

\* No line of the dump is lost in a slot or executed twice, and a tid has one
\* thread.
THEOREM LinesExecutedOnce == ReplaySpec => []EveryLineExecutedOnce
<1>1. WholeInv => EveryLineExecutedOnce
    <2> SUFFICES ASSUME WholeInv PROVE EveryLineExecutedOnce
        OBVIOUS
    <2>1. /\ num_threads_ = Cardinality({s \in Slots : tid_[s] # NoTid})
          /\ \A s, r \in Slots : tid_[s] = tid_[r] /\ tid_[s] # NoTid => s = r
        BY DEF WholeInv, ReplayInv, ThreadsInv, Used
    <2>2. \A n \in 1 .. MaxLines : executed[n] <= 1
        BY DEF WholeInv, ReplayInv, LinesInv
    <2>3. ASSUME mpc = "read", NEW n \in 1 .. lines
          PROVE  \/ executed[n] = 1
                 \/ \E s \in Slots : pending_[s] /\ action_memory_[s].line = n
        <3>1. MaxLines \in Nat /\ lines \in 0 .. MaxLines
            BY ReplayAssumption, SizeAssumption DEF WholeInv, ReplayInv, ReplayTypeOK
        <3>2. n \in 1 .. MaxLines /\ (n < lines \/ n = lines) /\ mpc \notin HasLine \cup {"err"}
            BY <2>3, <3>1 DEF HasLine
        <3>3. \/ executed[n] = 1
              \/ \E s \in Slots : ToRun(s) /\ action_memory_[s].line = n
            BY <3>2 DEF WholeInv, ReplayInv, LinesInv
        <3> QED BY <3>3 DEF ToRun
    <2> QED BY <2>1, <2>2, <2>3 DEF EveryLineExecutedOnce
<1> QED BY <1>1, WholeInvariant, PTL

\* When a thread is to call Add, fewer Adds were made than the dump has lines:
\* the bound of Pointers.tla, which the size of the table rests on, never holds
\* an Add back.
AddAlwaysFits == \A s \in Slots : ToAdd(s) => adds < MaxAdds

\* GetMaxAllocs counts a line for every Add, so the table of Pointers::Pointers
\* is large enough for the replay, whichever lines are in the slots.
THEOREM LinesCoverAdds == ReplaySpec => []AddAlwaysFits
<1>1. ReplayInit => AddsInv
    <2> SUFFICES ASSUME ReplayInit PROVE AddsInv
        OBVIOUS
    <2>1. Adders = {} /\ InHand = 0 /\ adds = 0 /\ lines = 0
        BY DEF ReplayInit, Init, Adders, ToAdd, InHand, HasLine
    <2> QED BY <2>1, FS_EmptySet DEF AddsInv
<1>2. ReplayInv /\ AddsInv /\ [ReplayNext]_vars => AddsInv'
    <2> SUFFICES ASSUME ReplayInv, AddsInv, [ReplayNext]_vars PROVE AddsInv'
        OBVIOUS
    <2>1. CASE UNCHANGED vars
        <3>1. UNCHANGED <<adds, lines, mpc, pending_, runner, action_memory_>>
            BY <2>1 DEF vars, pointersVars, historyVars, threadVars, mainVars
        <3>2. \A s \in Slots : ToAdd(s)' => ToAdd(s)
            BY <3>1 DEF ToAdd
        <3> QED BY <3>1, <3>2, NoMoreAdders
    <2> QED BY <2>1, MainKeepsAdds, RunnerKeepsAdds DEF ReplayNext, Terminated
<1>3. ReplayInv /\ AddsInv => AddAlwaysFits
    <2> SUFFICES ASSUME ReplayInv, AddsInv, NEW s \in Slots, ToAdd(s) PROVE adds < MaxAdds
        BY DEF AddAlwaysFits
    <2>1. s \in Adders
        BY DEF Adders
    <2>2. Cardinality(Adders) # 0
        BY <2>1, AddsAreNumbers, FS_EmptySet
    <2> QED BY <2>2, AddsAreNumbers DEF AddsInv
<1>4. WholeInv => ReplayInv
    BY DEF WholeInv
<1> QED BY <1>1, <1>2, <1>3, <1>4, WholeInvariant, PTL DEF ReplaySpec

\* No wake-up is lost although one condition variable serves both sides and is
\* signalled after the unlock (Thread.cpp 30-58): whoever waits has a signal
\* coming.  It is what keeps Terminates from failing in a wait.
THEOREM WakeUpsArrive == ReplaySpec => []NoLostWakeUp
<1>1. ReplayInit => NoLostWakeUp
    BY ReplayAssumption DEF ReplayInit, NoLostWakeUp, NoSlot, Slots
<1>2. ReplayInv /\ NoLostWakeUp /\ [ReplayNext]_vars => NoLostWakeUp'
    <2> SUFFICES ASSUME ReplayInv, NoLostWakeUp, [ReplayNext]_vars PROVE NoLostWakeUp'
        OBVIOUS
    <2>1. CASE UNCHANGED vars
        BY <2>1 DEF vars, threadVars, mainVars, NoLostWakeUp, AboutToSignal
    <2> QED BY <2>1, MainKeepsWakeUps, RunnerKeepsWakeUps DEF ReplayNext, Terminated
<1>3. WholeInv => ReplayInv
    BY DEF WholeInv
<1> QED BY <1>1, <1>2, <1>3, WholeInvariant, PTL DEF ReplaySpec
===============================================================================
