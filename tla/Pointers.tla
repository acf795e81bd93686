------------------------------- MODULE Pointers -------------------------------
(***************************************************************************)
(* The lock-free pointer table of memory_replay (Pointers.cpp): an open-   *)
(* addressing hash table that the replaying threads share.  Add claims an  *)
(* empty entry with a compare-and-swap that writes the mark 1, then stores *)
(* the key and only then the pointer; Remove looks the key up, reads the   *)
(* pointer and clears the key.  Every shared access is a step of its own.  *)
(*                                                                         *)
(* The callers keep the contract that main.cpp enforces by quiescing the   *)
(* threads around a freeing action: a key is added while it is free, it is *)
(* removed after its Add has returned, and one caller at a time works on a *)
(* key.  Replay.tla shows that main.cpp does keep it.                      *)
(***************************************************************************)
EXTENDS Naturals, FiniteSets

CONSTANTS
    Callers,       \* threads that call Add and Remove
    Keys,          \* pointer values of the trace
    Memory,        \* what malloc can return during the replay
    NoMem,         \* the content of an entry never written
    max_pointers,  \* entries of the table
    MaxAdds        \* Adds in the whole replay: at most one per line of the dump

\* 0 is an empty entry and 1 the mark of a claimed one; no allocation has
\* either address.
ASSUME KeysAssumption == Keys \subseteq Nat \ {0, 1}

ASSUME MemoryAssumption == NoMem \notin Memory

\* Pointers::Pointers makes the table four times as large as the count.
ASSUME SizeAssumption ==
    /\ max_pointers \in Nat \ {0}
    /\ MaxAdds \in Nat
    /\ MaxAdds < max_pointers

Entries == 0 .. max_pointers - 1

Empty == 0

Claimed == 1

VARIABLES
    key_pointer,  \* the atomic key of every entry
    pointer,      \* the plain pointer of every entry
    pc,           \* what every caller is doing
    arg,          \* the key a caller's call is about
    mem,          \* the memory an Add installs
    index,        \* the probe position of a caller
    entries,      \* how many entries the caller has probed
    result,       \* what the caller's last Remove returned
    added,        \* history: keys added and not removed, in the order of the calls
    adds,         \* history: Adds called so far
    callId,       \* history: the number of the caller's last Add
    owner         \* history: the Add that last claimed every entry, or 0

tableVars == <<key_pointer, pointer>>
callVars == <<pc, arg, mem, index, entries>>
historyVars == <<added, adds, callId, owner>>
pointersVars == <<tableVars, callVars, result, historyVars>>

Adding == {"find_empty", "store_key", "store_pointer"}
Removing == {"find", "load_pointer", "clear_key"}

\* Callers that own the entry at their index.
Holding == {"store_key", "store_pointer", "load_pointer", "clear_key"}

TypeOK ==
    /\ key_pointer \in [Entries -> Keys \cup {Empty, Claimed}]
    /\ pointer \in [Entries -> Memory \cup {NoMem}]
    /\ pc \in [Callers -> Adding \cup Removing \cup {"idle", "err"}]
    /\ arg \in [Callers -> Keys \cup {0}]
    /\ mem \in [Callers -> Memory \cup {NoMem}]
    /\ index \in [Callers -> Entries]
    /\ entries \in [Callers -> 0 .. max_pointers]
    /\ result \in [Callers -> Memory \cup {NoMem}]
    /\ added \subseteq Keys
    /\ adds \in 0 .. MaxAdds
    /\ callId \in [Callers -> 0 .. MaxAdds]
    /\ owner \in [Entries -> 0 .. MaxAdds]

Init ==
    /\ key_pointer = [i \in Entries |-> Empty]
    /\ pointer = [i \in Entries |-> NoMem]
    /\ pc = [t \in Callers |-> "idle"]
    /\ arg = [t \in Callers |-> 0]
    /\ mem = [t \in Callers |-> NoMem]
    /\ index = [t \in Callers |-> 0]
    /\ entries = [t \in Callers |-> 0]
    /\ result = [t \in Callers |-> NoMem]
    /\ added = {}
    /\ adds = 0
    /\ callId = [t \in Callers |-> 0]
    /\ owner = [i \in Entries |-> 0]

GetHash(k) == k % max_pointers

Following(i) == IF i + 1 = max_pointers THEN 0 ELSE i + 1

Goto(t, label) == pc' = [pc EXCEPT ![t] = label]

\* Move the probe of t one entry on; err(1) once every entry was probed.
ProbeNext(t, label) ==
    /\ index' = [index EXCEPT ![t] = Following(@)]
    /\ entries' = [entries EXCEPT ![t] = @ + 1]
    /\ Goto(t, IF entries[t] + 1 = max_pointers THEN "err" ELSE label)

StartProbe(t, k, label) ==
    /\ pc[t] = "idle"
    /\ arg' = [arg EXCEPT ![t] = k]
    /\ index' = [index EXCEPT ![t] = GetHash(k)]
    /\ entries' = [entries EXCEPT ![t] = 0]
    /\ Goto(t, label)

Add(t, k, m) ==
    /\ adds < MaxAdds
    /\ StartProbe(t, k, "find_empty")
    /\ mem' = [mem EXCEPT ![t] = m]
    /\ added' = added \cup {k}
    /\ adds' = adds + 1
    /\ callId' = [callId EXCEPT ![t] = adds + 1]
    /\ UNCHANGED <<tableVars, result, owner>>

\* One compare-and-swap of FindEmpty.
FindEmptyClaimed(t) ==
    /\ key_pointer[index[t]] = Empty
    /\ key_pointer' = [key_pointer EXCEPT ![index[t]] = Claimed]
    /\ owner' = [owner EXCEPT ![index[t]] = callId[t]]
    /\ Goto(t, "store_key")
    /\ UNCHANGED <<index, entries>>

FindEmptyOccupied(t) ==
    /\ key_pointer[index[t]] # Empty
    /\ ProbeNext(t, "find_empty")
    /\ UNCHANGED <<key_pointer, owner>>

FindEmpty(t) ==
    /\ pc[t] = "find_empty"
    /\ FindEmptyClaimed(t) \/ FindEmptyOccupied(t)
    /\ UNCHANGED <<pointer, arg, mem, result, added, adds, callId>>

StoreKey(t) ==
    /\ pc[t] = "store_key"
    /\ key_pointer' = [key_pointer EXCEPT ![index[t]] = arg[t]]
    /\ Goto(t, "store_pointer")
    /\ UNCHANGED <<pointer, arg, mem, index, entries, result, historyVars>>

\* Mutant: the pointer goes to the entry the key hashes to.
StorePointerAtHash(t) ==
    /\ pc[t] = "store_pointer"
    /\ pointer' = [pointer EXCEPT ![GetHash(arg[t])] = mem[t]]
    /\ Goto(t, "idle")
    /\ UNCHANGED <<key_pointer, arg, mem, index, entries, result, historyVars>>

StorePointer(t) ==
    /\ pc[t] = "store_pointer"
    /\ pointer' = [pointer EXCEPT ![index[t]] = mem[t]]
    /\ Goto(t, "idle")
    /\ UNCHANGED <<key_pointer, arg, mem, index, entries, result, historyVars>>

Remove(t, k) ==
    /\ StartProbe(t, k, "find")
    /\ added' = added \ {k}
    /\ UNCHANGED <<tableVars, mem, result, adds, callId, owner>>

FindHit(t) ==
    /\ key_pointer[index[t]] = arg[t]
    /\ Goto(t, "load_pointer")
    /\ UNCHANGED <<index, entries>>

\* Mutant: an empty entry ends the search, as if nothing was ever removed.
FindMissStopsAtHole(t) ==
    /\ key_pointer[index[t]] # arg[t]
    /\ IF key_pointer[index[t]] = Empty
       THEN Goto(t, "err") /\ UNCHANGED <<index, entries>>
       ELSE ProbeNext(t, "find")

FindMiss(t) ==
    /\ key_pointer[index[t]] # arg[t]
    /\ ProbeNext(t, "find")

Find(t) ==
    /\ pc[t] = "find"
    /\ FindHit(t) \/ FindMiss(t)
    /\ UNCHANGED <<tableVars, arg, mem, result, historyVars>>

LoadPointer(t) ==
    /\ pc[t] = "load_pointer"
    /\ mem' = [mem EXCEPT ![t] = pointer[index[t]]]
    /\ Goto(t, "clear_key")
    /\ UNCHANGED <<tableVars, arg, index, entries, result, historyVars>>

ClearKey(t) ==
    /\ pc[t] = "clear_key"
    /\ key_pointer' = [key_pointer EXCEPT ![index[t]] = Empty]
    /\ result' = [result EXCEPT ![t] = mem[t]]
    /\ Goto(t, "idle")
    /\ UNCHANGED <<pointer, arg, mem, index, entries, historyVars>>

\* A call in progress goes on.
Step(t) ==
    \/ FindEmpty(t)
    \/ StoreKey(t)
    \/ StorePointer(t)
    \/ Find(t)
    \/ LoadPointer(t)
    \/ ClearKey(t)

-----------------------------------------------------------------------------
(* The table under callers that keep the contract.                         *)

\* The entry of k, once its Add has returned.
Bound(k, i) ==
    /\ key_pointer[i] = k
    /\ \A t \in Callers : ~(pc[t] = "store_pointer" /\ index[t] = i)

map ==
    [k \in Keys |->
        IF \E i \in Entries : Bound(k, i)
        THEN pointer[CHOOSE i \in Entries : Bound(k, i)]
        ELSE NoMem]

InUse(k) == \E t \in Callers : pc[t] \in Adding \cup Removing /\ arg[t] = k

MayAdd(k) == ~InUse(k) /\ k \notin added

MayRemove(k) == ~InUse(k) /\ k \in added

Failed == \E t \in Callers : pc[t] = "err"

Next ==
    /\ ~Failed    \* err(1) ends the process
    /\ \E t \in Callers :
        \/ \E k \in Keys : MayAdd(k) /\ \E m \in Memory : Add(t, k, m)
        \/ \E k \in Keys : MayRemove(k) /\ Remove(t, k)
        \/ Step(t)

Spec == Init /\ [][Next]_pointersVars

-----------------------------------------------------------------------------
\* No call ever reaches err(1): Add always finds an empty entry and Remove
\* always finds its key (Pointers.cpp 54-56 and 66-69), whatever claims and
\* releases other threads make behind and ahead of its probe.
NeverErr == ~Failed

\* Distinct entries never hold the same key, so Remove cannot take the
\* binding of another Add (Pointers.cpp 77-88 returns the first match).
KeysUnique ==
    \A i, j \in Entries :
        key_pointer[i] = key_pointer[j] /\ key_pointer[i] \in Keys => i = j

\* The pointer that Remove has read is still the one bound to its key when
\* it clears the entry (Pointers.cpp 71-72 reads and clears in two steps).
RemoveReadsBinding ==
    \A t \in Callers :
        pc[t] = "clear_key" => mem[t] = map[arg[t]] /\ mem[t] # NoMem

Abstract == INSTANCE PointerMap WITH map <- map, result <- result

\* Pointers.cpp implements the atomic map of PointerMap: Add takes effect
\* with the store of the pointer, Remove with the clearing of the key.
ImplementsMap == Abstract!Spec
=============================================================================
