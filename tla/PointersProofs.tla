---------------------------- MODULE PointersProofs ----------------------------
(***************************************************************************)
(* The pointer table for every number of threads, keys and entries.        *)
(*                                                                         *)
(* TableInv says who holds which entry and where a key can be; it gives    *)
(* KeysUnique.  ProbeInv says what a search has behind it: Find has not    *)
(* passed the entry of its key, and every entry that FindEmpty has passed  *)
(* was claimed by a different Add.  Since there are more entries than      *)
(* Adds, neither search can come round to err(1).  BindingInv adds what    *)
(* the pointers are, which the step simulation of PointerMap needs.        *)
(***************************************************************************)
EXTENDS Pointers, FiniteSetTheorems, TLAPS

Probing == {"find", "find_empty"}

Keyed == {"store_pointer", "load_pointer", "clear_key"}

Busy(t) == pc[t] \in Adding \cup Removing

HasKey(k) == \E i \in Entries : key_pointer[i] = k

\* A caller that holds an entry finds there what it last wrote or read.
SlotsHeld ==
    \A t \in Callers :
        /\ pc[t] = "store_key" => key_pointer[index[t]] = Claimed
        /\ pc[t] \in Keyed => key_pointer[index[t]] = arg[t]

\* No two callers hold the same entry.
OneHolder ==
    \A s, t \in Callers :
        s # t /\ pc[s] \in Holding /\ pc[t] \in Holding => index[s] # index[t]

\* No two callers work on the same key.
OneCaller ==
    \A s, t \in Callers : s # t /\ Busy(s) /\ Busy(t) => arg[s] # arg[t]

\* The calls in progress: what they are about, and that the table does not
\* have a key before its Add stores it.
CallsKnown ==
    \A t \in Callers :
        /\ Busy(t) => arg[t] \in Keys
        /\ pc[t] \in Adding => arg[t] \in added
        /\ pc[t] \in Removing => arg[t] \notin added
        /\ pc[t] \in {"find_empty", "store_key"} => ~HasKey(arg[t])
        /\ pc[t] \in Probing => entries[t] < max_pointers

\* The table has the keys that were added and not removed.
AddedIsTable ==
    ~Failed => \A k \in Keys : ~InUse(k) => (k \in added <=> HasKey(k))

TableInv ==
    /\ TypeOK
    /\ SlotsHeld
    /\ OneHolder
    /\ OneCaller
    /\ CallsKnown
    /\ AddedIsTable
    /\ KeysUnique

\* A leaf is tried with SMT, then with Zenon, then with SMT for longer.
USE SMT, Zenon, SMTT(30)

\* Empty and Claimed are not keys.
LEMMA MarksAreNoKeys == Empty \notin Keys /\ Claimed \notin Keys /\ Empty # Claimed
BY KeysAssumption DEF Empty, Claimed

\* A hash is the index of an entry.
LEMMA HashInRange == \A k \in Nat : GetHash(k) \in Entries
BY SizeAssumption DEF GetHash, Entries

\* The next entry of a probe is one of the table.
LEMMA FollowingInRange == \A i \in Entries : Following(i) \in Entries
BY SizeAssumption DEF Following, Entries

\* An empty table and idle callers.
LEMMA InitTable == Init => TableInv
<1> SUFFICES ASSUME Init PROVE TableInv
    OBVIOUS
<1>1. TypeOK
    BY SizeAssumption DEF Init, TypeOK, Entries
<1>2. \A t \in Callers : pc[t] = "idle"
    BY DEF Init
<1>3. SlotsHeld /\ OneHolder /\ OneCaller /\ CallsKnown
    BY <1>2 DEF SlotsHeld, OneHolder, OneCaller, CallsKnown, Busy,
                Keyed, Holding, Adding, Removing, Probing
<1>4. \A i \in Entries : key_pointer[i] \notin Keys
    BY MarksAreNoKeys DEF Init
<1>5. AddedIsTable /\ KeysUnique
    BY <1>4 DEF Init, AddedIsTable, KeysUnique, HasKey
<1> QED BY <1>1, <1>3, <1>5 DEF TableInv

\* Add and Remove start with a key that nobody else works on.
LEMMA StartPreserves ==
    ASSUME TableInv, NEW t \in Callers, NEW k \in Keys, ~Failed, ~InUse(k),
           \/ k \notin added /\ \E m \in Memory : Add(t, k, m)
           \/ k \in added /\ Remove(t, k)
    PROVE  TableInv'
<1> DEFINE label == IF k \in added THEN "find" ELSE "find_empty"
<1>1. /\ pc[t] = "idle"
      /\ pc' = [pc EXCEPT ![t] = label]
      /\ arg' = [arg EXCEPT ![t] = k]
      /\ index' = [index EXCEPT ![t] = GetHash(k)]
      /\ entries' = [entries EXCEPT ![t] = 0]
      /\ added' = IF k \in added THEN added \ {k} ELSE added \cup {k}
      /\ UNCHANGED <<key_pointer, pointer, result, owner>>
    BY DEF Add, Remove, StartProbe, Goto, tableVars
<1>2. /\ mem' \in [Callers -> Memory \cup {NoMem}]
      /\ adds' \in 0 .. MaxAdds
      /\ callId' \in [Callers -> 0 .. MaxAdds]
    BY SizeAssumption DEF Add, Remove, TableInv, TypeOK
<1>3. GetHash(k) \in Entries /\ 0 \in 0 .. max_pointers
    BY KeysAssumption, HashInRange, SizeAssumption
<1>4. TypeOK'
    BY <1>1, <1>2, <1>3 DEF TableInv, TypeOK, Adding, Removing
<1>5. \A s \in Callers \ {t} :
        pc'[s] = pc[s] /\ arg'[s] = arg[s] /\ index'[s] = index[s] /\ entries'[s] = entries[s]
    BY <1>1 DEF TableInv, TypeOK
<1>6. pc'[t] = label /\ arg'[t] = k /\ entries'[t] = 0
    BY <1>1 DEF TableInv, TypeOK
<1>7. SlotsHeld' /\ OneHolder'
    BY <1>1, <1>5, <1>6 DEF TableInv, SlotsHeld, OneHolder, Keyed, Holding
<1>8. OneCaller'
    BY <1>5, <1>6 DEF TableInv, OneCaller, Busy, InUse
<1>9. CallsKnown'
    <2>1. \A s \in Callers \ {t} : Busy(s) => arg[s] # k
        BY DEF InUse, Busy
    <2>2. HasKey(k) <=> k \in added
        BY DEF TableInv, AddedIsTable
    <2>3. 0 < max_pointers
        BY SizeAssumption
    <2> QED BY <1>1, <1>5, <1>6, <2>1, <2>2, <2>3
            DEF TableInv, CallsKnown, Busy, HasKey, Adding, Removing, Probing
<1>10. AddedIsTable'
    <2> SUFFICES ASSUME NEW j \in Keys, ~InUse(j)'
                 PROVE  j \in added' <=> HasKey(j)'
        BY DEF AddedIsTable
    <2>1. j # k
        BY <1>6 DEF InUse, Adding, Removing
    <2>2. ~InUse(j)
        BY <1>1, <1>5 DEF InUse, Adding, Removing
    <2> QED BY <1>1, <2>1, <2>2 DEF TableInv, AddedIsTable, HasKey
<1>11. KeysUnique'
    BY <1>1 DEF TableInv, KeysUnique
<1> QED BY <1>4, <1>7, <1>8, <1>9, <1>10, <1>11 DEF TableInv

\* A search that goes on holds no entry and changes none.
LEMMA ProbePreserves ==
    ASSUME TableInv, ~Failed, NEW t \in Callers, pc[t] \in Probing,
           ProbeNext(t, pc[t]),
           UNCHANGED <<tableVars, arg, mem, result, historyVars>>
    PROVE  TableInv'
<1> USE DEF tableVars, historyVars
<1>1. /\ pc' = [pc EXCEPT ![t] = IF entries[t] + 1 = max_pointers THEN "err" ELSE pc[t]]
      /\ index' = [index EXCEPT ![t] = Following(index[t])]
      /\ entries' = [entries EXCEPT ![t] = entries[t] + 1]
    BY DEF ProbeNext, Goto, TableInv, TypeOK
<1>2. entries[t] \in 0 .. max_pointers /\ entries[t] < max_pointers
    BY DEF TableInv, TypeOK, CallsKnown
<1>3. entries[t] + 1 \in 0 .. max_pointers
      /\ (entries[t] + 1 # max_pointers => entries[t] + 1 < max_pointers)
    BY <1>2, SizeAssumption
<1>4. Following(index[t]) \in Entries
    BY FollowingInRange DEF TableInv, TypeOK
<1>5. TypeOK'
    BY <1>1, <1>3, <1>4 DEF TableInv, TypeOK
<1>6. \A s \in Callers \ {t} :
        pc'[s] = pc[s] /\ index'[s] = index[s] /\ entries'[s] = entries[s]
    BY <1>1 DEF TableInv, TypeOK
<1>7. /\ pc'[t] \in Probing \cup {"err"}
      /\ pc'[t] # "err" => pc'[t] = pc[t] /\ entries'[t] < max_pointers
    BY <1>1, <1>3 DEF TableInv, TypeOK
<1>8. SlotsHeld' /\ OneHolder'
    BY <1>6, <1>7 DEF TableInv, SlotsHeld, OneHolder, Keyed, Holding, Probing
<1>9. OneCaller'
    BY <1>6, <1>7 DEF TableInv, OneCaller, Busy, Adding, Removing
<1>10. CallsKnown'
    BY <1>6, <1>7 DEF TableInv, CallsKnown, Busy, HasKey, Adding, Removing, Probing
<1>11. AddedIsTable'
    <2> SUFFICES ASSUME NEW j \in Keys, ~InUse(j)', pc'[t] # "err"
                 PROVE  j \in added' <=> HasKey(j)'
        BY DEF AddedIsTable, Failed
    <2> QED BY <1>6, <1>7 DEF TableInv, AddedIsTable, HasKey, InUse
<1>12. KeysUnique'
    BY DEF TableInv, KeysUnique
<1> QED BY <1>5, <1>8, <1>9, <1>10, <1>11, <1>12 DEF TableInv

\* FindEmpty claims an empty entry.
LEMMA ClaimPreserves ==
    ASSUME TableInv, ~Failed, NEW t \in Callers, pc[t] = "find_empty",
           FindEmptyClaimed(t),
           UNCHANGED <<pointer, arg, mem, result, added, adds, callId>>
    PROVE  TableInv'
<1> DEFINE i == index[t]
<1>1. /\ i \in Entries /\ key_pointer[i] = Empty
      /\ key_pointer' = [key_pointer EXCEPT ![i] = Claimed]
      /\ owner' = [owner EXCEPT ![i] = callId[t]]
      /\ pc' = [pc EXCEPT ![t] = "store_key"]
      /\ UNCHANGED <<index, entries>>
    BY DEF FindEmptyClaimed, Goto, TableInv, TypeOK
<1> HIDE DEF i
<1>2. TypeOK'
    BY <1>1 DEF TableInv, TypeOK, Adding
<1>3. /\ \A s \in Callers \ {t} : pc'[s] = pc[s]
      /\ pc'[t] = "store_key"
      /\ \A j \in Entries \ {i} : key_pointer'[j] = key_pointer[j]
      /\ key_pointer'[i] = Claimed
    BY <1>1 DEF TableInv, TypeOK
<1>4. \A k \in Keys : HasKey(k)' <=> HasKey(k)
    BY <1>1, <1>3, MarksAreNoKeys DEF HasKey
<1>5. \A s \in Callers \ {t} : pc[s] \in Holding => index[s] # i
    <2>1. \A s \in Callers : pc[s] \in Holding => key_pointer[index[s]] # Empty
        BY MarksAreNoKeys
        DEF TableInv, SlotsHeld, CallsKnown, Busy, Holding, Keyed, Adding, Removing
    <2> QED BY <1>1, <2>1
<1>6. index[t] = i
    BY DEF i
<1>7. SlotsHeld'
    BY <1>1, <1>3, <1>5, <1>6 DEF TableInv, TypeOK, SlotsHeld, Keyed, Holding
<1>8. OneHolder'
    BY <1>1, <1>3, <1>5, <1>6 DEF TableInv, OneHolder
<1>9. OneCaller'
    BY <1>3 DEF TableInv, OneCaller, Busy, Adding
<1>10. CallsKnown'
    BY <1>1, <1>3, <1>4 DEF TableInv, CallsKnown, Busy, Adding, Removing, Probing
<1>11. AddedIsTable'
    BY <1>3, <1>4 DEF TableInv, AddedIsTable, InUse, Adding
<1>12. KeysUnique'
    BY <1>3, MarksAreNoKeys DEF TableInv, KeysUnique
<1> QED BY <1>2, <1>7, <1>8, <1>9, <1>10, <1>11, <1>12 DEF TableInv

\* Add stores its key in the entry that it claimed.
LEMMA StoreKeyPreserves ==
    ASSUME TableInv, ~Failed, NEW t \in Callers, StoreKey(t)
    PROVE  TableInv'
<1> DEFINE i == index[t]
<1>1. /\ i \in Entries /\ pc[t] = "store_key" /\ key_pointer[i] = Claimed
      /\ arg[t] \in Keys /\ ~HasKey(arg[t])
      /\ key_pointer' = [key_pointer EXCEPT ![i] = arg[t]]
      /\ pc' = [pc EXCEPT ![t] = "store_pointer"]
      /\ UNCHANGED <<pointer, arg, mem, index, entries, result, added, adds, callId, owner>>
    BY DEF StoreKey, Goto, historyVars, TableInv, TypeOK, SlotsHeld, CallsKnown, Busy, Adding
<1> HIDE DEF i
<1>2. TypeOK'
    BY <1>1 DEF TableInv, TypeOK, Adding
<1>3. /\ \A s \in Callers \ {t} : pc'[s] = pc[s]
      /\ pc'[t] = "store_pointer"
      /\ \A j \in Entries \ {i} : key_pointer'[j] = key_pointer[j]
      /\ key_pointer'[i] = arg[t]
      /\ index[t] = i
    BY <1>1 DEF TableInv, TypeOK, i
<1>4. \A k \in Keys : HasKey(k)' <=> HasKey(k) \/ k = arg[t]
    BY <1>1, <1>3, MarksAreNoKeys DEF HasKey
<1>5. SlotsHeld'
    BY <1>1, <1>3 DEF TableInv, TypeOK, SlotsHeld, OneHolder, Keyed, Holding
<1>6. OneHolder' /\ OneCaller'
    BY <1>1, <1>3 DEF TableInv, OneHolder, OneCaller, Busy, Adding, Holding
<1>7. CallsKnown'
    BY <1>1, <1>3, <1>4
    DEF TableInv, CallsKnown, OneCaller, Busy, Adding, Removing, Probing
<1>8. AddedIsTable'
    BY <1>1, <1>3, <1>4 DEF TableInv, AddedIsTable, InUse, Adding
<1>9. KeysUnique'
    BY <1>1, <1>3 DEF TableInv, KeysUnique, HasKey
<1> QED BY <1>2, <1>5, <1>6, <1>7, <1>8, <1>9 DEF TableInv

\* Add ends with the store of the pointer.
LEMMA StorePointerPreserves ==
    ASSUME TableInv, ~Failed, NEW t \in Callers, StorePointer(t)
    PROVE  TableInv'
<1>1. /\ pc[t] = "store_pointer" /\ key_pointer[index[t]] = arg[t]
      /\ index[t] \in Entries /\ arg[t] \in Keys /\ arg[t] \in added
      /\ pc' = [pc EXCEPT ![t] = "idle"]
      /\ UNCHANGED <<key_pointer, arg, mem, index, entries, result, added, adds, callId, owner>>
    BY DEF StorePointer, Goto, historyVars, TableInv, TypeOK, SlotsHeld, CallsKnown,
           Busy, Adding, Keyed
<1>2. pointer' \in [Entries -> Memory \cup {NoMem}]
    BY DEF StorePointer, TableInv, TypeOK
<1>3. TypeOK'
    BY <1>1, <1>2 DEF TableInv, TypeOK
<1>4. (\A s \in Callers \ {t} : pc'[s] = pc[s]) /\ pc'[t] = "idle"
    BY <1>1 DEF TableInv, TypeOK
<1>5. SlotsHeld' /\ OneHolder' /\ OneCaller'
    BY <1>1, <1>4 DEF TableInv, SlotsHeld, OneHolder, OneCaller, Busy,
                      Adding, Removing, Keyed, Holding
<1>6. CallsKnown'
    BY <1>1, <1>4 DEF TableInv, CallsKnown, Busy, HasKey, Adding, Removing, Probing
<1>7. AddedIsTable'
    BY <1>1, <1>4 DEF TableInv, AddedIsTable, InUse, HasKey
<1>8. KeysUnique'
    BY <1>1 DEF TableInv, KeysUnique
<1> QED BY <1>3, <1>5, <1>6, <1>7, <1>8 DEF TableInv

\* Remove has found its key, or reads the pointer: the table is unchanged and
\* the caller holds the entry of its key.
LEMMA LoadPreserves ==
    ASSUME TableInv, ~Failed, NEW t \in Callers,
           \/ Find(t) /\ FindHit(t)
           \/ LoadPointer(t)
    PROVE  TableInv'
<1>1. /\ pc[t] \in {"find", "load_pointer"} /\ key_pointer[index[t]] = arg[t]
      /\ arg[t] \in Keys
      /\ \E label \in {"load_pointer", "clear_key"} : pc' = [pc EXCEPT ![t] = label]
      /\ UNCHANGED <<key_pointer, pointer, arg, index, entries, result, added, adds, callId, owner>>
    BY DEF Find, FindHit, FindMiss, LoadPointer, Goto, historyVars, tableVars,
           TableInv, SlotsHeld, CallsKnown, Busy, Removing, Keyed
<1>2. mem' \in [Callers -> Memory \cup {NoMem}]
    BY DEF Find, LoadPointer, TableInv, TypeOK
<1>3. TypeOK'
    BY <1>1, <1>2 DEF TableInv, TypeOK, Removing
<1>4. /\ \A s \in Callers \ {t} : pc'[s] = pc[s]
      /\ pc'[t] \in {"load_pointer", "clear_key"}
    BY <1>1 DEF TableInv, TypeOK
<1>5. \A s \in Callers \ {t} : pc[s] \in Holding => index[s] # index[t]
    BY <1>1, MarksAreNoKeys DEF TableInv, SlotsHeld, OneCaller, CallsKnown, Busy,
                Adding, Removing, Holding, Keyed
<1>6. SlotsHeld' /\ OneHolder'
    <2>1. SlotsHeld'
        BY <1>1, <1>4 DEF TableInv, SlotsHeld, Keyed
    <2>2. OneHolder'
        BY <1>1, <1>4, <1>5 DEF TableInv, OneHolder
    <2> QED BY <2>1, <2>2
<1>7. OneCaller' /\ CallsKnown'
    <2>1. OneCaller'
        BY <1>1, <1>4 DEF TableInv, OneCaller, Busy, Adding, Removing
    <2>2. CallsKnown'
        BY <1>1, <1>4 DEF TableInv, CallsKnown, Busy, HasKey, Adding, Removing, Probing
    <2> QED BY <2>1, <2>2
<1>8. AddedIsTable' /\ KeysUnique'
    BY <1>1, <1>4 DEF TableInv, AddedIsTable, KeysUnique, InUse, HasKey, Removing
<1> QED BY <1>3, <1>6, <1>7, <1>8 DEF TableInv

\* Remove ends with the clearing of the key.
LEMMA ClearKeyPreserves ==
    ASSUME TableInv, ~Failed, NEW t \in Callers, ClearKey(t)
    PROVE  TableInv'
<1> DEFINE i == index[t]
<1>1. /\ i \in Entries /\ pc[t] = "clear_key" /\ key_pointer[i] = arg[t]
      /\ arg[t] \in Keys /\ arg[t] \notin added
      /\ key_pointer' = [key_pointer EXCEPT ![i] = Empty]
      /\ pc' = [pc EXCEPT ![t] = "idle"]
      /\ UNCHANGED <<pointer, arg, mem, index, entries, added, adds, callId, owner>>
    BY DEF ClearKey, Goto, historyVars, TableInv, TypeOK, SlotsHeld, CallsKnown, Busy,
           Removing, Keyed
<1>2. result' \in [Callers -> Memory \cup {NoMem}]
    BY DEF ClearKey, TableInv, TypeOK
<1> HIDE DEF i
<1>3. TypeOK'
    BY <1>1, <1>2 DEF TableInv, TypeOK
<1>4. /\ \A s \in Callers \ {t} : pc'[s] = pc[s]
      /\ pc'[t] = "idle"
      /\ \A j \in Entries \ {i} : key_pointer'[j] = key_pointer[j]
      /\ key_pointer'[i] = Empty
      /\ index[t] = i
    BY <1>1 DEF TableInv, TypeOK, i
<1>5. \A k \in Keys : HasKey(k)' <=> HasKey(k) /\ k # arg[t]
    BY <1>1, <1>4, MarksAreNoKeys DEF HasKey, TableInv, KeysUnique
<1>6. SlotsHeld'
    BY <1>1, <1>4 DEF TableInv, TypeOK, SlotsHeld, OneHolder, Keyed, Holding
<1>7. OneHolder' /\ OneCaller'
    BY <1>1, <1>4 DEF TableInv, OneHolder, OneCaller, Busy, Adding, Removing, Holding
<1>8. CallsKnown'
    BY <1>1, <1>4, <1>5 DEF TableInv, CallsKnown, Busy, Adding, Removing, Probing
<1>9. AddedIsTable'
    <2>1. \A k \in Keys : k # arg[t] /\ ~InUse(k)' => ~InUse(k)
        BY <1>1, <1>4 DEF InUse
    <2>2. \A k \in Keys : ~InUse(k) => (k \in added <=> HasKey(k))
        BY DEF TableInv, AddedIsTable
    <2>3. \A k \in Keys : ~InUse(k)' => (k \in added' <=> HasKey(k)')
        BY <1>1, <1>5, <2>1, <2>2
    <2> QED BY <2>3 DEF AddedIsTable
<1>10. KeysUnique'
    BY <1>1, <1>4, MarksAreNoKeys DEF TableInv, KeysUnique
<1> QED BY <1>3, <1>6, <1>7, <1>8, <1>9, <1>10 DEF TableInv

\* Every step of the callers keeps TableInv.
LEMMA NextTable == TableInv /\ [Next]_pointersVars => TableInv'
<1> SUFFICES ASSUME TableInv, [Next]_pointersVars
             PROVE  TableInv'
    OBVIOUS
<1>1. CASE UNCHANGED pointersVars
    BY <1>1 DEF pointersVars, tableVars, callVars, historyVars, TableInv, TypeOK,
                SlotsHeld, OneHolder, OneCaller, CallsKnown, AddedIsTable, KeysUnique,
                Busy, HasKey, InUse, Failed
<1>2. CASE Next
    <2>1. ~Failed
        BY <1>2 DEF Next
    <2>2. PICK t \in Callers :
            \/ \E k \in Keys : MayAdd(k) /\ \E m \in Memory : Add(t, k, m)
            \/ \E k \in Keys : MayRemove(k) /\ Remove(t, k)
            \/ Step(t)
        BY <1>2 DEF Next
    <2>3. CASE \E k \in Keys : MayAdd(k) /\ \E m \in Memory : Add(t, k, m)
        BY <2>1, <2>3, StartPreserves DEF MayAdd
    <2>4. CASE \E k \in Keys : MayRemove(k) /\ Remove(t, k)
        BY <2>1, <2>4, StartPreserves DEF MayRemove
    <2>5. CASE FindEmpty(t)
        <3>1. CASE FindEmptyClaimed(t)
            BY <2>1, <2>5, <3>1, ClaimPreserves DEF FindEmpty
        <3>2. CASE FindEmptyOccupied(t)
            BY <2>1, <2>5, <3>2, ProbePreserves
            DEF FindEmpty, FindEmptyOccupied, Probing, tableVars, historyVars
        <3> QED BY <2>5, <3>1, <3>2 DEF FindEmpty
    <2>6. CASE Find(t)
        <3>1. CASE FindHit(t)
            BY <2>1, <2>6, <3>1, LoadPreserves
        <3>2. CASE FindMiss(t)
            BY <2>1, <2>6, <3>2, ProbePreserves DEF Find, FindMiss, Probing
        <3> QED BY <2>6, <3>1, <3>2 DEF Find
    <2>7. CASE StoreKey(t) \/ StorePointer(t) \/ LoadPointer(t) \/ ClearKey(t)
        BY <2>1, <2>7, StoreKeyPreserves, StorePointerPreserves, LoadPreserves,
           ClearKeyPreserves
    <2> QED BY <2>2, <2>3, <2>4, <2>5, <2>6, <2>7 DEF Step
<1> QED BY <1>1, <1>2

\* TableInv holds in every state.
LEMMA TableInvariant == Spec => []TableInv
BY InitTable, NextTable, PTL DEF Spec

\* The table, the probes and the calls of the threads keep their types.
THEOREM TypeCorrect == Spec => []TypeOK
<1>1. TableInv => TypeOK
    BY DEF TableInv
<1> QED BY <1>1, TableInvariant, PTL

\* Two entries never hold the same key, for every table, however the threads
\* interleave: the first match of Find is the only one.
THEOREM KeysStayUnique == Spec => []KeysUnique
<1>1. TableInv => KeysUnique
    BY DEF TableInv
<1> QED BY <1>1, TableInvariant, PTL

-----------------------------------------------------------------------------
\* Where the probe of t would be if the table did not wrap around, and the
\* entries that are behind it.
Position(t) == GetHash(arg[t]) + entries[t]

Passed(t, i) ==
    \/ GetHash(arg[t]) <= i /\ i < Position(t)
    \/ i + max_pointers < Position(t)

Wrapped(p) == IF p < max_pointers THEN p ELSE p - max_pointers

ProbesInPlace == \A t \in Callers : pc[t] \in Probing => index[t] = Wrapped(Position(t))

\* Find has its key ahead of it.
KeyAhead ==
    \A t \in Callers :
        pc[t] = "find" => \E i \in Entries : key_pointer[i] = arg[t] /\ ~Passed(t, i)

\* FindEmpty has passed only entries that some Add has claimed.
PassedWereClaimed ==
    \A t \in Callers :
        pc[t] = "find_empty" => \A i \in Entries : Passed(t, i) => owner[i] # 0

\* An Add claims at most one entry.
OwnersDistinct ==
    /\ \A i, j \in Entries : owner[i] # 0 /\ owner[i] = owner[j] => i = j
    /\ \A i \in Entries : owner[i] <= adds
    /\ \A i \in Entries : key_pointer[i] # Empty => owner[i] # 0

UnclaimedAdds ==
    /\ \A t \in Callers : pc[t] = "find_empty" => /\ callId[t] \in 1 .. adds
                                                  /\ \A i \in Entries : owner[i] # callId[t]
    /\ \A s, t \in Callers :
        s # t /\ pc[s] = "find_empty" /\ pc[t] = "find_empty" => callId[s] # callId[t]

ProbeInv ==
    /\ NeverErr
    /\ ProbesInPlace
    /\ KeyAhead
    /\ PassedWereClaimed
    /\ OwnersDistinct
    /\ UnclaimedAdds

\* There are more entries than Adds, so some entry was never claimed.
LEMMA SomeNeverClaimed ==
    ASSUME TypeOK, OwnersDistinct
    PROVE  \E i \in Entries : owner[i] = 0
<1> SUFFICES ASSUME \A i \in Entries : owner[i] # 0
             PROVE  FALSE
    OBVIOUS
<1>1. owner \in [Entries -> 1 .. MaxAdds]
    BY SizeAssumption DEF TypeOK
<1>2. IsFiniteSet(Entries) /\ Cardinality(Entries) = max_pointers
    BY FS_Interval, SizeAssumption DEF Entries
<1>3. IsFiniteSet(1 .. MaxAdds) /\ Cardinality(1 .. MaxAdds) = MaxAdds
    BY FS_Interval, SizeAssumption
<1>4. Cardinality(1 .. MaxAdds) < Cardinality(Entries)
    BY <1>2, <1>3, SizeAssumption
<1>5. \E i, j \in Entries : i # j /\ owner[i] = owner[j]
    BY <1>1, <1>2, <1>3, <1>4, FS_PigeonHole
<1> QED BY <1>5 DEF OwnersDistinct

\* One more probe passes the entry at the index, and max_pointers probes pass
\* every entry.
LEMMA PassedByStep ==
    ASSUME TableInv, ProbesInPlace, NEW t \in Callers, pc[t] \in Probing,
           ProbeNext(t, pc[t]), UNCHANGED arg
    PROVE  /\ \A i \in Entries : Passed(t, i)' <=> Passed(t, i) \/ i = index[t]
           /\ entries[t] + 1 = max_pointers
                => \A i \in Entries : Passed(t, i) \/ i = index[t]
           /\ pc'[t] \in Probing => index'[t] = Wrapped(Position(t)')
<1>1. entries[t] \in Nat /\ entries[t] < max_pointers
    BY SizeAssumption DEF TableInv, TypeOK, CallsKnown
<1>2. GetHash(arg[t]) \in 0 .. max_pointers - 1
    BY HashInRange, KeysAssumption
    DEF Entries, TableInv, CallsKnown, Busy, Probing, Adding, Removing
<1>3. index[t] = Wrapped(GetHash(arg[t]) + entries[t])
    BY DEF ProbesInPlace, Position
<1>4. entries'[t] = entries[t] + 1 /\ index'[t] = Following(index[t])
    BY DEF ProbeNext, TableInv, TypeOK
<1>5. pc'[t] \in Probing => entries[t] + 1 < max_pointers
    <2>1. pc'[t] = IF entries[t] + 1 = max_pointers THEN "err" ELSE pc[t]
        BY DEF ProbeNext, Goto, TableInv, TypeOK
    <2>2. "err" \notin Probing
        BY DEF Probing
    <2> QED BY <1>1, <2>1, <2>2, SizeAssumption
<1> DEFINE h == GetHash(arg[t])
<1>6. Position(t)' = h + entries[t] + 1 /\ Position(t) = h + entries[t]
    BY <1>1, <1>2, <1>4 DEF Position, GetHash
<1>7. \A i \in Entries : Passed(t, i)' <=> (h <= i /\ i < Position(t)') \/ i + max_pointers < Position(t)'
    BY DEF Passed, GetHash
<1> HIDE DEF h
<1>8. h \in 0 .. max_pointers - 1 /\ index[t] = Wrapped(h + entries[t])
    BY <1>2, <1>3 DEF h
<1>9. \A i \in Entries : Passed(t, i) <=> (h <= i /\ i < h + entries[t]) \/ i + max_pointers < h + entries[t]
    BY DEF Passed, Position, h
<1>10. \A i \in Entries : Passed(t, i)' <=> Passed(t, i) \/ i = index[t]
    <2> SUFFICES ASSUME NEW i \in Entries
                 PROVE  Passed(t, i)' <=> Passed(t, i) \/ i = index[t]
        OBVIOUS
    <2>1. Passed(t, i)' <=> (h <= i /\ i < h + entries[t] + 1) \/ i + max_pointers < h + entries[t] + 1
        BY <1>6, <1>7
    <2>2. Passed(t, i) <=> (h <= i /\ i < h + entries[t]) \/ i + max_pointers < h + entries[t]
        BY <1>9
    <2>3. i \in 0 .. max_pointers - 1
        BY DEF Entries
    <2>4. CASE h + entries[t] < max_pointers
        <3>1. index[t] = h + entries[t]
            BY <1>1, <1>8, <2>4, SizeAssumption DEF Wrapped
        <3> QED BY <1>1, <1>8, <2>1, <2>2, <2>3, <2>4, <3>1, SizeAssumption
    <2>5. CASE ~(h + entries[t] < max_pointers)
        <3>1. index[t] = h + entries[t] - max_pointers
            BY <1>1, <1>8, <2>5, SizeAssumption DEF Wrapped
        <3> QED BY <1>1, <1>8, <2>1, <2>2, <2>3, <2>5, <3>1, SizeAssumption
    <2> QED BY <2>4, <2>5
<1>11. entries[t] + 1 = max_pointers => \A i \in Entries : Passed(t, i) \/ i = index[t]
    BY <1>1, <1>8, <1>9, SizeAssumption DEF Entries, Wrapped
<1>12. pc'[t] \in Probing => index'[t] = Wrapped(Position(t)')
    BY <1>1, <1>4, <1>5, <1>6, <1>8, SizeAssumption DEF Wrapped, Following
<1> QED BY <1>10, <1>11, <1>12

\* Idle callers and unclaimed entries.
LEMMA InitProbe == Init => ProbeInv
<1> SUFFICES ASSUME Init PROVE ProbeInv
    OBVIOUS
<1>1. \A t \in Callers : pc[t] = "idle"
    BY DEF Init
<1>2. NeverErr /\ ProbesInPlace /\ KeyAhead /\ PassedWereClaimed /\ UnclaimedAdds
    BY <1>1 DEF NeverErr, Failed, ProbesInPlace, KeyAhead, PassedWereClaimed,
                UnclaimedAdds, Probing
<1>3. OwnersDistinct
    BY DEF Init, OwnersDistinct
<1> QED BY <1>2, <1>3 DEF ProbeInv

\* Add and Remove start at the hash of their key with nothing passed.
LEMMA StartKeepsProbes ==
    ASSUME TableInv, ProbeInv, NEW t \in Callers, NEW k \in Keys, ~InUse(k),
           \/ k \notin added /\ \E m \in Memory : Add(t, k, m)
           \/ k \in added /\ Remove(t, k)
    PROVE  ProbeInv'
<1> DEFINE label == IF k \in added THEN "find" ELSE "find_empty"
<1>1. /\ pc' = [pc EXCEPT ![t] = label]
      /\ arg' = [arg EXCEPT ![t] = k]
      /\ index' = [index EXCEPT ![t] = GetHash(k)]
      /\ entries' = [entries EXCEPT ![t] = 0]
      /\ UNCHANGED <<key_pointer, owner>>
    BY DEF Add, Remove, StartProbe, Goto, tableVars
<1>2. \/ k \in added /\ UNCHANGED <<adds, callId>>
      \/ k \notin added /\ adds' = adds + 1 /\ callId' = [callId EXCEPT ![t] = adds + 1]
    BY DEF Add, Remove
<1>3. \A s \in Callers \ {t} :
        pc'[s] = pc[s] /\ arg'[s] = arg[s] /\ index'[s] = index[s] /\ entries'[s] = entries[s]
    BY <1>1 DEF TableInv, TypeOK
<1>4. pc'[t] = label /\ arg'[t] = k /\ entries'[t] = 0 /\ index'[t] = GetHash(k)
    BY <1>1 DEF TableInv, TypeOK
<1>5. \A s \in Callers \ {t} :
        Position(s)' = Position(s) /\ \A i \in Entries : Passed(s, i)' <=> Passed(s, i)
    BY <1>3 DEF Position, Passed, GetHash
<1>6. GetHash(k) \in 0 .. max_pointers - 1
    BY HashInRange, KeysAssumption DEF Entries
<1>7. Position(t)' = GetHash(k) /\ \A i \in Entries : ~Passed(t, i)'
    <2>1. Position(t)' = GetHash(k)
        BY <1>4, <1>6 DEF Position, GetHash
    <2>2. \A i \in Entries : Passed(t, i)' <=>
            (GetHash(k) <= i /\ i < GetHash(k)) \/ i + max_pointers < GetHash(k)
        BY <1>4, <2>1 DEF Passed, GetHash
    <2> QED BY <1>6, <2>1, <2>2, SizeAssumption DEF Entries
<1>8. NeverErr'
    BY <1>3, <1>4 DEF ProbeInv, NeverErr, Failed
<1>9. ProbesInPlace'
    <2>1. \A s \in Callers \ {t} : pc'[s] \in Probing => index'[s] = Wrapped(Position(s)')
        BY <1>3, <1>5 DEF ProbeInv, ProbesInPlace
    <2>2. Wrapped(GetHash(k)) = GetHash(k)
        BY <1>6, SizeAssumption DEF Wrapped
    <2>3. index'[t] = Wrapped(Position(t)')
        BY <1>4, <1>7, <2>2
    <2>4. \A s \in Callers : pc'[s] \in Probing => index'[s] = Wrapped(Position(s)')
        BY <2>1, <2>3
    <2> QED BY <2>4 DEF ProbesInPlace, Wrapped
<1>10. KeyAhead'
    <2>1. k \in added => \E i \in Entries : key_pointer[i] = k
        BY DEF TableInv, ProbeInv, NeverErr, AddedIsTable, HasKey
    <2> QED BY <1>1, <1>3, <1>4, <1>5, <1>7, <2>1 DEF ProbeInv, KeyAhead
<1>11. PassedWereClaimed'
    BY <1>1, <1>3, <1>5, <1>7 DEF ProbeInv, PassedWereClaimed
<1>12. adds \in Nat /\ adds' \in Nat /\ adds <= adds' /\ \A i \in Entries : owner[i] \in Nat
    BY <1>2, SizeAssumption DEF TableInv, TypeOK
<1>13. OwnersDistinct'
    BY <1>1, <1>12 DEF ProbeInv, OwnersDistinct
<1>14. UnclaimedAdds'
    <2>1. \A s \in Callers \ {t} : callId'[s] = callId[s]
        BY <1>2 DEF TableInv, TypeOK
    <2>2. k \notin added => adds' = adds + 1 /\ callId'[t] = adds + 1
        BY <1>2 DEF TableInv, TypeOK
    <2>3. \A s \in Callers \ {t} : pc'[s] = "find_empty" =>
            /\ callId'[s] \in 1 .. adds /\ callId'[s] \in 1 .. adds'
            /\ \A i \in Entries : owner'[i] # callId'[s]
        <3> SUFFICES ASSUME NEW s \in Callers \ {t}, pc'[s] = "find_empty"
                     PROVE  /\ callId[s] \in 1 .. adds /\ callId[s] \in 1 .. adds'
                            /\ \A i \in Entries : owner[i] # callId[s]
            BY <1>1, <2>1
        <3>1. callId[s] \in 1 .. adds /\ \A i \in Entries : owner[i] # callId[s]
            BY <1>3 DEF ProbeInv, UnclaimedAdds
        <3> QED BY <1>12, <3>1
    <2>4. pc'[t] = "find_empty" =>
            /\ k \notin added
            /\ callId'[t] \in 1 .. adds'
            /\ \A i \in Entries : owner'[i] # callId'[t]
        <3> SUFFICES ASSUME pc'[t] = "find_empty"
                     PROVE  /\ k \notin added
                            /\ callId'[t] \in 1 .. adds'
                            /\ \A i \in Entries : owner[i] # callId'[t]
            BY <1>1
        <3>1. k \notin added
            BY <1>4
        <3>2. adds' = adds + 1 /\ callId'[t] = adds + 1
            BY <2>2, <3>1
        <3>3. \A i \in Entries : owner[i] <= adds
            BY DEF ProbeInv, OwnersDistinct
        <3>4. callId'[t] \in 1 .. adds'
            BY <1>12, <3>2
        <3>5. \A i \in Entries : owner[i] # adds + 1
            BY <1>12, <3>3
        <3> QED BY <3>1, <3>2, <3>4, <3>5
    <2>5. \A r, s \in Callers :
            r # s /\ pc'[r] = "find_empty" /\ pc'[s] = "find_empty" => callId'[r] # callId'[s]
        <3>1. ASSUME NEW r \in Callers \ {t}, NEW s \in Callers \ {t}, r # s,
                     pc'[r] = "find_empty", pc'[s] = "find_empty"
              PROVE  callId'[r] # callId'[s]
            <4>1. /\ pc[r] = "find_empty" /\ pc[s] = "find_empty"
                  /\ callId'[r] = callId[r] /\ callId'[s] = callId[s]
                BY <1>3, <2>1, <3>1
            <4>2. r \in Callers /\ s \in Callers /\ UnclaimedAdds
                BY DEF ProbeInv
            <4> QED BY <3>1, <4>1, <4>2 DEF UnclaimedAdds
        <3>2. ASSUME NEW s \in Callers \ {t}, pc'[t] = "find_empty", pc'[s] = "find_empty"
              PROVE  callId'[t] # callId'[s]
            <4>1. callId'[s] \in 1 .. adds
                BY <2>3, <3>2
            <4>2. callId'[t] = adds + 1
                BY <2>2, <2>4, <3>2
            <4> QED BY <1>12, <4>1, <4>2
        <3> QED BY <3>1, <3>2
    <2> QED BY <2>3, <2>4, <2>5 DEF UnclaimedAdds
<1> QED BY <1>8, <1>9, <1>10, <1>11, <1>13, <1>14 DEF ProbeInv

\* A search that goes on has passed one more entry, which another Add has
\* claimed or which does not hold the key, and so cannot come round.
LEMMA ProbeKeepsProbes ==
    ASSUME TableInv, ProbeInv, NEW t \in Callers,
           \/ pc[t] = "find" /\ FindMiss(t)
           \/ pc[t] = "find_empty" /\ FindEmptyOccupied(t),
           UNCHANGED <<tableVars, arg, mem, result, historyVars>>
    PROVE  ProbeInv'
<1> USE DEF tableVars, historyVars
<1>1. pc[t] \in Probing /\ ProbeNext(t, pc[t])
    BY DEF FindMiss, FindEmptyOccupied, Probing
<1>2. /\ \A i \in Entries : Passed(t, i)' <=> Passed(t, i) \/ i = index[t]
      /\ entries[t] + 1 = max_pointers => \A i \in Entries : Passed(t, i) \/ i = index[t]
      /\ pc'[t] \in Probing => index'[t] = Wrapped(Position(t)')
    BY <1>1, PassedByStep DEF ProbeInv
<1>3. \A s \in Callers \ {t} :
        pc'[s] = pc[s] /\ index'[s] = index[s] /\ entries'[s] = entries[s]
    BY <1>1 DEF ProbeNext, Goto, TableInv, TypeOK
<1>4. \A s \in Callers \ {t} :
        Position(s)' = Position(s) /\ \A i \in Entries : Passed(s, i)' <=> Passed(s, i)
    BY <1>3 DEF Position, Passed, GetHash
<1>5. entries[t] + 1 # max_pointers
    <2>1. CASE pc[t] = "find"
        BY <1>2, <2>1 DEF FindMiss, ProbeInv, KeyAhead
    <2>2. CASE pc[t] = "find_empty"
        <3>1. owner[index[t]] # 0
            BY <2>2 DEF FindEmptyOccupied, ProbeInv, OwnersDistinct, TableInv, TypeOK
        <3>2. PICK i \in Entries : owner[i] = 0
            BY SomeNeverClaimed DEF TableInv, ProbeInv
        <3> QED BY <1>2, <2>2, <3>1, <3>2 DEF ProbeInv, PassedWereClaimed
    <2> QED BY <2>1, <2>2
<1>6. pc'[t] = pc[t]
    BY <1>1, <1>5 DEF ProbeNext, Goto, TableInv, TypeOK
<1>7. \A s \in Callers : pc'[s] = pc[s]
    BY <1>3, <1>6
<1>8. NeverErr'
    BY <1>7 DEF ProbeInv, NeverErr, Failed
<1>9. ProbesInPlace'
    BY <1>1, <1>2, <1>3, <1>4, <1>6 DEF ProbeInv, ProbesInPlace
<1>10. KeyAhead'
    <2>1. pc[t] = "find" => key_pointer[index[t]] # arg[t]
        BY DEF FindMiss
    <2>2. pc[t] = "find" => \E i \in Entries : key_pointer[i] = arg[t] /\ ~Passed(t, i)'
        BY <1>2, <2>1 DEF ProbeInv, KeyAhead
    <2> QED BY <1>4, <1>7, <2>2 DEF ProbeInv, KeyAhead
<1>11. PassedWereClaimed'
    <2>1. pc[t] = "find_empty" => owner[index[t]] # 0
        BY DEF FindEmptyOccupied, ProbeInv, OwnersDistinct, TableInv, TypeOK
    <2> QED BY <1>2, <1>4, <1>7, <2>1 DEF ProbeInv, PassedWereClaimed
<1>12. OwnersDistinct' /\ UnclaimedAdds'
    BY <1>7 DEF ProbeInv, OwnersDistinct, UnclaimedAdds
<1> QED BY <1>8, <1>9, <1>10, <1>11, <1>12 DEF ProbeInv

\* A caller that holds an entry, or now takes one, changes no key that a Find
\* looks for.
LEMMA HolderKeepsProbes ==
    ASSUME TableInv, ProbeInv, NEW t \in Callers,
           UNCHANGED <<arg, index, entries, adds, callId>>,
           NEW label, pc' = [pc EXCEPT ![t] = label], label \notin Probing \cup {"err"},
           \A s \in Callers \ {t}, i \in Entries :
                pc[s] = "find" /\ key_pointer[i] = arg[s] => key_pointer'[i] = key_pointer[i],
           \A i \in Entries : owner[i] # 0 => owner'[i] # 0,
           OwnersDistinct',
           \A s \in Callers \ {t}, i \in Entries :
                pc[s] = "find_empty" => owner'[i] # callId[s]
    PROVE  ProbeInv'
<1>1. (\A s \in Callers \ {t} : pc'[s] = pc[s]) /\ pc'[t] = label
    BY DEF TableInv, TypeOK
<1>2. \A s \in Callers :
        Position(s)' = Position(s) /\ \A i \in Entries : Passed(s, i)' <=> Passed(s, i)
    BY DEF Position, Passed, GetHash
<1>3. NeverErr'
    BY <1>1 DEF ProbeInv, NeverErr, Failed
<1>4. ProbesInPlace'
    BY <1>1, <1>2 DEF ProbeInv, ProbesInPlace
<1>5. KeyAhead'
    <2> SUFFICES ASSUME NEW s \in Callers, pc'[s] = "find"
                 PROVE  \E i \in Entries : key_pointer'[i] = arg[s] /\ ~Passed(s, i)
        BY <1>2 DEF KeyAhead
    <2>1. s # t /\ pc[s] = "find"
        BY <1>1 DEF Probing
    <2>2. PICK i \in Entries : key_pointer[i] = arg[s] /\ ~Passed(s, i)
        BY <2>1 DEF ProbeInv, KeyAhead
    <2>3. key_pointer'[i] = key_pointer[i]
        BY <2>1, <2>2
    <2> QED BY <2>2, <2>3
<1>6. PassedWereClaimed'
    BY <1>1, <1>2 DEF ProbeInv, PassedWereClaimed, Probing
<1>7. UnclaimedAdds'
    <2>1. \A s \in Callers : pc'[s] = "find_empty" => s # t /\ pc[s] = "find_empty"
        BY <1>1 DEF Probing
    <2>2. \A s \in Callers : pc'[s] = "find_empty" =>
            callId[s] \in 1 .. adds /\ \A i \in Entries : owner'[i] # callId[s]
        BY <2>1 DEF ProbeInv, UnclaimedAdds
    <2>3. \A r, s \in Callers :
            r # s /\ pc'[r] = "find_empty" /\ pc'[s] = "find_empty" => callId[r] # callId[s]
        BY <2>1 DEF ProbeInv, UnclaimedAdds
    <2> QED BY <2>2, <2>3 DEF UnclaimedAdds
<1> QED BY <1>3, <1>4, <1>5, <1>6, <1>7 DEF ProbeInv

\* The claim of an entry by an Add that has claimed none.
LEMMA ClaimKeepsProbes ==
    ASSUME TableInv, ProbeInv, NEW t \in Callers, FindEmpty(t), FindEmptyClaimed(t)
    PROVE  ProbeInv'
<1> DEFINE i == index[t]
<1>1. /\ i \in Entries /\ key_pointer[i] = Empty /\ pc[t] = "find_empty"
      /\ key_pointer' = [key_pointer EXCEPT ![i] = Claimed]
      /\ owner' = [owner EXCEPT ![i] = callId[t]]
      /\ pc' = [pc EXCEPT ![t] = "store_key"]
      /\ UNCHANGED <<arg, index, entries, adds, callId>>
    BY DEF FindEmpty, FindEmptyClaimed, Goto, TableInv, TypeOK
<1> HIDE DEF i
<1>2. /\ \A j \in Entries \ {i} : key_pointer'[j] = key_pointer[j] /\ owner'[j] = owner[j]
      /\ key_pointer'[i] = Claimed /\ owner'[i] = callId[t]
    BY <1>1 DEF TableInv, TypeOK
<1>3. callId[t] \in 1 .. adds /\ \A j \in Entries : owner[j] # callId[t]
    BY <1>1 DEF ProbeInv, UnclaimedAdds
<1>4. callId[t] # 0 /\ callId[t] <= adds
    BY <1>3, SizeAssumption DEF TableInv, TypeOK
<1>5. OwnersDistinct'
    BY <1>1, <1>2, <1>3, <1>4 DEF ProbeInv, OwnersDistinct
<1>6. \A s \in Callers, j \in Entries :
        pc[s] = "find" /\ key_pointer[j] = arg[s] => key_pointer'[j] = key_pointer[j]
    BY <1>1, <1>2, MarksAreNoKeys DEF TableInv, CallsKnown, Busy, Removing
<1>7. \A s \in Callers \ {t}, j \in Entries : pc[s] = "find_empty" => owner'[j] # callId[s]
    <2> SUFFICES ASSUME NEW s \in Callers \ {t}, NEW j \in Entries, pc[s] = "find_empty"
                 PROVE  owner'[j] # callId[s]
        OBVIOUS
    <2>1. owner[j] # callId[s] /\ callId[t] # callId[s]
        BY <1>1 DEF ProbeInv, UnclaimedAdds
    <2> QED BY <1>2, <2>1
<1>8. \A j \in Entries : owner[j] # 0 => owner'[j] # 0
    BY <1>2, <1>4
<1>9. "store_key" \notin Probing \cup {"err"}
    BY DEF Probing
<1> QED BY <1>1, <1>5, <1>6, <1>7, <1>8, <1>9, HolderKeepsProbes

\* The steps of a caller that holds an entry.
LEMMA HeldKeepsProbes ==
    ASSUME TableInv, ProbeInv, NEW t \in Callers,
           \/ StoreKey(t)
           \/ StorePointer(t)
           \/ Find(t) /\ FindHit(t)
           \/ LoadPointer(t)
           \/ ClearKey(t)
    PROVE  ProbeInv'
<1>1. /\ UNCHANGED <<arg, index, entries, added, adds, callId, owner>>
      /\ \E label \in {"store_pointer", "idle", "load_pointer", "clear_key"} :
            pc' = [pc EXCEPT ![t] = label]
    BY DEF StoreKey, StorePointer, Find, FindHit, FindMiss, LoadPointer, ClearKey, Goto, historyVars
<1>2. \/ UNCHANGED key_pointer
      \/ /\ pc[t] = "store_key"
         /\ key_pointer' = [key_pointer EXCEPT ![index[t]] = arg[t]]
      \/ /\ pc[t] = "clear_key"
         /\ key_pointer' = [key_pointer EXCEPT ![index[t]] = Empty]
    BY DEF StoreKey, StorePointer, Find, LoadPointer, ClearKey, tableVars
<1>3. index[t] \in Entries
    BY DEF TableInv, TypeOK
<1>4. \A j \in Entries : key_pointer'[j] # key_pointer[j] =>
        j = index[t] /\ pc[t] \in {"store_key", "clear_key"}
    BY <1>2 DEF TableInv, TypeOK
<1>5. \A s \in Callers \ {t}, j \in Entries :
        pc[s] = "find" /\ key_pointer[j] = arg[s] => key_pointer'[j] = key_pointer[j]
    <2> SUFFICES ASSUME NEW s \in Callers \ {t}, NEW j \in Entries, pc[s] = "find",
                        key_pointer'[j] # key_pointer[j]
                 PROVE  key_pointer[j] # arg[s]
        OBVIOUS
    <2>1. key_pointer[j] # Claimed => key_pointer[j] = arg[t] /\ Busy(t)
        BY <1>4 DEF TableInv, SlotsHeld, Keyed, Busy, Removing
    <2>2. arg[s] \in Keys /\ Busy(s)
        BY DEF TableInv, CallsKnown, Busy, Removing
    <2> QED BY <2>1, <2>2, MarksAreNoKeys DEF TableInv, OneCaller
<1>6. \A j \in Entries : key_pointer'[j] # Empty => owner[j] # 0
    <2>1. \A j \in Entries : key_pointer'[j] # key_pointer[j] /\ key_pointer'[j] # Empty
                                => key_pointer[j] # Empty
        BY <1>2, <1>3, MarksAreNoKeys DEF TableInv, TypeOK, SlotsHeld
    <2> QED BY <2>1 DEF ProbeInv, OwnersDistinct
<1>7. OwnersDistinct'
    BY <1>1, <1>6 DEF ProbeInv, OwnersDistinct
<1>8. \A s \in Callers \ {t}, j \in Entries : pc[s] = "find_empty" => owner'[j] # callId[s]
    BY <1>1 DEF ProbeInv, UnclaimedAdds
<1>9. \A label \in {"store_pointer", "idle", "load_pointer", "clear_key"} :
        label \notin Probing \cup {"err"}
    BY DEF Probing
<1> QED BY <1>1, <1>5, <1>7, <1>8, <1>9, HolderKeepsProbes

\* Every step of the callers keeps ProbeInv.
LEMMA NextProbe == TableInv /\ ProbeInv /\ [Next]_pointersVars => ProbeInv'
<1> SUFFICES ASSUME TableInv, ProbeInv, [Next]_pointersVars
             PROVE  ProbeInv'
    OBVIOUS
<1>1. CASE UNCHANGED pointersVars
    BY <1>1 DEF pointersVars, tableVars, callVars, historyVars, ProbeInv, NeverErr, Failed,
                ProbesInPlace, KeyAhead, PassedWereClaimed, OwnersDistinct, UnclaimedAdds,
                Position, Passed, GetHash
<1>2. CASE Next
    <2>1. PICK t \in Callers :
            \/ \E k \in Keys : MayAdd(k) /\ \E m \in Memory : Add(t, k, m)
            \/ \E k \in Keys : MayRemove(k) /\ Remove(t, k)
            \/ Step(t)
        BY <1>2 DEF Next
    <2>2. CASE \E k \in Keys : MayAdd(k) /\ \E m \in Memory : Add(t, k, m)
        BY <2>2, StartKeepsProbes DEF MayAdd
    <2>3. CASE \E k \in Keys : MayRemove(k) /\ Remove(t, k)
        BY <2>3, StartKeepsProbes DEF MayRemove
    <2>4. CASE FindEmpty(t)
        <3>1. CASE FindEmptyClaimed(t)
            BY <2>4, <3>1, ClaimKeepsProbes
        <3>2. CASE FindEmptyOccupied(t)
            BY <2>4, <3>2, ProbeKeepsProbes
            DEF FindEmpty, FindEmptyOccupied, tableVars, historyVars
        <3> QED BY <2>4, <3>1, <3>2 DEF FindEmpty
    <2>5. CASE Find(t)
        <3>1. CASE FindHit(t)
            BY <2>5, <3>1, HeldKeepsProbes
        <3>2. CASE FindMiss(t)
            BY <2>5, <3>2, ProbeKeepsProbes DEF Find
        <3> QED BY <2>5, <3>1, <3>2 DEF Find
    <2>6. CASE StoreKey(t) \/ StorePointer(t) \/ LoadPointer(t) \/ ClearKey(t)
        BY <2>6, HeldKeepsProbes
    <2> QED BY <2>1, <2>2, <2>3, <2>4, <2>5, <2>6 DEF Step
<1> QED BY <1>1, <1>2

\* ProbeInv holds in every state.
LEMMA ProbeInvariant == Spec => []ProbeInv
BY InitProbe, NextProbe, TableInvariant, PTL DEF Spec

\* No Add and no Remove ends in err(1), for every number of threads and every
\* table with more entries than the replay has Adds.
THEOREM NoCallFails == Spec => []NeverErr
<1>1. ProbeInv => NeverErr
    BY DEF ProbeInv
<1> QED BY <1>1, ProbeInvariant, PTL

-----------------------------------------------------------------------------
(***************************************************************************)
(* The lock-free table implements the atomic map of PointerMap: the store  *)
(* of the pointer is the step of Add, the clearing of the key the step of  *)
(* Remove, and every other step leaves the map as it is.                   *)
(***************************************************************************)

Storing(i) == \E t \in Callers : pc[t] = "store_pointer" /\ index[t] = i

\* What the pointers are: an entry with a key has memory once its Add is over,
\* and a Remove that has read the pointer has read that of its entry.
BindingInv ==
    /\ \A t \in Callers : pc[t] \in Adding => mem[t] \in Memory
    /\ \A t \in Callers : pc[t] = "clear_key" => mem[t] = pointer[index[t]]
    /\ \A i \in Entries : key_pointer[i] \in Keys /\ ~Storing(i) => pointer[i] \in Memory

\* Nothing is bound and nothing is read at first.
LEMMA InitBinding == Init => BindingInv
<1> SUFFICES ASSUME Init PROVE BindingInv
    OBVIOUS
<1>1. \A t \in Callers : pc[t] = "idle"
    BY DEF Init
<1>2. \A i \in Entries : key_pointer[i] \notin Keys
    BY MarksAreNoKeys DEF Init
<1> QED BY <1>1, <1>2 DEF BindingInv, Adding

\* Every step of the callers keeps BindingInv.
LEMMA NextBinding == TableInv /\ BindingInv /\ [Next]_pointersVars => BindingInv'
<1> SUFFICES ASSUME TableInv, BindingInv, [Next]_pointersVars
             PROVE  BindingInv'
    OBVIOUS
<1> USE DEF TableInv, TypeOK
<1>1. CASE UNCHANGED pointersVars
    BY <1>1 DEF pointersVars, tableVars, callVars, BindingInv, Storing
<1>2. ASSUME NEW t \in Callers, NEW k \in Keys, NEW m \in Memory, Add(t, k, m)
      PROVE  BindingInv'
    <2>1. /\ pc[t] = "idle" /\ pc' = [pc EXCEPT ![t] = "find_empty"]
          /\ mem' = [mem EXCEPT ![t] = m]
          /\ index' = [index EXCEPT ![t] = GetHash(k)]
          /\ UNCHANGED <<key_pointer, pointer>>
        BY <1>2 DEF Add, StartProbe, Goto, tableVars
    <2>2. \A i \in Entries : Storing(i) => Storing(i)'
        BY <2>1 DEF Storing
    <2> QED BY <2>1, <2>2 DEF BindingInv, Adding
<1>3. ASSUME NEW t \in Callers, NEW k \in Keys, Remove(t, k)
      PROVE  BindingInv'
    <2>1. /\ pc[t] = "idle" /\ pc' = [pc EXCEPT ![t] = "find"]
          /\ index' = [index EXCEPT ![t] = GetHash(k)]
          /\ UNCHANGED <<key_pointer, pointer, mem>>
        BY <1>3 DEF Remove, StartProbe, Goto, tableVars
    <2>2. \A i \in Entries : Storing(i) => Storing(i)'
        BY <2>1 DEF Storing
    <2> QED BY <2>1, <2>2 DEF BindingInv, Adding
<1>4. ASSUME NEW t \in Callers, FindEmpty(t)
      PROVE  BindingInv'
    <2>1. /\ pc[t] = "find_empty" /\ UNCHANGED <<pointer, mem>>
          /\ \E label \in {"find_empty", "store_key", "err"} : pc' = [pc EXCEPT ![t] = label]
          /\ \A s \in Callers \ {t} : index'[s] = index[s]
          /\ \A i \in Entries : key_pointer'[i] \in Keys => key_pointer'[i] = key_pointer[i]
        BY <1>4, MarksAreNoKeys
        DEF FindEmpty, FindEmptyClaimed, FindEmptyOccupied, ProbeNext, Goto
    <2>2. \A i \in Entries : Storing(i) => Storing(i)'
        BY <2>1 DEF Storing
    <2> QED BY <2>1, <2>2 DEF BindingInv, Adding
<1>5. ASSUME NEW t \in Callers, Find(t)
      PROVE  BindingInv'
    <2>1. /\ pc[t] = "find" /\ UNCHANGED <<key_pointer, pointer, mem>>
          /\ \E label \in {"find", "load_pointer", "err"} : pc' = [pc EXCEPT ![t] = label]
          /\ \A s \in Callers \ {t} : index'[s] = index[s]
        BY <1>5 DEF Find, FindHit, FindMiss, ProbeNext, Goto, tableVars
    <2>2. \A i \in Entries : Storing(i) => Storing(i)'
        BY <2>1 DEF Storing
    <2> QED BY <2>1, <2>2 DEF BindingInv, Adding
<1>6. ASSUME NEW t \in Callers, StoreKey(t)
      PROVE  BindingInv'
    <2>1. /\ pc[t] = "store_key" /\ pc' = [pc EXCEPT ![t] = "store_pointer"]
          /\ key_pointer' = [key_pointer EXCEPT ![index[t]] = arg[t]]
          /\ UNCHANGED <<pointer, mem, index>>
        BY <1>6 DEF StoreKey, Goto
    <2>2. Storing(index[t])' /\ \A i \in Entries : Storing(i) => Storing(i)'
        BY <2>1 DEF Storing
    <2>3. \A i \in Entries \ {index[t]} : key_pointer'[i] = key_pointer[i]
        BY <2>1
    <2> QED BY <2>1, <2>2, <2>3 DEF BindingInv, Adding
<1>7. ASSUME NEW t \in Callers, StorePointer(t)
      PROVE  BindingInv'
    <2>1. /\ pc[t] = "store_pointer" /\ pc' = [pc EXCEPT ![t] = "idle"]
          /\ pointer' = [pointer EXCEPT ![index[t]] = mem[t]]
          /\ UNCHANGED <<key_pointer, mem, index>>
        BY <1>7 DEF StorePointer, Goto
    <2>2. \A i \in Entries \ {index[t]} : (Storing(i)' <=> Storing(i)) /\ pointer'[i] = pointer[i]
        BY <2>1 DEF Storing
    <2>3. mem[t] \in Memory
        BY <2>1 DEF BindingInv, Adding
    <2>4. \A s \in Callers \ {t} : pc[s] = "clear_key" => index[s] # index[t]
        BY <2>1 DEF OneHolder, Holding
    <2> QED BY <2>1, <2>2, <2>3, <2>4 DEF BindingInv, Adding
<1>8. ASSUME NEW t \in Callers, LoadPointer(t)
      PROVE  BindingInv'
    <2>1. /\ pc[t] = "load_pointer" /\ pc' = [pc EXCEPT ![t] = "clear_key"]
          /\ mem' = [mem EXCEPT ![t] = pointer[index[t]]]
          /\ UNCHANGED <<key_pointer, pointer, index>>
        BY <1>8 DEF LoadPointer, Goto, tableVars
    <2>2. \A i \in Entries : Storing(i) => Storing(i)'
        BY <2>1 DEF Storing
    <2> QED BY <2>1, <2>2 DEF BindingInv, Adding
<1>9. ASSUME NEW t \in Callers, ClearKey(t)
      PROVE  BindingInv'
    <2>1. /\ pc[t] = "clear_key" /\ pc' = [pc EXCEPT ![t] = "idle"]
          /\ key_pointer' = [key_pointer EXCEPT ![index[t]] = Empty]
          /\ UNCHANGED <<pointer, mem, index>>
        BY <1>9 DEF ClearKey, Goto
    <2>2. \A i \in Entries : Storing(i) => Storing(i)'
        BY <2>1 DEF Storing
    <2>3. \A i \in Entries : key_pointer'[i] \in Keys => key_pointer'[i] = key_pointer[i]
        BY <2>1, MarksAreNoKeys
    <2> QED BY <2>1, <2>2, <2>3 DEF BindingInv, Adding
<1> QED BY <1>1, <1>2, <1>3, <1>4, <1>5, <1>6, <1>7, <1>8, <1>9 DEF Next, Step

\* BindingInv holds in every state.
LEMMA BindingInvariant == Spec => []BindingInv
BY InitBinding, NextBinding, TableInvariant, PTL DEF Spec

-----------------------------------------------------------------------------
\* The map at a key that is bound, and at one that is not.
LEMMA MapAt ==
    TableInv => \A k \in Keys, i \in Entries : Bound(k, i) => map[k] = pointer[i]
<1> SUFFICES ASSUME TableInv, NEW k \in Keys, NEW i \in Entries, Bound(k, i)
             PROVE  map[k] = pointer[i]
    OBVIOUS
<1>1. \A j \in Entries : Bound(k, j) => j = i
    BY DEF Bound, TableInv, KeysUnique
<1>2. (CHOOSE j \in Entries : Bound(k, j)) = i
    BY <1>1
<1> QED BY <1>2 DEF map

\* A key that no entry is bound to has no binding in the map (Pointers::Find
\* returns nullptr for it).
LEMMA MapNone ==
    \A k \in Keys : (\A i \in Entries : ~Bound(k, i)) => map[k] = NoMem
BY DEF map

\* The same in the next state.
LEMMA MapNext ==
    TableInv' => \A k \in Keys :
        /\ \A i \in Entries : Bound(k, i)' => map'[k] = pointer'[i]
        /\ (\A i \in Entries : ~Bound(k, i)') => map'[k] = NoMem
<1>1. (TableInv => \A k \in Keys, i \in Entries : Bound(k, i) => map[k] = pointer[i])'
    BY MapAt, PTL
<1>2. (\A k \in Keys : (\A i \in Entries : ~Bound(k, i)) => map[k] = NoMem)'
    BY MapNone, PTL
<1> QED BY <1>1, <1>2

\* The pointer that Remove has read is the one bound to its key, and it is
\* memory that an Add installed.
THEOREM RemoveReadsTheBinding == Spec => []RemoveReadsBinding
<1>1. TableInv /\ BindingInv => RemoveReadsBinding
    <2> SUFFICES ASSUME TableInv, BindingInv, NEW t \in Callers, pc[t] = "clear_key"
                 PROVE  mem[t] = map[arg[t]] /\ mem[t] # NoMem
        BY DEF RemoveReadsBinding
    <2>1. index[t] \in Entries /\ arg[t] \in Keys /\ key_pointer[index[t]] = arg[t]
        BY DEF TableInv, TypeOK, CallsKnown, SlotsHeld, Busy, Removing, Keyed
    <2>2. ~Storing(index[t])
        BY DEF Storing, TableInv, OneHolder, Holding
    <2>3. Bound(arg[t], index[t])
        BY <2>1, <2>2 DEF Bound, Storing
    <2>4. mem[t] = pointer[index[t]] /\ pointer[index[t]] \in Memory
        BY <2>1, <2>2 DEF BindingInv
    <2> QED BY <2>1, <2>3, <2>4, MapAt, MemoryAssumption
<1> QED BY <1>1, TableInvariant, BindingInvariant, PTL

\* A step that moves no binding leaves the map as it is.
LEMMA MapUnchanged ==
    ASSUME TableInv, TableInv', UNCHANGED pointer,
           \A k \in Keys, i \in Entries : Bound(k, i)' <=> Bound(k, i)
    PROVE  map' = map
<1>1. \A k \in Keys : map'[k] = map[k]
    BY MapAt, MapNone, MapNext
<1>2. map = [k \in Keys |-> map[k]] /\ map' = [k \in Keys |-> map'[k]]
    BY DEF map
<1> QED BY <1>1, <1>2

\* The end of Add installs the binding.
LEMMA StorePointerIsAdd ==
    ASSUME TableInv, TableInv', BindingInv, NEW t \in Callers, StorePointer(t)
    PROVE  Abstract!Add(arg[t], mem[t]) /\ arg[t] \in Keys /\ mem[t] \in Memory
<1>. pc[t] = "store_pointer"
    BY DEF StorePointer
<1>. PICK k \in Keys, i \in Entries : k = arg[t] /\ i = index[t]
    BY DEF TableInv, TypeOK, CallsKnown, Busy, Adding
<1>1. /\ pc[t] = "store_pointer" /\ pc' = [pc EXCEPT ![t] = "idle"]
      /\ pointer' = [pointer EXCEPT ![i] = mem[t]]
      /\ UNCHANGED <<key_pointer, index, arg, result>>
    BY DEF StorePointer, Goto
<1>2. k \in Keys /\ i \in Entries /\ key_pointer[i] = k /\ mem[t] \in Memory
    BY <1>1 DEF TableInv, TypeOK, CallsKnown, SlotsHeld, BindingInv, Busy, Adding, Keyed
<1>3. index[t] = i
    OBVIOUS
<1>4. \A s \in Callers \ {t} : pc'[s] = pc[s] /\ (pc[s] = "store_pointer" => index[s] # i)
    BY <1>1, <1>3 DEF TableInv, TypeOK, OneHolder, Holding
<1>5. pc'[t] = "idle" /\ pointer'[i] = mem[t] /\ \A j \in Entries \ {i} : pointer'[j] = pointer[j]
    BY <1>1, <1>2 DEF TableInv, TypeOK
<1>6. \A j \in Entries : key_pointer[j] = k => j = i
    BY <1>2 DEF TableInv, KeysUnique
<1>7. \A j \in Entries : ~Bound(k, j)
    BY <1>1, <1>3, <1>6 DEF Bound
<1>8. Bound(k, i)'
    BY <1>1, <1>2, <1>4, <1>5 DEF Bound
<1>9. \A l \in Keys \ {k}, j \in Entries : (Bound(l, j)' <=> Bound(l, j)) /\ (Bound(l, j) => j # i)
    BY <1>1, <1>2, <1>3, <1>4, <1>5 DEF Bound
<1>10. map[k] = NoMem /\ map'[k] = mem[t]
    BY <1>2, <1>5, <1>7, <1>8, MapNone, MapNext
<1>11. \A l \in Keys \ {k} : map'[l] = map[l]
    <2> SUFFICES ASSUME NEW l \in Keys \ {k} PROVE map'[l] = map[l]
        OBVIOUS
    <2>1. \A j \in Entries : Bound(l, j)' <=> Bound(l, j)
        BY Zenon, <1>9
    <2>2. CASE \E j \in Entries : Bound(l, j)
        <3>1. PICK j \in Entries : Bound(l, j)
            BY <2>2
        <3>2. map[l] = pointer[j] /\ map'[l] = pointer'[j]
            BY Zenon, <2>1, <3>1, MapAt, MapNext
        <3>3. pointer'[j] = pointer[j]
            BY <1>5, <1>9, <3>1
        <3> QED BY <3>2, <3>3
    <2>3. CASE \A j \in Entries : ~Bound(l, j)
        BY Zenon, <2>1, <2>3, MapNone, MapNext
    <2> QED BY Zenon, <2>2, <2>3
<1>12. map = [l \in Keys |-> map[l]] /\ map' = [l \in Keys |-> map'[l]]
    BY DEF map
<1>13. map' = [map EXCEPT ![k] = mem[t]]
    <2> HIDE DEF map
    <2> QED BY <1>10, <1>11, <1>12
<1> QED BY <1>1, <1>2, <1>10, <1>13 DEF Abstract!Add

\* The end of Remove deletes the binding and returns what was bound.
LEMMA ClearKeyIsRemove ==
    ASSUME TableInv, TableInv', BindingInv, NEW t \in Callers, ClearKey(t)
    PROVE  Abstract!Remove(t, arg[t]) /\ arg[t] \in Keys
<1>. pc[t] = "clear_key"
    BY DEF ClearKey
<1>. PICK k \in Keys, i \in Entries : k = arg[t] /\ i = index[t]
    BY DEF TableInv, TypeOK, CallsKnown, Busy, Removing
<1>1. /\ pc[t] = "clear_key" /\ pc' = [pc EXCEPT ![t] = "idle"]
      /\ key_pointer' = [key_pointer EXCEPT ![i] = Empty]
      /\ result' = [result EXCEPT ![t] = mem[t]]
      /\ UNCHANGED <<pointer, index, arg>>
    BY DEF ClearKey, Goto
<1>2. k \in Keys /\ i \in Entries /\ key_pointer[i] = k /\ mem[t] = pointer[i]
    BY <1>1 DEF TableInv, TypeOK, CallsKnown, SlotsHeld, BindingInv, Busy, Removing, Keyed
<1>3. \A s \in Callers : pc[s] = "store_pointer" => index[s] # i
    BY <1>1 DEF TableInv, OneHolder, Holding
<1>4. pointer[i] \in Memory
    BY <1>2, <1>3 DEF BindingInv, Storing
<1>5. \A s \in Callers : pc'[s] = "store_pointer" <=> pc[s] = "store_pointer"
    BY <1>1 DEF TableInv, TypeOK
<1>6. key_pointer'[i] = Empty /\ \A j \in Entries \ {i} : key_pointer'[j] = key_pointer[j]
    BY <1>1, <1>2 DEF TableInv, TypeOK
<1>7. Bound(k, i)
    BY <1>2, <1>3 DEF Bound
<1>8. \A j \in Entries : ~Bound(k, j)'
    BY <1>2, <1>6, MarksAreNoKeys DEF Bound, TableInv, KeysUnique
<1>9. \A l \in Keys \ {k}, j \in Entries : Bound(l, j)' <=> Bound(l, j)
    <2> SUFFICES ASSUME NEW l \in Keys \ {k}, NEW j \in Entries
                 PROVE  Bound(l, j)' <=> Bound(l, j)
        OBVIOUS
    <2>1. key_pointer'[j] = l <=> key_pointer[j] = l
        BY <1>2, <1>6, MarksAreNoKeys
    <2>2. \A s \in Callers :
            (pc'[s] = "store_pointer" /\ index'[s] = j) <=> (pc[s] = "store_pointer" /\ index[s] = j)
        BY <1>1, <1>5
    <2> QED BY <2>1, <2>2 DEF Bound
<1>10. map[k] = mem[t] /\ map[k] # NoMem /\ map'[k] = NoMem
    BY <1>2, <1>4, <1>7, <1>8, MapAt, MapNext, MemoryAssumption
<1>11. \A l \in Keys \ {k} : map'[l] = map[l]
    <2> SUFFICES ASSUME NEW l \in Keys \ {k} PROVE map'[l] = map[l]
        OBVIOUS
    <2>1. \A j \in Entries : Bound(l, j)' <=> Bound(l, j)
        BY Zenon, <1>9
    <2>2. CASE \E j \in Entries : Bound(l, j)
        <3>1. PICK j \in Entries : Bound(l, j)
            BY <2>2
        <3>2. map[l] = pointer[j] /\ map'[l] = pointer'[j]
            BY Zenon, <2>1, <3>1, MapAt, MapNext
        <3>3. pointer'[j] = pointer[j]
            BY <1>1
        <3> QED BY <3>2, <3>3
    <2>3. CASE \A j \in Entries : ~Bound(l, j)
        BY Zenon, <2>1, <2>3, MapNone, MapNext
    <2> QED BY Zenon, <2>2, <2>3
<1>12. map = [l \in Keys |-> map[l]] /\ map' = [l \in Keys |-> map'[l]]
    BY DEF map
<1>13. map' = [map EXCEPT ![k] = NoMem]
    <2> HIDE DEF map
    <2> QED BY <1>10, <1>11, <1>12
<1> QED BY <1>1, <1>2, <1>10, <1>13 DEF Abstract!Remove

\* Every other step of the callers leaves the map and the results as they are.
LEMMA OthersStutter ==
    ASSUME TableInv, TableInv', NEW t \in Callers,
           \/ \E k \in Keys, m \in Memory : Add(t, k, m)
           \/ \E k \in Keys : Remove(t, k)
           \/ FindEmpty(t) \/ StoreKey(t) \/ Find(t) \/ LoadPointer(t)
    PROVE  UNCHANGED <<map, result>>
<1>1. UNCHANGED <<pointer, result>>
    BY DEF Add, Remove, FindEmpty, StoreKey, Find, LoadPointer, tableVars
<1>2. \A s \in Callers \ {t} : pc'[s] = pc[s] /\ index'[s] = index[s]
    <2>1. /\ \E label : pc' = [pc EXCEPT ![t] = label]
          /\ index' = index \/ \E i : index' = [index EXCEPT ![t] = i]
        <3>1. CASE \/ \E k \in Keys, m \in Memory : Add(t, k, m)
                   \/ \E k \in Keys : Remove(t, k)
            BY <3>1 DEF Add, Remove, StartProbe, Goto
        <3>2. CASE FindEmpty(t)
            BY <3>2 DEF FindEmpty, FindEmptyClaimed, FindEmptyOccupied, ProbeNext, Goto
        <3>3. CASE Find(t)
            BY <3>3 DEF Find, FindHit, FindMiss, ProbeNext, Goto
        <3>4. CASE StoreKey(t) \/ LoadPointer(t)
            BY <3>4 DEF StoreKey, LoadPointer, Goto
        <3> QED BY <3>1, <3>2, <3>3, <3>4
    <2> QED BY <2>1 DEF TableInv, TypeOK
<1>3. CASE StoreKey(t)
    <2>1. /\ pc[t] = "store_key" /\ pc'[t] = "store_pointer" /\ index' = index
          /\ index[t] \in Entries /\ key_pointer[index[t]] = Claimed
          /\ key_pointer' = [key_pointer EXCEPT ![index[t]] = arg[t]]
        BY <1>3 DEF StoreKey, Goto, TableInv, TypeOK, SlotsHeld
    <2>2. \A k \in Keys, i \in Entries : Bound(k, i)' <=> Bound(k, i)
        <3> SUFFICES ASSUME NEW k \in Keys, NEW i \in Entries
                     PROVE  Bound(k, i)' <=> Bound(k, i)
            OBVIOUS
        <3>1. CASE i = index[t]
            <4>1. ~Bound(k, i)
                BY <2>1, <3>1, MarksAreNoKeys DEF Bound
            <4>2. ~Bound(k, i)'
                BY <2>1, <3>1 DEF Bound
            <4> QED BY <4>1, <4>2
        <3>2. CASE i # index[t]
            <4>1. key_pointer'[i] = key_pointer[i]
                BY <2>1, <3>2 DEF TableInv, TypeOK
            <4>2. \A s \in Callers :
                    (pc'[s] = "store_pointer" /\ index'[s] = i) <=> (pc[s] = "store_pointer" /\ index[s] = i)
                BY <1>2, <2>1, <3>2
            <4> QED BY <4>1, <4>2 DEF Bound
        <3> QED BY <3>1, <3>2
    <2> QED BY <1>1, <2>2, MapUnchanged
<1>4. CASE ~StoreKey(t)
    <2>1. pc[t] # "store_pointer" /\ pc'[t] # "store_pointer"
        BY <1>4 DEF Add, Remove, FindEmpty, FindEmptyClaimed, FindEmptyOccupied, Find,
           FindHit, FindMiss, LoadPointer, StartProbe, ProbeNext, Goto, TableInv, TypeOK
    <2>2. \A i \in Entries :
            \/ key_pointer'[i] = key_pointer[i]
            \/ key_pointer'[i] \notin Keys /\ key_pointer[i] \notin Keys
        BY <1>4, MarksAreNoKeys
        DEF Add, Remove, FindEmpty, FindEmptyClaimed, FindEmptyOccupied, Find,
            LoadPointer, tableVars, TableInv, TypeOK
    <2>3. \A k \in Keys, i \in Entries : Bound(k, i)' <=> Bound(k, i)
        BY <1>2, <2>1, <2>2 DEF Bound
    <2> QED BY <1>1, <2>3, MapUnchanged
<1> QED BY <1>3, <1>4

\* Pointers.cpp implements the atomic map, for every number of threads, keys and
\* entries.
THEOREM TableImplementsMap == Spec => ImplementsMap
<1>1. Init => Abstract!Init
    <2> SUFFICES ASSUME Init PROVE Abstract!Init
        OBVIOUS
    <2>1. \A k \in Keys, i \in Entries : ~Bound(k, i)
        BY MarksAreNoKeys DEF Init, Bound
    <2>2. map = [k \in Keys |-> NoMem]
        BY <2>1 DEF map
    <2> QED BY <2>2 DEF Init, Abstract!Init
<1>2. TableInv /\ TableInv' /\ BindingInv /\ [Next]_pointersVars => [Abstract!Next]_<<map, result>>
    <2> SUFFICES ASSUME TableInv, TableInv', BindingInv, [Next]_pointersVars
                 PROVE  [Abstract!Next]_<<map, result>>
        OBVIOUS
    <2>1. CASE UNCHANGED pointersVars
        <3>1. UNCHANGED pointer /\ \A k \in Keys, i \in Entries : Bound(k, i)' <=> Bound(k, i)
            BY <2>1 DEF pointersVars, tableVars, callVars, Bound
        <3> QED BY <2>1, <3>1, MapUnchanged DEF pointersVars
    <2>2. ASSUME NEW t \in Callers, StorePointer(t)
          PROVE  Abstract!Next
        BY <2>2, StorePointerIsAdd DEF Abstract!Next
    <2>3. ASSUME NEW t \in Callers, ClearKey(t)
          PROVE  Abstract!Next
        BY <2>3, ClearKeyIsRemove DEF Abstract!Next
    <2> QED BY <2>1, <2>2, <2>3, OthersStutter DEF Next, Step
<1> QED
    BY <1>1, <1>2, TableInvariant, BindingInvariant, PTL
    DEF Spec, ImplementsMap, Abstract!Spec, Abstract!vars
==============================================================================
