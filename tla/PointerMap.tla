------------------------------ MODULE PointerMap ------------------------------
(***************************************************************************)
(* What memory_replay's pointer table promises: a map from the key of a    *)
(* traced allocation to the memory that replays it.  Add installs a        *)
(* binding in one step, Remove deletes it and returns what was bound.      *)
(***************************************************************************)
CONSTANTS Callers, Keys, Memory, NoMem

VARIABLES
    map,     \* the binding of every key, NoMem when there is none
    result   \* what the last Remove of every caller returned

vars == <<map, result>>

Init ==
    /\ map = [k \in Keys |-> NoMem]
    /\ result = [t \in Callers |-> NoMem]

Add(k, m) ==
    /\ map[k] = NoMem
    /\ map' = [map EXCEPT ![k] = m]
    /\ UNCHANGED result

Remove(t, k) ==
    /\ map[k] # NoMem
    /\ result' = [result EXCEPT ![t] = map[k]]
    /\ map' = [map EXCEPT ![k] = NoMem]

Next ==
    \E k \in Keys :
        \/ \E m \in Memory : Add(k, m)
        \/ \E t \in Callers : Remove(t, k)

Spec == Init /\ [][Next]_vars
=============================================================================
