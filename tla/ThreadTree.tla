----------------------------- MODULE ThreadTree -----------------------------
(***************************************************************************)
(* ThreadTree of simpleperf, which rebuilds from the records of a file     *)
(* which threads there were and what was mapped where, and the maps that   *)
(* OfflineUnwinder caches for each process.  Each step is an event of the  *)
(* system and the record it leaves, read in the order of time; the ghosts  *)
(* proc, space and name hold the system as it is.                          *)
(***************************************************************************)
EXTENDS Integers, Sequences, FiniteSets, TLC

CONSTANTS
    Tids,        \* ids of threads, positive
    Pages,       \* addresses, an interval of the naturals; the kernel has its own
    Maps,        \* [file -> [len, pgoff]]: how each file is mapped
    Names,       \* thread names
    MaxRecords,
    ReusePids    \* whether the pid of a process that is gone is given again

VARIABLES
    tree,     \* thread_tree_ and map_set_storage_: [thread, sets]
    kernel,   \* kernel_maps_
    cached,   \* cached_maps_ of the unwinder: [pid -> [version, maps]]
    records,  \* records read so far; the time of a record
    proc,     \* [tid -> pid], 0 for no thread
    gone,     \* pids of processes that ended
    space,    \* [pid -> [page -> <<>> or <<file, page of the file>>]]; 0 is the kernel
    name,     \* [tid -> its name]
    outdated  \* ghost: the last stack was unwound with other maps than its thread had

vars == <<tree, kernel, cached, records, proc, gone, space, name, outdated>>

Unmapped == [p \in Pages |-> <<>>]
NoMaps == [maps |-> {}, version |-> 0]
Alive == {t \in Tids : proc[t] # 0}
----------------------------------------------------------------------------
(* Threads. *)

NewProcess(tr, pid) ==
    [thread |-> tr.thread @@ (pid :> [pid |-> pid, comm |-> "unknown", maps |-> Len(tr.sets) + 1]),
     sets |-> Append(tr.sets, NoMaps)]

FindProcessOrNew(tr, pid) == IF pid \in DOMAIN tr.thread THEN tr ELSE NewProcess(tr, pid)

\* CreateThread; threads of a process share its maps.
CreateThread(tr, pid, tid) ==
    LET of == FindProcessOrNew(tr, pid)
    IN  IF pid = tid THEN NewProcess(tr, tid)
        ELSE [of EXCEPT !.thread = @ @@ (tid :> [pid |-> pid, comm |-> "unknown", maps |-> of.thread[pid].maps])]

FindThreadOrNew(tr, pid, tid) == IF tid \in DOMAIN tr.thread THEN tr ELSE CreateThread(tr, pid, tid)

SetThreadName(tr, pid, tid, comm) == [FindThreadOrNew(tr, pid, tid) EXCEPT !.thread[tid].comm = comm]

MapsOf(tr, tid) == tr.sets[tr.thread[tid].maps]

ForkThread(tr, pid, tid, ppid, ptid) ==
    LET both == FindThreadOrNew(FindThreadOrNew(tr, ppid, ptid), pid, tid)
        named == [both EXCEPT !.thread[tid].comm = both.thread[ptid].comm]
    IN  IF pid = ppid THEN named
        ELSE [named EXCEPT !.sets[both.thread[tid].maps] = MapsOf(both, ptid)]
----------------------------------------------------------------------------
(* Maps. *)

End(map) == map.start + map.len

Before(old, map) ==
    IF old.start < map.start THEN {[old EXCEPT !.len = map.start - old.start]} ELSE {}

\* Mutant: the rest of a map starts at the page of the file the map started at.
AfterAtStart(old, map) ==
    IF End(old) > End(map) THEN {[old EXCEPT !.start = End(map), !.len = End(old) - End(map)]} ELSE {}

After(old, map) ==
    IF End(old) > End(map)
    THEN {[old EXCEPT !.start = End(map), !.len = End(old) - End(map), !.pgoff = @ + End(map) - old.start]}
    ELSE {}

FixOverlappedMap(maps, map) ==
    UNION {IF old.start >= End(map) \/ End(old) <= map.start THEN {old}
           ELSE Before(old, map) \cup After(old, map) : old \in maps}

AddMap(set, map) ==
    [maps |-> FixOverlappedMap(set.maps, map) \cup {map}, version |-> set.version + 1]

AddThreadMap(tr, pid, tid, map) ==
    LET found == FindThreadOrNew(tr, pid, tid)
    IN  [found EXCEPT !.sets[found.thread[tid].maps] = AddMap(@, map)]

AddKernelMap(map) == kernel' = IF map.len = 0 THEN kernel ELSE FixOverlappedMap(kernel, map) \cup {map}

\* FindMapByAddr: the last map in the order of MapComparator that does not
\* start after the address, if it reaches the address.
Precedes(a, b) == a.start < b.start \/ (a.start = b.start /\ a.len <= b.len)
FindMapByAddr(maps, addr) ==
    LET below == {m \in maps : m.start <= addr}
        it == CHOOSE m \in below : \A n \in below : Precedes(n, m)
    IN  IF below # {} /\ addr < End(it) THEN it ELSE <<>>
----------------------------------------------------------------------------
(* OfflineUnwinder::UnwindCallChain: the maps it unwinds with. *)

\* Mutant: the first maps of a process are kept.
NeverRefreshed(cache, set) == IF cache = <<>> THEN set ELSE cache

Refreshed(cache, set) == IF cache = <<>> \/ cache.version < set.version THEN set ELSE cache
----------------------------------------------------------------------------
Init ==
    /\ tree = SetThreadName([thread |-> <<>>, sets |-> <<>>], 0, 0, "swapper")
    /\ kernel = {} /\ cached = [t \in Tids |-> <<>>] /\ records = 0
    /\ proc = [t \in Tids |-> IF \A u \in Tids : t <= u THEN t ELSE 0] /\ gone = {}
    /\ space = [t \in Tids \cup {0} |-> Unmapped]
    /\ name = [t \in Tids |-> "unknown"] /\ outdated = FALSE

Record == records < MaxRecords /\ records' = records + 1

Placed(file, start) ==
    [start |-> start, len |-> Maps[file].len, pgoff |-> Maps[file].pgoff, dso |-> file, time |-> records]

Overlay(pages, map) ==
    [p \in Pages |-> IF map.start <= p /\ p < End(map) THEN <<map.dso, p - map.start + map.pgoff>> ELSE pages[p]]

\* A thread maps a file; Update on an mmap record.
Mmap(t, file, start) ==
    /\ Record /\ t \in Alive /\ start + Maps[file].len - 1 \in Pages
    /\ tree' = AddThreadMap(tree, proc[t], t, Placed(file, start))
    /\ space' = [space EXCEPT ![proc[t]] = Overlay(@, Placed(file, start))]
    /\ UNCHANGED <<kernel, cached, proc, gone, name, outdated>>

\* The kernel loads a module.
KernelMmap(file, start) ==
    /\ Record /\ start + Maps[file].len - 1 \in Pages
    /\ AddKernelMap(Placed(file, start))
    /\ space' = [space EXCEPT ![0] = Overlay(@, Placed(file, start))]
    /\ UNCHANGED <<tree, cached, proc, gone, name, outdated>>

\* A thread unmaps a page: no record.
Munmap(t, p) ==
    /\ t \in Alive /\ space[proc[t]][p] # <<>>
    /\ space' = [space EXCEPT ![proc[t]][p] = <<>>]
    /\ UNCHANGED <<tree, kernel, cached, records, proc, gone, name, outdated>>

\* A thread changes its name; Update on a comm record.
Comm(t, comm) ==
    /\ Record /\ t \in Alive
    /\ tree' = SetThreadName(tree, proc[t], t, comm)
    /\ name' = [name EXCEPT ![t] = comm]
    /\ UNCHANGED <<kernel, cached, proc, gone, space, outdated>>

\* A thread starts a process; Update on a fork record.
Fork(t, child) ==
    /\ Record /\ t \in Alive /\ proc[child] = 0
    /\ IF ReusePids THEN child \in DOMAIN tree.thread => tree.thread[child].pid = child
       ELSE child \notin gone /\ child \notin DOMAIN tree.thread
    /\ tree' = ForkThread(tree, child, child, proc[t], t)
    /\ proc' = [proc EXCEPT ![child] = child]
    /\ gone' = gone \ {child}
    /\ space' = [space EXCEPT ![child] = space[proc[t]]]
    /\ name' = [name EXCEPT ![child] = name[t]]
    /\ UNCHANGED <<kernel, cached, outdated>>

\* A thread starts a thread.
Clone(t, child) ==
    /\ Record /\ t \in Alive /\ proc[child] = 0 /\ child \notin gone /\ child \notin DOMAIN tree.thread
    /\ tree' = ForkThread(tree, proc[t], child, proc[t], t)
    /\ proc' = [proc EXCEPT ![child] = proc[t]]
    /\ name' = [name EXCEPT ![child] = name[t]]
    /\ UNCHANGED <<kernel, cached, gone, space, outdated>>

\* A process ends; ThreadTree does not look at exit records.
Exit(p) ==
    /\ proc[p] = p
    /\ proc' = [t \in Tids |-> IF proc[t] = p THEN 0 ELSE proc[t]]
    /\ gone' = gone \cup {t \in Tids : proc[t] = p}
    /\ space' = [space EXCEPT ![p] = Unmapped]
    /\ UNCHANGED <<tree, kernel, cached, records, name, outdated>>

\* The stack of a sample of a thread is unwound.
Unwind(t) ==
    /\ t \in Alive
    /\ tree' = FindThreadOrNew(tree, proc[t], t)
    /\ LET pid == tree'.thread[t].pid
       IN  /\ cached' = [cached EXCEPT ![pid] = Refreshed(@, MapsOf(tree', t))]
           /\ outdated' = (cached'[pid].maps # MapsOf(tree', t).maps)
    /\ UNCHANGED <<kernel, records, proc, gone, space, name>>

Next ==
    \/ \E t \in Tids, f \in DOMAIN Maps, p \in Pages : Mmap(t, f, p)
    \/ \E f \in DOMAIN Maps, p \in Pages : KernelMmap(f, p)
    \/ \E t \in Tids, p \in Pages : Munmap(t, p)
    \/ \E t \in Tids, n \in Names : Comm(t, n)
    \/ \E t, c \in Tids : Fork(t, c) \/ Clone(t, c)
    \/ \E p \in Tids : Exit(p) \/ Unwind(p)

Spec == Init /\ [][Next]_vars
----------------------------------------------------------------------------
Located(maps, p, where) ==
    LET map == FindMapByAddr(maps, p)
    IN  map # <<>> /\ <<map.dso, p - map.start + map.pgoff>> = where

\* Whatever was mapped over, split, forked or shared, an address a thread can
\* execute is found in the file, and at the place of the file, that is mapped
\* there; and a thread has the name it gave itself last (thread_tree.h:77, "It
\* always refers to the latest comm").
ThreadsAsTheyAre ==
    /\ \A t \in Alive :
        LET found == FindThreadOrNew(tree, proc[t], t)
        IN  /\ \A p \in Pages : space[proc[t]][p] # <<>> =>
                  Located(MapsOf(found, t).maps, p, space[proc[t]][p])
            /\ found.thread[t].comm = name[t]
    /\ \A p \in Pages : space[0][p] # <<>> => Located(kernel, p, space[0][p])

\* A stack is unwound with the maps its thread has now: "Create map only if the
\* maps have changed since the last unwind" (OfflineUnwinder.cpp:135).
UnwindsWithCurrentMaps == ~outdated
=============================================================================
