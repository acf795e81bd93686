--------------------------- MODULE EventSelection ---------------------------
(***************************************************************************)
(* The perf event files of simpleperf stat (event_selection_set.cpp and    *)
(* event_fd.cpp): one for every event, thread and cpu, opened while        *)
(* threads come and go and cpus are taken offline and online, and the      *)
(* counters read from them, which cmd_stat.cpp adds up and prints.         *)
(*                                                                         *)
(* The kernel is external: a file counts for its thread and for those      *)
(* that inherit it, on its cpu, while its group is scheduled on the PMU;   *)
(* it stops for good when its cpu goes offline.                            *)
(***************************************************************************)
EXTENDS Integers, Sequences, FiniteSets, SequencesExt, FiniteSetsExt, TLC

CONSTANTS
    GroupLists,     \* sequences of groups, a group a sequence of [type, modifier]
    Cpus,
    Tids,           \* threads of the monitored process
    Inherit,        \* child_inherit_
    IntervalOnly,   \* interval_only_values_
    MaxEvents, MaxChanges, MaxPrints

VARIABLES
    groups,
    online,     \* cpus that are online
    alive,      \* threads that are alive
    covers,     \* [tid -> the files that count for it]
    fd,         \* [file -> [sel, tid, cpu, live, value, enabled, running]]
    event_fds,  \* [selection -> its files, in the order they were opened]
    hotplugged, \* [selection -> counters of files closed when their cpu went away]
    todo,       \* the group, thread and cpu still to open
    opened,     \* groups with a file on some thread
    known,      \* online_cpus_
    pc,
    last,       \* last_sum_values_
    printed,    \* the reports, the latest last
    counted,    \* ghost: events each selection should have counted
    changes,    \* hotplug events and forks so far
    events      \* events so far

vars == <<groups, online, alive, covers, fd, event_fds, hotplugged, todo, opened,
          known, pc, last, printed, counted, changes, events>>

Selections == UNION {{<<g, i>> : i \in DOMAIN groups[g]} : g \in DOMAIN groups}
Selection(sel) == groups[sel[1]][sel[2]]
Zero == [value |-> 0, enabled |-> 0, running |-> 0]

\* GetThreadsInProcess and GetOnlineCpus, each thread with each cpu.
Targets(tids, cpus) ==
    LET t == SetToSeq(tids)
        c == SetToSeq(cpus)
    IN  FlattenSeq([i \in DOMAIN t |-> [j \in DOMAIN c |-> [tid |-> t[i], cpu |-> c[j]]]])

Init ==
    /\ groups \in GroupLists
    /\ online \in {Cpus, {Min(Cpus)}}
    /\ alive = {Min(Tids)}
    /\ covers = [t \in Tids |-> {}]
    /\ fd = <<>>
    /\ event_fds = [sel \in Selections |-> <<>>]
    /\ hotplugged = [sel \in Selections |-> <<>>]
    /\ todo = [targets |-> Targets(alive, online), group |-> 1, next |-> 1]
    /\ opened = {} /\ known = {} /\ pc = "open"
    /\ last = [sel \in Selections |-> Zero]
    /\ printed = <<>>
    /\ counted = [sel \in Selections |-> 0]
    /\ changes = 0 /\ events = 0
----------------------------------------------------------------------------
\* Mutant: a file is kept as soon as it is open.
OpenInPart(g, tid, cpu, n) ==
    LET first == Len(fd)
        new   == [i \in 1 .. n |-> [sel |-> <<g, i>>, tid |-> tid, cpu |-> cpu, live |-> TRUE] @@ Zero]
    IN  /\ fd' = fd \o new
        /\ covers' = [covers EXCEPT ![tid] = @ \cup (first + 1 .. first + Len(new))]
        /\ event_fds' = [sel \in Selections |->
               IF sel[1] = g /\ sel[2] <= n THEN Append(event_fds[sel], first + sel[2]) ELSE event_fds[sel]]

\* Opens the first n events of a group on a thread and a cpu: the files are
\* kept when it could open all of them and closed otherwise.
OpenEventFilesOnGroup(g, tid, cpu, n) ==
    LET first == Len(fd)
        new   == [i \in DOMAIN groups[g] |->
                     [sel |-> <<g, i>>, tid |-> tid, cpu |-> cpu, live |-> TRUE] @@ Zero]
    IN  IF n < Len(groups[g])
        THEN UNCHANGED <<fd, covers, event_fds>>
        ELSE /\ fd' = fd \o new
             /\ covers' = [covers EXCEPT ![tid] = @ \cup (first + 1 .. first + Len(new))]
             /\ event_fds' = [sel \in Selections |->
                    IF sel[1] = g THEN Append(event_fds[sel], first + sel[2]) ELSE event_fds[sel]]

\* How many events of a group perf_event_open may open on a thread and a cpu.
MayOpen(g, tid, cpu) == IF tid \in alive /\ cpu \in online THEN 0 .. Len(groups[g]) ELSE {0}

\* OpenEventFiles, a group on a thread and a cpu at a time.  Each group has
\* to be open on some thread of the process.
OpenNext ==
    /\ pc = "open" /\ todo.next <= Len(todo.targets)
    /\ LET t == todo.targets[todo.next] IN
       \E n \in MayOpen(todo.group, t.tid, t.cpu) :
          /\ OpenEventFilesOnGroup(todo.group, t.tid, t.cpu, n)
          /\ opened' = IF n = Len(groups[todo.group]) THEN opened \cup {todo.group} ELSE opened
    /\ todo' = [todo EXCEPT !.next = @ + 1]
    /\ UNCHANGED <<groups, online, alive, hotplugged, known, pc, last, printed, counted, changes, events>>

GroupOpened ==
    /\ pc = "open" /\ todo.next > Len(todo.targets)
    /\ todo' = [todo EXCEPT !.group = @ + 1, !.next = 1]
    /\ pc' = IF todo.group \notin opened THEN "failed"
             ELSE IF todo.group = Len(groups) THEN "prepare" ELSE pc
    /\ UNCHANGED <<groups, online, alive, covers, fd, event_fds, hotplugged, opened, known, last,
                   printed, counted, changes, events>>

HandleCpuHotplugEvents ==
    /\ pc = "prepare"
    /\ known' = online
    /\ pc' = "loop"
    /\ UNCHANGED <<groups, online, alive, covers, fd, event_fds, hotplugged, todo, opened, last,
                   printed, counted, changes, events>>
----------------------------------------------------------------------------
Counter(f) == [value |-> fd[f].value, enabled |-> fd[f].enabled, running |-> fd[f].running]

\* Mutant: what a file had counted is dropped with it.
ForgetCounters(sel, gone) == hotplugged[sel]

\* The counters of the files that are about to be closed are kept.
KeepCounters(sel, gone) ==
    hotplugged[sel] \o [i \in DOMAIN gone |-> Counter(gone[i])]

HandleCpuOfflineEvent(cpu) ==
    LET OnCpu(f) == fd[f].cpu = cpu
        Stays(f) == fd[f].cpu # cpu
    IN  /\ hotplugged' = [sel \in Selections |-> KeepCounters(sel, SelectSeq(event_fds[sel], OnCpu))]
        /\ event_fds' = [sel \in Selections |-> SelectSeq(event_fds[sel], Stays)]
        /\ fd' = [f \in DOMAIN fd |-> IF OnCpu(f) THEN [fd[f] EXCEPT !.live = FALSE] ELSE fd[f]]

\* DetectCpuHotplugEvents first closes the files of the cpus that went away.
DetectOffline ==
    /\ pc = "loop"
    /\ \E cpu \in known \ online :
          /\ HandleCpuOfflineEvent(cpu)
          /\ known' = known \ {cpu}
    /\ UNCHANGED <<groups, online, alive, covers, todo, opened, pc, last, printed, counted, changes, events>>

\* Then it opens files on a cpu that came, for every thread there is now:
\* HandleCpuOnlineEvent, whose failures are only logged.
DetectOnline ==
    /\ pc = "loop" /\ known \subseteq online
    /\ \E cpu \in online \ known :
          /\ todo' = [targets |-> Targets(alive, {cpu}), group |-> 1, next |-> 1]
          /\ known' = known \cup {cpu}
    /\ pc' = "online"
    /\ UNCHANGED <<groups, online, alive, covers, fd, event_fds, hotplugged, opened, last, printed,
                   counted, changes, events>>

HandleCpuOnlineEvent ==
    /\ pc = "online"
    /\ IF todo.group > Len(groups)
       THEN pc' = "loop" /\ UNCHANGED <<fd, covers, event_fds, todo>>
       ELSE LET t    == todo.targets[todo.next]
                done == todo.next = Len(todo.targets)
            IN  /\ \E n \in MayOpen(todo.group, t.tid, t.cpu) : OpenEventFilesOnGroup(todo.group, t.tid, t.cpu, n)
                /\ todo' = [todo EXCEPT !.group = IF done THEN @ + 1 ELSE @, !.next = IF done THEN 1 ELSE @ + 1]
                /\ UNCHANGED pc
    /\ UNCHANGED <<groups, online, alive, hotplugged, opened, known, last, printed, counted, changes, events>>
----------------------------------------------------------------------------
(* The system that is measured. *)

Busy == pc # "failed"
Change == Busy /\ changes < MaxChanges /\ changes' = changes + 1

\* Files of the cpu stop counting; their counters can still be read.
Offline(cpu) ==
    /\ Change /\ cpu \in online /\ online # {cpu}
    /\ online' = online \ {cpu}
    /\ fd' = [f \in DOMAIN fd |-> IF fd[f].cpu = cpu THEN [fd[f] EXCEPT !.live = FALSE] ELSE fd[f]]
    /\ UNCHANGED <<groups, alive, covers, event_fds, hotplugged, todo, opened, known, pc, last, printed, counted, events>>

Online(cpu) ==
    /\ Change /\ cpu \notin online
    /\ online' = online \cup {cpu}
    /\ UNCHANGED <<groups, alive, covers, fd, event_fds, hotplugged, todo, opened, known, pc, last, printed, counted, events>>

\* A new thread is counted by the files its creator is counted by.
Fork(t, u) ==
    /\ Change /\ t \in alive /\ u \notin alive
    /\ alive' = alive \cup {u}
    /\ covers' = [covers EXCEPT ![u] = IF Inherit THEN covers[t] ELSE {}]
    /\ UNCHANGED <<groups, online, fd, event_fds, hotplugged, todo, opened, known, pc, last, printed, counted, events>>

\* An event of thread t on a cpu, in user space or in the kernel, while some
\* of the groups have the PMU.
Counts(f, t, cpu) == f \in covers[t] /\ fd[f].live /\ fd[f].cpu = cpu
InMode(sel, mode) == Selection(sel).modifier \in {"", mode}

Event(t, cpu, mode, scheduled) ==
    /\ Busy /\ events < MaxEvents /\ events' = events + 1
    /\ t \in alive /\ cpu \in online
    /\ \E f \in DOMAIN fd : Counts(f, t, cpu)
    /\ fd' = [f \in DOMAIN fd |->
          LET n == IF fd[f].sel[1] \in scheduled THEN 1 ELSE 0 IN
          IF ~Counts(f, t, cpu) THEN fd[f]
          ELSE [fd[f] EXCEPT !.enabled = @ + 1, !.running = @ + n,
                             !.value = IF InMode(fd[f].sel, mode) THEN @ + n ELSE @]]
    /\ counted' = [sel \in Selections |->
          IF /\ sel[1] \in scheduled /\ InMode(sel, mode)
             /\ \E f \in DOMAIN fd : fd[f].sel = sel /\ Counts(f, t, cpu)
          THEN counted[sel] + 1 ELSE counted[sel]]
    /\ UNCHANGED <<groups, online, alive, covers, event_fds, hotplugged, todo, opened, known, pc, last,
                   printed, changes>>
----------------------------------------------------------------------------
(* cmd_stat.cpp. *)

\* ReadCounters, and the sum ShowCounters makes of them.
Counters(sel) == hotplugged[sel] \o [i \in DOMAIN event_fds[sel] |-> Counter(event_fds[sel][i])]

Add(a, b) == [k \in DOMAIN Zero |-> a[k] + b[k]]
Minus(a, b) == [k \in DOMAIN Zero |-> a[k] - b[k]]
SumOf(sel) == FoldSeq(Add, Zero, Counters(sel))

\* scale is 1.0 unless the event ran for a part of the time.
ScaleIsOne(sum) == ~(sum.running < sum.enabled /\ sum.running # 0)

\* IsMonitoredAtTheSameTime.
SameTime(a, b, sums) == a[1] = b[1] \/ (ScaleIsOne(sums[a]) /\ ScaleIsOne(sums[b]))

FindSummary(type, modifier) == {sel \in Selections : Selection(sel) = [type |-> type, modifier |-> modifier]}

\* AutoGenerateSummaries: pairs of summaries added up to one without modifier.
Generated(sums) ==
    {<<u, k>> \in Selections \X Selections :
        /\ Selection(u).modifier = "u"
        /\ k \in FindSummary(Selection(u).type, "k")
        /\ FindSummary(Selection(u).type, "") = {}
        /\ SameTime(k, u, sums)}

\* print_counters.
ShowCounters ==
    /\ pc = "loop" /\ Len(printed) < MaxPrints
    /\ LET sums  == [sel \in Selections |-> SumOf(sel)]
           shown == [sel \in Selections |-> IF IntervalOnly THEN Minus(sums[sel], last[sel]) ELSE sums[sel]]
       IN  /\ printed' = Append(printed, [sums |-> shown, generated |-> Generated(shown), counted |-> counted])
           /\ last' = IF IntervalOnly THEN sums ELSE last
    /\ UNCHANGED <<groups, online, alive, covers, fd, event_fds, hotplugged, todo, opened, known, pc,
                   counted, changes, events>>

Next ==
    \/ OpenNext
    \/ GroupOpened
    \/ HandleCpuHotplugEvents
    \/ DetectOffline
    \/ DetectOnline
    \/ HandleCpuOnlineEvent
    \/ \E cpu \in Cpus : Offline(cpu) \/ Online(cpu)
    \/ \E t, u \in Tids : Fork(t, u)
    \/ \E t \in Tids, cpu \in Cpus, mode \in {"u", "k"}, scheduled \in SUBSET DOMAIN groups :
          Event(t, cpu, mode, scheduled)
    \/ ShowCounters

Spec == Init /\ [][Next]_vars
----------------------------------------------------------------------------
\* "Given a tid and cpu, events on the same group should be all opened
\* successfully or all failed to open" (event_selection_set.cpp:441), and they
\* are closed together: the events of a group have files on the same threads
\* and cpus at all times.
GroupsTogether ==
    \A a, b \in Selections :
        LET place(sel) == [i \in DOMAIN event_fds[sel] |-> [tid |-> fd[event_fds[sel][i]].tid,
                                                            cpu |-> fd[event_fds[sel][i]].cpu]]
        IN  a[1] = b[1] => place(a) = place(b)

\* Each event is counted once: none is lost when a cpu goes offline and its
\* files are closed, and none is counted by two files, whatever threads
\* inherit and files are opened anew for (event_selection_set.cpp:784-895).
\* With --interval-only-values the reports add up to the whole.
CountedOnce ==
    /\ \A sel \in Selections : SumOf(sel).value = counted[sel]
    /\ \A i \in DOMAIN printed : \A sel \in Selections :
          printed[i].counted[sel] =
              IF IntervalOnly
              THEN FoldSeq(LAMBDA p, n : p.sums[sel].value + n, 0, SubSeq(printed, 1, i))
              ELSE printed[i].sums[sel].value
=============================================================================
