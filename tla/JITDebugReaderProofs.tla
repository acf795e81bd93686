------------------------ MODULE JITDebugReaderProofs ------------------------
(***************************************************************************)
(* JITDebugReader misses no symfile and returns no stale one, for any      *)
(* number of lists, entries and changes of ART.                            *)
(*                                                                         *)
(* A list is ordered by the times of its entries, the newest first, but    *)
(* for the one entry that ART is relinking (ListsInv), and its seqlock is  *)
(* odd while ART changes it (TimesInv).  So a list whose seqlock is even   *)
(* and still the one read is the list it was (SnapshotInv).  As long as it *)
(* is, the walk has found the newest entries and all that is missing comes *)
(* next or is beyond the limit on the length of the list (ReadInv).        *)
(***************************************************************************)
EXTENDS JITDebugReader, FiniteSetTheorems, TLAPS

\* No entry is at address 0, at least one entry of a list is read, and the
\* descriptors are copied at one time.
JitOK ==
    /\ Torn = FALSE
    /\ Addrs \subseteq Nat \ {0}
    /\ MaxLength \in Nat \ {0}
    /\ Kinds \in Seq(KindSet)

Places == Addrs \cup {0}
Descriptors == [first : Places, seq : Nat, time : Nat]

\* The type of what is in the process.
ProcessTypes ==
    /\ desc \in [KindSet -> Descriptors]
    /\ entry \in [Addrs -> [next : Places, prev : Places, time : Nat, file : Nat]]
    /\ live \in [KindSet -> SUBSET Addrs]
    /\ \A d \in KindSet : IsFiniteSet(live[d])
    /\ art \in [step : {"idle", "link", "unlink", "free", "end"}, kind : KindSet \cup {""}, addr : Places]
    /\ art.step # "idle" => art.kind \in KindSet /\ art.addr \in Addrs
    /\ art.step = "idle" => art = Idle
    /\ clock \in Nat

\* ART is changing the list of d.
Busy(d) == art.step # "idle" /\ art.kind = d

\* What is in the entries.
Times == [a \in Addrs |-> entry[a].time]
Files == [a \in Addrs |-> entry[a].file]

Distinct(L, T) == \A a, b \in L : T[a] = T[b] => a = b

\* When the list of d was changed: its seqlock is odd while it is, its timestamp
\* is that of the last change, and an entry has the time it was registered at.
TimesInv ==
    \A d \in KindSet :
        /\ Busy(d) <=> desc[d].seq % 2 = 1
        /\ Busy(d) => desc[d].time < clock
        /\ desc[d].time <= clock
        /\ \A a \in live[d] : Times[a] <= clock
        /\ ~Busy(d) => \A a \in live[d] : Times[a] <= desc[d].time
        /\ Busy(d) /\ art.step # "end" => \A a \in live[d] : Times[a] < clock
        /\ Distinct(live[d], Times)

\* n is what follows a in a list of L that begins with its newest entry, p what
\* comes before it, and f the first.
Follows(L, T, a, n) ==
    \/ n = 0 /\ \A b \in L : T[b] >= T[a]
    \/ n \in L /\ T[n] < T[a] /\ \A b \in L : T[b] < T[a] => T[b] <= T[n]

Precedes(L, T, a, p) ==
    \/ p = 0 /\ \A b \in L : T[b] <= T[a]
    \/ p \in L /\ T[p] > T[a] /\ \A b \in L : T[b] > T[a] => T[b] >= T[p]

Newest(L, T, f) ==
    \/ f = 0 /\ L = {}
    \/ f \in L /\ \A b \in L : T[b] <= T[f]

\* The entry after the one that is being unlinked no longer points to it.
Relinked(d, a) == art.step = "free" /\ art.kind = d /\ a = entry[art.addr].next

\* The entries registered are linked, the newest first.
ListsInv ==
    /\ \A d, e \in KindSet : d # e => live[d] \cap live[e] = {}
    /\ \A d \in KindSet : Newest(live[d], Times, desc[d].first)
    /\ \A d \in KindSet : \A a \in live[d] : Follows(live[d], Times, a, entry[a].next)
    /\ \A d \in KindSet : \A a \in live[d] :
           IF Relinked(d, a) THEN entry[a].prev = entry[art.addr].prev
                             ELSE Precedes(live[d], Times, a, entry[a].prev)
    /\ art.step = "link" => /\ \A d \in KindSet : art.addr \notin live[d]
                            /\ entry[art.addr].next = desc[art.kind].first /\ entry[art.addr].prev = 0
                            /\ Times[art.addr] = clock
    /\ art.step \in {"unlink", "free"} => art.addr \in live[art.kind]

ProcessInv == ProcessTypes /\ TimesInv /\ ListsInv

\* The type of what the reader has.
ReaderTypes ==
    /\ last \in [KindSet -> Descriptors]
    /\ new \in [KindSet -> Descriptors]
    /\ pc \in {"idle", "descriptors", "update", "entries", "check", "symfiles"}
    /\ pc \notin {"idle", "descriptors"} => k \in 1 .. Len(Kinds)
    /\ walk \in [at : Places, prev : Places, found : Seq(Addrs)]

\* The descriptors were read at one time: one whose seqlock is still the same, and
\* even, has not been changed.
SnapshotInv ==
    /\ \A d \in KindSet : last[d].time <= desc[d].time
    /\ pc = "descriptors" => \A d \in KindSet : new[d].first = desc[d].first
    /\ pc \notin {"idle", "descriptors"} =>
           \A d \in KindSet : /\ new[d].seq <= desc[d].seq /\ new[d].time <= desc[d].time
                              /\ new[d].seq = desc[d].seq /\ new[d].seq % 2 = 0 => new[d] = desc[d]

Fresh(L, T, t) == {a \in L : T[a] > t}

\* The entries found are the newest.
Walked(L, T, t, found) ==
    /\ Range(found) \subseteq Fresh(L, T, t)
    /\ \A a \in Range(found), b \in L \ Range(found) : T[b] < T[a]
    /\ Cardinality(Range(found)) = Len(found)

\* MaxLength entries are newer than a.
Crowded(L, T, t, a) == Cardinality({b \in Fresh(L, T, t) : T[b] > T[a]}) >= MaxLength

\* What is new is among the entries found, has been read or is beyond the limit.
Covered(L, T, F, t, found, fs) ==
    /\ Range(found) \subseteq L
    /\ \A a \in Fresh(L, T, t) : a \in Range(found) \/ F[a] \in fs \/ Crowded(L, T, t, a)

\* How far the reader is with an unchanged list.
ListRead(L, T, F, t) ==
    /\ pc = "entries" => Walked(L, T, t, walk.found) /\ Newest(L \ Range(walk.found), T, walk.at)
    /\ pc = "check" => Covered(L, T, F, t, walk.found, {}) /\ (walk.found = <<>> => Fresh(L, T, t) = {})
    /\ pc = "symfiles" => Covered(L, T, F, t, walk.found, files) /\ files \subseteq since

ReadInv ==
    /\ pc \in {"entries", "check", "symfiles"} =>
           /\ new[Kinds[k]].seq % 2 = 0
           /\ Unchanged => ListRead(live[Kinds[k]], Times, Files, last[Kinds[k]].time)
    /\ pc \in {"descriptors", "entries", "check"} => files = {}
    /\ pc \in {"idle", "update"} => files \subseteq since
    /\ \A d \in KindSet : \A a \in live[d] : Files[a] \in since
    /\ \A d \in KindSet : \A a \in live[d] : Times[a] <= last[d].time => Files[a] \in given

JitInv == ProcessInv /\ ReaderTypes /\ SnapshotInv /\ ReadInv
-----------------------------------------------------------------------------
(* What ART does to its lists. *)

\* A leaf is tried with SMT, then with Zenon, then with SMT for longer.
USE SMT, Zenon, SMTT(30)

\* A seqlock alternates between even and odd.
LEMMA Alternates ==
    ASSUME NEW n \in Nat
    PROVE  n % 2 \in {0, 1} /\ (n % 2 = 0 <=> (n + 1) % 2 = 1) /\ (n % 2 = 1 <=> (n + 1) % 2 = 0)
OBVIOUS

\* A change begins.
LEMMA BeginShape ==
    ASSUME ProcessTypes, NEW d \in KindSet, NEW a \in Addrs, NEW step \in {"link", "unlink"}, Begin(d, step, a)
    PROVE  /\ art.step = "idle" /\ clock' = clock + 1
           /\ art' = [step |-> step, kind |-> d, addr |-> a]
           /\ desc' \in [KindSet -> Descriptors]
           /\ desc'[d].seq = desc[d].seq + 1 /\ desc'[d].first = desc[d].first /\ desc'[d].time = desc[d].time
           /\ \A e \in KindSet : e # d => desc'[e] = desc[e]
           /\ Runs /\ UNCHANGED reader
<1>1. /\ art = Idle /\ clock' = clock + 1 /\ Runs /\ UNCHANGED reader
      /\ art' = [step |-> step, kind |-> d, addr |-> a]
      /\ desc' = [desc EXCEPT ![d].seq = @ + 1]
    BY DEF Begin
<1>2. desc[d] \in Descriptors
    BY DEF ProcessTypes
<1>3. /\ desc'[d] = [desc[d] EXCEPT !.seq = @ + 1]
      /\ \A e \in KindSet : e # d => desc'[e] = desc[e]
      /\ DOMAIN desc' = KindSet
    BY <1>1 DEF ProcessTypes
<1>4. desc'[d] \in Descriptors
    BY <1>2, <1>3 DEF Descriptors
<1>5. desc'[d].seq = desc[d].seq + 1 /\ desc'[d].first = desc[d].first /\ desc'[d].time = desc[d].time
    BY <1>2, <1>3 DEF Descriptors
<1>6. desc' \in [KindSet -> Descriptors]
    BY <1>1, <1>3, <1>4 DEF ProcessTypes
<1> QED BY <1>1, <1>3, <1>5, <1>6 DEF Idle

\* An entry becomes the first of a list.
LEMMA Pushed ==
    ASSUME NEW T \in [Addrs -> Nat], NEW L \in SUBSET Addrs, NEW x \in Addrs, NEW f, NEW M, M = L \cup {x}, 0 \notin Addrs,
           \A b \in L : T[b] < T[x], Newest(L, T, f), Distinct(L, T)
    PROVE  /\ Newest(M, T, x)
           /\ Follows(M, T, x, f) /\ Precedes(M, T, x, 0)
           /\ \A b \in L, n \in Places : Follows(L, T, b, n) => Follows(M, T, b, n)
           /\ f # 0 => Precedes(M, T, f, x)
           /\ \A b \in L, p \in Places : b # f /\ Precedes(L, T, b, p) => Precedes(M, T, b, p)
<1>1. Newest(M, T, x) /\ Precedes(M, T, x, 0)
    BY DEF Newest, Precedes
<1>2. Follows(M, T, x, f)
    BY DEF Newest, Follows
<1>3. ASSUME NEW b \in L, NEW n \in Places, Follows(L, T, b, n) PROVE Follows(M, T, b, n)
    BY <1>3 DEF Follows
<1>4. f # 0 => Precedes(M, T, f, x)
    BY DEF Newest, Precedes
<1>5. ASSUME NEW b \in L, NEW p \in Places, b # f, Precedes(L, T, b, p) PROVE Precedes(M, T, b, p)
    <2>1. f \in L /\ T[b] < T[f]
        BY <1>5 DEF Newest, Distinct
    <2>2. p \in L
        BY <1>5, <2>1 DEF Precedes
    <2> QED BY <1>5, <2>1, <2>2 DEF Precedes
<1> QED BY <1>1, <1>2, <1>3, <1>4, <1>5

\* An entry is taken out of a list.
LEMMA TakenOut ==
    ASSUME NEW T \in [Addrs -> Nat], NEW L \in SUBSET Addrs, NEW x \in L, NEW n, NEW p, 0 \notin Addrs,
           Follows(L, T, x, n), Precedes(L, T, x, p), Distinct(L, T)
    PROVE  /\ n # x /\ p # x
           /\ p = 0 => Newest(L \ {x}, T, n)
           /\ p # 0 => \A f \in Places : Newest(L, T, f) => Newest(L \ {x}, T, f)
           /\ p # 0 => Follows(L \ {x}, T, p, n)
           /\ \A b \in L \ {x}, m \in Places : b # p /\ Follows(L, T, b, m) => Follows(L \ {x}, T, b, m)
           /\ n # 0 => Precedes(L \ {x}, T, n, p)
           /\ \A b \in L \ {x}, q \in Places : b # n /\ Precedes(L, T, b, q) => Precedes(L \ {x}, T, b, q)
<1>1. /\ n # x /\ (n = 0 \/ n \in L) /\ p # x /\ (p = 0 \/ p \in L)
      /\ \A b \in L \ {x} : T[b] < T[x] \/ T[b] > T[x]
    BY DEF Follows, Precedes, Distinct
<1>2. p = 0 => Newest(L \ {x}, T, n)
    BY <1>1 DEF Newest, Follows, Precedes
<1>3. p # 0 => \A f \in Places : Newest(L, T, f) => Newest(L \ {x}, T, f)
    BY <1>1 DEF Newest, Precedes
<1>4. p # 0 => Follows(L \ {x}, T, p, n)
    BY <1>1 DEF Follows, Precedes
<1>5. ASSUME NEW b \in L \ {x}, NEW m \in Places, b # p, Follows(L, T, b, m) PROVE Follows(L \ {x}, T, b, m)
    <2>1. m # x
        <3> SUFFICES ASSUME m = x PROVE FALSE
            OBVIOUS
        <3>1. T[x] < T[b] /\ \A c \in L : T[c] < T[b] => T[c] <= T[x]
            BY <1>5 DEF Follows
        <3>2. p \in L /\ T[p] > T[x] /\ T[b] >= T[p]
            BY <3>1 DEF Precedes
        <3> QED BY <1>5, <3>1, <3>2 DEF Distinct
    <2> QED BY <1>5, <2>1 DEF Follows
<1>6. n # 0 => Precedes(L \ {x}, T, n, p)
    BY <1>1 DEF Follows, Precedes
<1>7. ASSUME NEW b \in L \ {x}, NEW q \in Places, b # n, Precedes(L, T, b, q) PROVE Precedes(L \ {x}, T, b, q)
    <2>1. q # x
        <3> SUFFICES ASSUME q = x PROVE FALSE
            OBVIOUS
        <3>1. T[x] > T[b] /\ \A c \in L : T[c] > T[b] => T[c] >= T[x]
            BY <1>7 DEF Precedes
        <3>2. n \in L /\ T[n] < T[x] /\ T[b] <= T[n]
            BY <3>1 DEF Follows
        <3> QED BY <1>7, <3>1, <3>2 DEF Distinct
    <2> QED BY <1>7, <2>1 DEF Precedes
<1> QED BY <1>1, <1>2, <1>3, <1>4, <1>5, <1>6, <1>7

\* A new prev_addr in one entry.
LEMMA PrevSet ==
    ASSUME ProcessTypes, NEW x \in Addrs, NEW y \in Places, entry' = [entry EXCEPT ![x].prev = y]
    PROVE  /\ entry' \in [Addrs -> [next : Places, prev : Places, time : Nat, file : Nat]]
           /\ Times' = Times /\ Files' = Files
           /\ \A b \in Addrs : entry'[b].next = entry[b].next
           /\ \A b \in Addrs : b # x => entry'[b] = entry[b]
           /\ entry'[x].prev = y
<1> DEFINE R == [next : Places, prev : Places, time : Nat, file : Nat]
<1>1. entry[x] \in R
    BY DEF ProcessTypes
<1>2. /\ entry'[x] = [entry[x] EXCEPT !.prev = y]
      /\ \A b \in Addrs : b # x => entry'[b] = entry[b]
      /\ DOMAIN entry' = Addrs
    BY DEF ProcessTypes
<1>3. /\ entry'[x] \in R
      /\ entry'[x].prev = y /\ entry'[x].next = entry[x].next
      /\ entry'[x].time = entry[x].time /\ entry'[x].file = entry[x].file
    BY <1>1, <1>2
<1>4. entry' \in [Addrs -> R]
    BY <1>2, <1>3 DEF ProcessTypes
<1>5. Times' = Times /\ Files' = Files
    BY <1>2, <1>3 DEF Times, Files
<1> QED BY <1>2, <1>3, <1>4, <1>5

\* A new next_addr in one entry.
LEMMA NextSet ==
    ASSUME ProcessTypes, NEW x \in Addrs, NEW y \in Places, entry' = [entry EXCEPT ![x].next = y]
    PROVE  /\ entry' \in [Addrs -> [next : Places, prev : Places, time : Nat, file : Nat]]
           /\ Times' = Times /\ Files' = Files
           /\ \A b \in Addrs : entry'[b].prev = entry[b].prev
           /\ \A b \in Addrs : b # x => entry'[b] = entry[b]
           /\ entry'[x].next = y
<1> DEFINE R == [next : Places, prev : Places, time : Nat, file : Nat]
<1>1. entry[x] \in R
    BY DEF ProcessTypes
<1>2. /\ entry'[x] = [entry[x] EXCEPT !.next = y]
      /\ \A b \in Addrs : b # x => entry'[b] = entry[b]
      /\ DOMAIN entry' = Addrs
    BY DEF ProcessTypes
<1>3. /\ entry'[x] \in R
      /\ entry'[x].next = y /\ entry'[x].prev = entry[x].prev
      /\ entry'[x].time = entry[x].time /\ entry'[x].file = entry[x].file
    BY <1>1, <1>2
<1>4. entry' \in [Addrs -> R]
    BY <1>2, <1>3 DEF ProcessTypes
<1>5. Times' = Times /\ Files' = Files
    BY <1>2, <1>3 DEF Times, Files
<1> QED BY <1>2, <1>3, <1>4, <1>5

\* A new first_entry_addr of one descriptor.
LEMMA FirstSet ==
    ASSUME ProcessTypes, NEW d \in KindSet, NEW y \in Places, desc' = [desc EXCEPT ![d].first = y]
    PROVE  /\ desc' \in [KindSet -> Descriptors]
           /\ \A e \in KindSet : desc'[e].seq = desc[e].seq /\ desc'[e].time = desc[e].time
           /\ \A e \in KindSet : e # d => desc'[e] = desc[e]
           /\ desc'[d].first = y
<1>1. desc[d] \in Descriptors
    BY DEF ProcessTypes
<1>2. /\ desc'[d] = [desc[d] EXCEPT !.first = y]
      /\ \A e \in KindSet : e # d => desc'[e] = desc[e]
      /\ DOMAIN desc' = KindSet
    BY DEF ProcessTypes
<1>3. /\ desc'[d] \in Descriptors /\ desc'[d].first = y
      /\ desc'[d].seq = desc[d].seq /\ desc'[d].time = desc[d].time
    BY <1>1, <1>2 DEF Descriptors
<1>4. desc' \in [KindSet -> Descriptors]
    BY <1>2, <1>3 DEF ProcessTypes
<1> QED BY <1>2, <1>3, <1>4

\* art steps on; its fields.
LEMMA ArtGoes ==
    ASSUME ProcessTypes, art.step # "idle", NEW x \in {"free", "end"}, art' = [art EXCEPT !.step = x]
    PROVE  /\ art' \in [step : {"idle", "link", "unlink", "free", "end"}, kind : KindSet \cup {""}, addr : Places]
           /\ art'.step = x /\ art'.kind = art.kind /\ art'.addr = art.addr
           /\ art.kind \in KindSet /\ art.addr \in Addrs
BY DEF ProcessTypes

\* The times in a list.
LEMMA ListTimes ==
    ASSUME ProcessInv, NEW d \in KindSet
    PROVE  /\ live[d] \in SUBSET Addrs /\ Times \in [Addrs -> Nat] /\ Distinct(live[d], Times)
           /\ Newest(live[d], Times, desc[d].first)
           /\ \A a \in live[d] : /\ entry[a].next \in Places /\ entry[a].prev \in Places
                                 /\ Follows(live[d], Times, a, entry[a].next)
                                 /\ ~Relinked(d, a) => Precedes(live[d], Times, a, entry[a].prev)
BY DEF ProcessInv, ProcessTypes, TimesInv, Times, ListsInv

\* When a change begins, the times of its list become older than the change.
LEMMA TimesBegin ==
    ASSUME ProcessInv, NEW d \in KindSet, art.step = "idle", art'.step \in {"link", "unlink"}, art'.kind = d,
           clock' = clock + 1, live' = live,
           desc'[d].seq = desc[d].seq + 1, desc'[d].time = desc[d].time,
           \A e \in KindSet : e # d => desc'[e] = desc[e],
           \A e \in KindSet : \A b \in live[e] : Times'[b] = Times[b]
    PROVE  TimesInv'
<1> SUFFICES ASSUME NEW e \in KindSet
             PROVE  /\ Busy(e)' <=> desc'[e].seq % 2 = 1
                    /\ Busy(e)' => desc'[e].time < clock'
                    /\ desc'[e].time <= clock'
                    /\ \A b \in live[e] : Times'[b] <= clock'
                    /\ ~Busy(e)' => \A b \in live[e] : Times'[b] <= desc'[e].time
                    /\ Busy(e)' /\ art'.step # "end" => \A b \in live[e] : Times'[b] < clock'
                    /\ Distinct(live[e], Times')
    BY DEF TimesInv
<1>1. ~Busy(e) /\ (Busy(e)' <=> e = d)
    BY DEF Busy
<1>2. /\ desc[e].seq \in Nat /\ desc[e].time \in Nat /\ desc[e].time <= clock /\ desc[e].seq % 2 # 1
      /\ clock \in Nat
    BY <1>1 DEF ProcessInv, ProcessTypes, Descriptors, TimesInv
<1>3. desc'[e].time = desc[e].time /\ (e # d => desc'[e].seq = desc[e].seq)
    OBVIOUS
<1>4. Busy(e)' <=> desc'[e].seq % 2 = 1
    BY <1>1, <1>2, <1>3, Alternates
<1>5. \A b \in live[e] : Times[b] \in Nat /\ Times[b] <= desc[e].time
    BY <1>1, ListTimes DEF ProcessInv, TimesInv
<1>6. Distinct(live[e], Times')
    BY ListTimes DEF Distinct
<1> QED BY <1>2, <1>3, <1>4, <1>5, <1>6

\* An entry is made at an address that is free.
LEMMA RegisterKeeps ==
    ASSUME JitOK, ProcessInv, NEW d \in KindSet, NEW a \in Addrs, Register(d, a)
    PROVE  /\ ProcessInv'
           /\ \A e \in KindSet : \A b \in live[e] : entry'[b] = entry[b]
<1>1. /\ Begin(d, "link", a) /\ live' = live
      /\ \A e \in KindSet : a \notin live[e]
      /\ entry' = [entry EXCEPT ![a] = [next |-> desc[d].first, prev |-> 0, time |-> clock', file |-> clock']]
    BY DEF Register
<1>2. /\ art.step = "idle" /\ clock' = clock + 1
      /\ art' = [step |-> "link", kind |-> d, addr |-> a]
      /\ desc' \in [KindSet -> Descriptors]
      /\ desc'[d].seq = desc[d].seq + 1 /\ desc'[d].first = desc[d].first /\ desc'[d].time = desc[d].time
      /\ \A e \in KindSet : e # d => desc'[e] = desc[e]
    BY <1>1, BeginShape DEF ProcessInv
<1>3. clock \in Nat /\ desc[d].first \in Places
    BY DEF ProcessInv, ProcessTypes, Descriptors
<1>4. /\ entry' \in [Addrs -> [next : Places, prev : Places, time : Nat, file : Nat]]
      /\ \A b \in Addrs : b # a => entry'[b] = entry[b]
      /\ entry'[a].next = desc[d].first /\ entry'[a].prev = 0 /\ entry'[a].time = clock'
    <2> DEFINE made == [next |-> desc[d].first, prev |-> 0, time |-> clock', file |-> clock']
    <2>1. made \in [next : Places, prev : Places, time : Nat, file : Nat]
        BY <1>2, <1>3 DEF Places
    <2>2. made.next = desc[d].first /\ made.prev = 0 /\ made.time = clock'
        OBVIOUS
    <2> HIDE DEF made
    <2>3. entry' = [entry EXCEPT ![a] = made]
        BY <1>1 DEF made
    <2> QED BY <2>1, <2>2, <2>3 DEF ProcessInv, ProcessTypes
<1>5. art'.step = "link" /\ art'.kind = d /\ art'.addr = a
    BY <1>2
<1>6. ProcessTypes'
    <2>1. art' \in [step : {"idle", "link", "unlink", "free", "end"}, kind : KindSet \cup {""}, addr : Places]
        BY <1>2 DEF Places
    <2>2. live' \in [KindSet -> SUBSET Addrs] /\ \A e \in KindSet : IsFiniteSet(live'[e])
        BY Zenon, <1>1 DEF ProcessInv, ProcessTypes
    <2>3. clock' \in Nat
        BY <1>2, <1>3
    <2> QED BY <1>2, <1>4, <1>5, <2>1, <2>2, <2>3 DEF ProcessTypes
<1>7. \A e \in KindSet : \A b \in live[e] : b \in Addrs /\ entry'[b] = entry[b] /\ Times'[b] = Times[b]
    BY <1>1, <1>4, ListTimes DEF Times
<1>8. TimesInv'
    BY <1>1, <1>2, <1>5, <1>7, TimesBegin
<1>9. ListsInv'
    <2>1. ASSUME NEW e \in KindSet
          PROVE  Newest(live[e], Times', desc'[e].first)
        <3>1. Newest(live[e], Times, desc[e].first)
            BY ListTimes
        <3>2. desc'[e].first = desc[e].first
            BY <1>2
        <3> QED BY <1>7, <3>1, <3>2 DEF Newest
    <2>2. ASSUME NEW e \in KindSet, NEW b \in live[e]
          PROVE  /\ Follows(live[e], Times', b, entry'[b].next)
                 /\ Precedes(live[e], Times', b, entry'[b].prev)
        <3>1. Follows(live[e], Times, b, entry[b].next) /\ Precedes(live[e], Times, b, entry[b].prev)
            BY <1>2, ListTimes DEF Relinked
        <3>2. \A c \in live[e] : Times'[c] = Times[c]
            BY <1>7
        <3> QED BY <1>7, <3>1, <3>2 DEF Follows, Precedes
    <2>3. Times'[a] = clock'
        BY <1>4 DEF Times
    <2> QED BY <1>1, <1>2, <1>4, <1>5, <2>1, <2>2, <2>3 DEF ProcessInv, ListsInv, Relinked
<1> QED BY <1>6, <1>7, <1>8, <1>9 DEF ProcessInv

\* An entry is about to be unlinked.
LEMMA UnregisterKeeps ==
    ASSUME JitOK, ProcessInv, NEW d \in KindSet, NEW a \in Addrs, Unregister(d, a)
    PROVE  ProcessInv'
<1>1. Begin(d, "unlink", a) /\ live' = live /\ entry' = entry /\ a \in live[d]
    BY DEF Unregister
<1>2. /\ art.step = "idle" /\ clock' = clock + 1
      /\ art' = [step |-> "unlink", kind |-> d, addr |-> a]
      /\ desc' \in [KindSet -> Descriptors]
      /\ desc'[d].seq = desc[d].seq + 1 /\ desc'[d].first = desc[d].first /\ desc'[d].time = desc[d].time
      /\ \A e \in KindSet : e # d => desc'[e] = desc[e]
    BY <1>1, BeginShape DEF ProcessInv
<1>3. art'.step = "unlink" /\ art'.kind = d /\ art'.addr = a
    BY <1>2
<1>4. ProcessTypes'
    <2>1. art' \in [step : {"idle", "link", "unlink", "free", "end"}, kind : KindSet \cup {""}, addr : Places]
        BY <1>2 DEF Places
    <2>2. /\ live' \in [KindSet -> SUBSET Addrs] /\ \A e \in KindSet : IsFiniteSet(live'[e])
          /\ entry' \in [Addrs -> [next : Places, prev : Places, time : Nat, file : Nat]]
        BY Zenon, <1>1 DEF ProcessInv, ProcessTypes
    <2>3. clock' \in Nat
        <3>1. clock \in Nat
            BY DEF ProcessInv, ProcessTypes
        <3> QED BY <1>2, <3>1
    <2> QED BY <1>2, <1>3, <2>1, <2>2, <2>3 DEF ProcessTypes
<1>5. Times' = Times
    BY <1>1 DEF Times
<1>6. TimesInv'
    BY <1>1, <1>2, <1>3, <1>5, TimesBegin
<1>7. ListsInv'
    <2>1. \A e \in KindSet : Newest(live[e], Times, desc'[e].first)
        BY <1>2, ListTimes
    <2> QED BY <1>1, <1>2, <1>3, <1>5, <2>1 DEF ProcessInv, ListsInv, Relinked
<1> QED BY <1>4, <1>6, <1>7 DEF ProcessInv

\* While a list is being changed, the times of no other list change, and what
\* stays in the list is older than the change.
LEMMA TimesKept ==
    ASSUME ProcessInv, art.step \in {"link", "unlink", "free"}, ProcessTypes',
           art'.step \in {"free", "end"}, art'.kind = art.kind, clock' = clock, Times' = Times,
           \A d \in KindSet : desc'[d].seq = desc[d].seq /\ desc'[d].time = desc[d].time,
           \A d \in KindSet : d # art.kind => live'[d] = live[d],
           \/ live'[art.kind] \subseteq live[art.kind]
           \/ art'.step = "end" /\ live'[art.kind] = live[art.kind] \cup {art.addr} /\ Times[art.addr] = clock
    PROVE  TimesInv'
<1> SUFFICES ASSUME NEW e \in KindSet
             PROVE  /\ Busy(e)' <=> desc'[e].seq % 2 = 1
                    /\ Busy(e)' => desc'[e].time < clock'
                    /\ desc'[e].time <= clock'
                    /\ \A b \in live'[e] : Times[b] <= clock'
                    /\ ~Busy(e)' => \A b \in live'[e] : Times[b] <= desc'[e].time
                    /\ Busy(e)' /\ art'.step # "end" => \A b \in live'[e] : Times[b] < clock'
                    /\ Distinct(live'[e], Times)
    BY DEF TimesInv
<1>1. Busy(e)' <=> Busy(e)
    BY DEF Busy
<1>2. /\ Busy(e) <=> desc[e].seq % 2 = 1
      /\ Busy(e) => desc[e].time < clock
      /\ desc[e].time <= clock
      /\ ~Busy(e) => \A b \in live[e] : Times[b] <= desc[e].time
      /\ Busy(e) => \A b \in live[e] : Times[b] < clock
      /\ \A b \in live[e] : Times[b] <= clock
      /\ Distinct(live[e], Times)
    BY DEF ProcessInv, TimesInv
<1>3. live[e] \in SUBSET Addrs /\ live'[e] \subseteq Addrs /\ clock \in Nat /\ Times \in [Addrs -> Nat]
    BY ListTimes DEF ProcessInv, ProcessTypes
<1>4. CASE e # art.kind
    <2>1. live'[e] = live[e] /\ ~Busy(e)
        BY <1>4 DEF Busy
    <2> QED BY <1>1, <1>2, <1>3, <2>1
<1>5. CASE e = art.kind
    <2>1. Busy(e)
        BY <1>5 DEF Busy
    <2>2. CASE live'[e] \subseteq live[e]
        BY <1>1, <1>2, <1>3, <2>1, <2>2 DEF Distinct
    <2>3. CASE art'.step = "end" /\ live'[e] = live[e] \cup {art.addr} /\ Times[art.addr] = clock
        BY <1>1, <1>2, <1>3, <2>1, <2>3 DEF Distinct
    <2> QED BY <1>5, <2>2, <2>3
<1> QED BY <1>4, <1>5

\* The new entry becomes the first of its list.
LEMMA LinkKeeps ==
    ASSUME JitOK, ProcessInv, Link
    PROVE  /\ ProcessInv' /\ Files' = Files /\ Times' = Times
           /\ desc' = [desc EXCEPT ![art.kind].first = art.addr]
           /\ live'[art.kind] = live[art.kind] \cup {art.addr}
           /\ \A e \in KindSet : e # art.kind => live'[e] = live[e] /\ \A b \in live[e] : entry'[b] = entry[b]
<1> DEFINE d == art.kind
           x == art.addr
           f == desc[d].first
<1>1. /\ art.step = "link" /\ clock' = clock
      /\ entry' = IF f = 0 THEN entry ELSE [entry EXCEPT ![f].prev = x]
      /\ live' = [live EXCEPT ![d] = @ \cup {x}]
      /\ desc' = [desc EXCEPT ![d].first = x]
      /\ art' = [art EXCEPT !.step = "end"]
    BY DEF Link
<1>2. /\ art' \in [step : {"idle", "link", "unlink", "free", "end"}, kind : KindSet \cup {""}, addr : Places]
      /\ art'.step = "end" /\ art'.kind = d /\ art'.addr = x
      /\ d \in KindSet /\ x \in Addrs /\ x \in Places
    BY <1>1, ArtGoes DEF ProcessInv, Places
<1>3. /\ \A e \in KindSet : x \notin live[e]
      /\ entry[x].next = f /\ entry[x].prev = 0 /\ Times[x] = clock
    BY <1>1, <1>2 DEF ProcessInv, ListsInv
<1>4. /\ live[d] \in SUBSET Addrs /\ Times \in [Addrs -> Nat] /\ Distinct(live[d], Times)
      /\ Newest(live[d], Times, f) /\ 0 \notin Addrs
      /\ \A b \in live[d] : /\ entry[b].next \in Places /\ entry[b].prev \in Places
                            /\ Follows(live[d], Times, b, entry[b].next)
                            /\ Precedes(live[d], Times, b, entry[b].prev)
    BY <1>1, <1>2, ListTimes DEF Relinked, JitOK
<1>5. \A b \in live[d] : Times[b] < Times[x]
    BY <1>1, <1>2, <1>3 DEF ProcessInv, TimesInv, Busy
<1> HIDE DEF d, x, f
<1>6. /\ live'[d] = live[d] \cup {x}
      /\ \A e \in KindSet : e # d => live'[e] = live[e]
      /\ live' \in [KindSet -> SUBSET Addrs]
    BY <1>1, <1>2 DEF ProcessInv, ProcessTypes
<1>7. /\ desc' \in [KindSet -> Descriptors]
      /\ \A e \in KindSet : desc'[e].seq = desc[e].seq /\ desc'[e].time = desc[e].time
      /\ \A e \in KindSet : e # d => desc'[e] = desc[e]
      /\ desc'[d].first = x
    <2>1. ProcessTypes
        BY DEF ProcessInv
    <2>2. d \in KindSet /\ x \in Places /\ desc' = [desc EXCEPT ![d].first = x]
        BY <1>1, <1>2
    <2> QED BY <2>1, <2>2, FirstSet
<1>8. f = 0 \/ f \in live[d]
    BY <1>4 DEF Newest
<1>9. /\ entry' \in [Addrs -> [next : Places, prev : Places, time : Nat, file : Nat]]
      /\ Times' = Times /\ Files' = Files
      /\ \A b \in Addrs : entry'[b].next = entry[b].next
      /\ \A b \in Addrs : b # f => entry'[b] = entry[b]
      /\ f # 0 => entry'[f].prev = x
    <2>1. CASE f = 0
        <3>1. entry' = entry
            BY <1>1, <2>1
        <3> QED BY <2>1, <3>1 DEF ProcessInv, ProcessTypes, Times, Files
    <2>2. CASE f # 0
        <3>1. entry' = [entry EXCEPT ![f].prev = x] /\ f \in Addrs
            BY <1>1, <1>4, <1>8, <2>2
        <3> QED BY <1>2, <3>1, PrevSet DEF ProcessInv
    <2> QED BY <2>1, <2>2
<1>10. ProcessTypes'
    <2>1. ASSUME NEW e \in KindSet
          PROVE  IsFiniteSet(live'[e])
        <3>1. IsFiniteSet(live[e])
            BY DEF ProcessInv, ProcessTypes
        <3> QED BY <1>6, <3>1, FS_AddElement
    <2>2. clock' \in Nat
        BY <1>1 DEF ProcessInv, ProcessTypes
    <2> QED BY <1>2, <1>6, <1>7, <1>9, <2>1, <2>2 DEF ProcessTypes
<1>11. TimesInv'
    BY <1>1, <1>2, <1>3, <1>6, <1>7, <1>9, <1>10, TimesKept DEF d, x
<1>12. /\ Newest(live'[d], Times, x)
       /\ Follows(live'[d], Times, x, f) /\ Precedes(live'[d], Times, x, 0)
       /\ \A b \in live[d], n \in Places : Follows(live[d], Times, b, n) => Follows(live'[d], Times, b, n)
       /\ f # 0 => Precedes(live'[d], Times, f, x)
       /\ \A b \in live[d], q \in Places :
              b # f /\ Precedes(live[d], Times, b, q) => Precedes(live'[d], Times, b, q)
    <2>1. live'[d] = live[d] \cup {x} /\ x \in Addrs
        BY <1>2, <1>6
    <2> QED BY <1>4, <1>5, <2>1, Pushed
<1>13. ASSUME NEW b \in live'[d]
       PROVE  /\ Follows(live'[d], Times, b, entry'[b].next)
              /\ Precedes(live'[d], Times, b, entry'[b].prev)
    <2>1. CASE b = x
        <3>1. entry'[x] = entry[x]
            BY <1>2, <1>3, <1>4, <1>8, <1>9
        <3> QED BY <1>3, <1>12, <2>1, <3>1
    <2>2. CASE b \in live[d]
        <3>1. b # 0 /\ b \in Addrs /\ entry'[b].next = entry[b].next
            BY <1>4, <1>9, <2>2
        <3> QED BY <1>4, <1>9, <1>12, <2>2, <3>1
    <2> QED BY <1>6, <2>1, <2>2
<1>14. ASSUME NEW e \in KindSet, e # d
       PROVE  \A b \in live[e] : entry'[b] = entry[b]
    <2>1. f \notin live[e]
        <3>1. live[e] \in SUBSET Addrs /\ live[d] \cap live[e] = {}
            BY <1>2, <1>14, ListTimes DEF ProcessInv, ListsInv
        <3> QED BY <1>4, <1>8, <3>1
    <2>2. live[e] \subseteq Addrs
        BY ListTimes
    <2> QED BY <1>9, <2>1, <2>2
<1>15. ASSUME NEW e \in KindSet, e # d
       PROVE  /\ Newest(live'[e], Times, desc'[e].first)
              /\ \A b \in live'[e] : /\ Follows(live'[e], Times, b, entry'[b].next)
                                     /\ Precedes(live'[e], Times, b, entry'[b].prev)
    BY <1>1, <1>6, <1>7, <1>14, <1>15, ListTimes DEF Relinked
<1>16. \A e, g \in KindSet : e # g => live'[e] \cap live'[g] = {}
    BY <1>3, <1>6 DEF ProcessInv, ListsInv
<1>17. ListsInv'
    BY <1>2, <1>7, <1>9, <1>12, <1>13, <1>15, <1>16 DEF ListsInv, Relinked
<1>18. desc' = [desc EXCEPT ![art.kind].first = art.addr]
    BY <1>1 DEF d, x
<1> QED BY <1>6, <1>9, <1>10, <1>11, <1>14, <1>17, <1>18 DEF ProcessInv, d, x

\* The entry after the one to be freed points past it.
LEMMA UnlinkKeeps ==
    ASSUME JitOK, ProcessInv, Unlink
    PROVE  /\ ProcessInv' /\ Files' = Files /\ Times' = Times
           /\ \A e \in KindSet : e # art.kind => \A b \in live[e] : entry'[b] = entry[b]
<1> DEFINE d == art.kind
           x == art.addr
           n == entry[x].next
           q == entry[x].prev
<1>1. /\ art.step = "unlink" /\ clock' = clock /\ live' = live /\ desc' = desc
      /\ entry' = IF n = 0 THEN entry ELSE [entry EXCEPT ![n].prev = q]
      /\ art' = [art EXCEPT !.step = "free"]
    BY DEF Unlink
<1>2. /\ art' \in [step : {"idle", "link", "unlink", "free", "end"}, kind : KindSet \cup {""}, addr : Places]
      /\ art'.step = "free" /\ art'.kind = d /\ art'.addr = x
      /\ d \in KindSet /\ x \in Addrs
    BY <1>1, ArtGoes DEF ProcessInv
<1>3. x \in live[d]
    BY <1>1 DEF ProcessInv, ListsInv
<1>4. /\ live[d] \in SUBSET Addrs /\ Times \in [Addrs -> Nat] /\ 0 \notin Addrs
      /\ n \in Places /\ q \in Places
      /\ Follows(live[d], Times, x, n)
    BY <1>1, <1>2, <1>3, ListTimes DEF JitOK
<1>5. \A e \in KindSet : \A b \in live[e] : ~Relinked(e, b)
    BY <1>1 DEF Relinked
<1> HIDE DEF d, x, n, q
<1>6. n # x /\ (n = 0 \/ n \in live[d])
    <2>1. x \in Addrs /\ 0 \notin Addrs /\ Times[x] \in Nat
        BY <1>2, <1>4
    <2>2. Follows(live[d], Times, x, n)
        BY <1>4
    <2> QED BY <2>1, <2>2 DEF Follows
<1>7. /\ entry' \in [Addrs -> [next : Places, prev : Places, time : Nat, file : Nat]]
      /\ Times' = Times /\ Files' = Files
      /\ \A b \in Addrs : entry'[b].next = entry[b].next
      /\ \A b \in Addrs : b # n => entry'[b] = entry[b]
      /\ n # 0 => entry'[n].prev = q
    <2>1. CASE n = 0
        <3>1. entry' = entry
            BY <1>1, <2>1
        <3> QED BY <2>1, <3>1 DEF ProcessInv, ProcessTypes, Times, Files
    <2>2. CASE n # 0
        <3>1. entry' = [entry EXCEPT ![n].prev = q] /\ n \in Addrs
            BY <1>1, <1>4, <1>6, <2>2
        <3> QED BY <1>4, <3>1, PrevSet DEF ProcessInv
    <2> QED BY <2>1, <2>2
<1>8. ProcessTypes'
    <2>1. /\ live' \in [KindSet -> SUBSET Addrs] /\ \A e \in KindSet : IsFiniteSet(live'[e])
          /\ desc' \in [KindSet -> Descriptors] /\ clock' \in Nat
        BY Zenon, <1>1 DEF ProcessInv, ProcessTypes
    <2> QED BY <1>2, <1>7, <2>1 DEF ProcessTypes
<1>9. TimesInv'
    BY <1>1, <1>2, <1>7, <1>8, TimesKept DEF d
<1>10. entry'[x] = entry[x]
    BY <1>2, <1>6, <1>7
<1>11. ASSUME NEW e \in KindSet, NEW b \in live[e]
       PROVE  /\ Follows(live[e], Times, b, entry'[b].next)
              /\ IF e = d /\ b = n THEN entry'[b].prev = q ELSE entry'[b] = entry[b]
    <2>1. b \in Addrs /\ Follows(live[e], Times, b, entry[b].next)
        BY ListTimes
    <2>2. b = n => e = d /\ n # 0
        BY <1>2, <1>4, <1>6, <2>1 DEF ProcessInv, ListsInv
    <2> QED BY <1>7, <2>1, <2>2
<1>12. ASSUME NEW e \in KindSet, NEW b \in live[e]
       PROVE  IF Relinked(e, b)' THEN entry'[b].prev = entry'[x].prev
                                 ELSE Precedes(live[e], Times, b, entry'[b].prev)
    <2>1. Relinked(e, b)' <=> e = d /\ b = n
        BY <1>2, <1>10 DEF Relinked, n
    <2>2. Precedes(live[e], Times, b, entry[b].prev)
        BY <1>5, ListTimes
    <2> QED BY <1>10, <1>11, <2>1, <2>2 DEF q
<1>13. ListsInv'
    BY <1>1, <1>2, <1>3, <1>7, <1>11, <1>12 DEF ProcessInv, ListsInv
<1> QED BY <1>7, <1>8, <1>9, <1>11, <1>13 DEF ProcessInv, d

\* The entry is out of its list.
LEMMA FreeKeeps ==
    ASSUME JitOK, ProcessInv, Free
    PROVE  /\ ProcessInv' /\ Files' = Files /\ Times' = Times
           /\ desc' = desc \/ \E y \in Places : desc' = [desc EXCEPT ![art.kind].first = y]
           /\ live'[art.kind] = live[art.kind] \ {art.addr}
           /\ \A e \in KindSet : e # art.kind => live'[e] = live[e] /\ \A b \in live[e] : entry'[b] = entry[b]
<1> DEFINE d == art.kind
           x == art.addr
           n == entry[x].next
           q == entry[x].prev
<1>1. /\ art.step = "free" /\ clock' = clock
      /\ entry' = IF q = 0 THEN entry ELSE [entry EXCEPT ![q].next = n]
      /\ desc' = IF q = 0 THEN [desc EXCEPT ![d].first = n] ELSE desc
      /\ live' = [live EXCEPT ![d] = @ \ {x}]
      /\ art' = [art EXCEPT !.step = "end"]
    BY DEF Free
<1>2. /\ art' \in [step : {"idle", "link", "unlink", "free", "end"}, kind : KindSet \cup {""}, addr : Places]
      /\ art'.step = "end" /\ art'.kind = d /\ art'.addr = x
      /\ d \in KindSet /\ x \in Addrs
    BY <1>1, ArtGoes DEF ProcessInv
<1>3. x \in live[d]
    BY <1>1 DEF ProcessInv, ListsInv
<1>4. /\ live[d] \in SUBSET Addrs /\ Times \in [Addrs -> Nat] /\ Distinct(live[d], Times)
      /\ Newest(live[d], Times, desc[d].first) /\ 0 \notin Addrs
      /\ \A b \in live[d] : /\ entry[b].next \in Places /\ entry[b].prev \in Places
                            /\ Follows(live[d], Times, b, entry[b].next)
      /\ \A b \in live[d] : b # n => Precedes(live[d], Times, b, entry[b].prev)
    BY <1>1, <1>2, ListTimes DEF Relinked, JitOK
<1>5. n \in live[d] => entry[n].prev = q
    BY <1>1, <1>2 DEF ProcessInv, ListsInv, Relinked
<1>6. /\ n \in Places /\ q \in Places /\ x # n
      /\ Follows(live[d], Times, x, n) /\ Precedes(live[d], Times, x, q)
    <2>1. n \in Places /\ q \in Places /\ Follows(live[d], Times, x, n)
        BY <1>3, <1>4
    <2>2. x \in Addrs /\ 0 \notin Addrs /\ Times[x] \in Nat
        BY <1>2, <1>4
    <2> HIDE DEF n
    <2>3. x # n
        BY <2>1, <2>2 DEF Follows
    <2> QED BY <1>3, <1>4, <2>1, <2>3
<1> HIDE DEF d, x, n, q
<1>7. /\ n # x /\ q # x
      /\ q = 0 => Newest(live[d] \ {x}, Times, n)
      /\ q # 0 => \A f \in Places : Newest(live[d], Times, f) => Newest(live[d] \ {x}, Times, f)
      /\ q # 0 => Follows(live[d] \ {x}, Times, q, n)
      /\ \A b \in live[d] \ {x}, m \in Places :
             b # q /\ Follows(live[d], Times, b, m) => Follows(live[d] \ {x}, Times, b, m)
      /\ n # 0 => Precedes(live[d] \ {x}, Times, n, q)
      /\ \A b \in live[d] \ {x}, m \in Places :
             b # n /\ Precedes(live[d], Times, b, m) => Precedes(live[d] \ {x}, Times, b, m)
    BY <1>3, <1>4, <1>6, TakenOut
<1>8. q = 0 \/ q \in live[d]
    BY <1>6 DEF Precedes
<1>9. /\ live'[d] = live[d] \ {x}
      /\ \A e \in KindSet : e # d => live'[e] = live[e]
      /\ live' \in [KindSet -> SUBSET Addrs]
    BY <1>1, <1>2 DEF ProcessInv, ProcessTypes
<1>10. /\ desc' \in [KindSet -> Descriptors]
       /\ \A e \in KindSet : desc'[e].seq = desc[e].seq /\ desc'[e].time = desc[e].time
       /\ \A e \in KindSet : e # d => desc'[e] = desc[e]
       /\ desc'[d].first = IF q = 0 THEN n ELSE desc[d].first
    <2>1. ProcessTypes
        BY DEF ProcessInv
    <2>2. CASE q = 0
        <3>1. d \in KindSet /\ n \in Places /\ desc' = [desc EXCEPT ![d].first = n]
            BY <1>1, <1>2, <1>6, <2>2
        <3>2. /\ desc' \in [KindSet -> Descriptors]
              /\ \A e \in KindSet : desc'[e].seq = desc[e].seq /\ desc'[e].time = desc[e].time
              /\ \A e \in KindSet : e # d => desc'[e] = desc[e]
              /\ desc'[d].first = n
            BY <2>1, <3>1, FirstSet
        <3> QED BY <2>2, <3>2
    <2>3. CASE q # 0
        <3>1. desc' = desc
            BY <1>1, <2>3
        <3> QED BY <2>1, <2>3, <3>1 DEF ProcessTypes
    <2> QED BY <2>2, <2>3
<1>11. /\ entry' \in [Addrs -> [next : Places, prev : Places, time : Nat, file : Nat]]
       /\ Times' = Times /\ Files' = Files
       /\ \A b \in Addrs : entry'[b].prev = entry[b].prev
       /\ \A b \in Addrs : b # q => entry'[b] = entry[b]
       /\ q # 0 => entry'[q].next = n
    <2>1. CASE q = 0
        <3>1. entry' = entry
            BY <1>1, <2>1
        <3> QED BY <2>1, <3>1 DEF ProcessInv, ProcessTypes, Times, Files
    <2>2. CASE q # 0
        <3>1. entry' = [entry EXCEPT ![q].next = n] /\ q \in Addrs
            BY <1>1, <1>4, <1>8, <2>2
        <3> QED BY <1>6, <3>1, NextSet DEF ProcessInv
    <2> QED BY <2>1, <2>2
<1>12. ProcessTypes'
    <2>1. ASSUME NEW e \in KindSet
          PROVE  IsFiniteSet(live'[e])
        <3>1. IsFiniteSet(live[e])
            BY DEF ProcessInv, ProcessTypes
        <3>2. live'[e] \subseteq live[e]
            BY <1>9
        <3> QED BY <3>1, <3>2, FS_Subset
    <2>2. clock' \in Nat
        BY <1>1 DEF ProcessInv, ProcessTypes
    <2> QED BY <1>2, <1>9, <1>10, <1>11, <2>1, <2>2 DEF ProcessTypes
<1>13. TimesInv'
    <2>1. live'[d] \subseteq live[d]
        BY <1>9
    <2> QED BY <1>1, <1>2, <1>9, <1>10, <1>11, <1>12, <2>1, TimesKept DEF d
<1>14. Newest(live[d] \ {x}, Times, desc'[d].first)
    <2>1. desc[d].first \in Places
        BY <1>2 DEF ProcessInv, ProcessTypes, Descriptors
    <2> QED BY <1>4, <1>7, <1>10, <2>1
<1>15. ASSUME NEW b \in live[d] \ {x}
       PROVE  /\ Follows(live[d] \ {x}, Times, b, entry'[b].next)
              /\ Precedes(live[d] \ {x}, Times, b, entry'[b].prev)
    <2>1. b \in Addrs /\ b # 0 /\ entry'[b].prev = entry[b].prev
        BY <1>4, <1>11
    <2>2. Follows(live[d] \ {x}, Times, b, entry'[b].next)
        <3>1. CASE b = q
            BY <1>7, <1>11, <2>1, <3>1
        <3>2. CASE b # q
            BY <1>4, <1>7, <1>11, <2>1, <3>2
        <3> QED BY <3>1, <3>2
    <2>3. Precedes(live[d] \ {x}, Times, b, entry[b].prev)
        <3>1. CASE b = n
            BY <1>5, <1>7, <2>1, <3>1
        <3>2. CASE b # n
            BY <1>4, <1>7, <3>2
        <3> QED BY <3>1, <3>2
    <2> QED BY <2>1, <2>2, <2>3
<1>16. ASSUME NEW e \in KindSet, e # d
       PROVE  \A b \in live[e] : entry'[b] = entry[b]
    <2>1. live[e] \in SUBSET Addrs /\ live[d] \cap live[e] = {}
        BY <1>2, <1>16, ListTimes DEF ProcessInv, ListsInv
    <2>2. q \notin live[e]
        BY <1>4, <1>8, <2>1
    <2> QED BY <1>11, <2>1, <2>2
<1>17. ASSUME NEW e \in KindSet, e # d
       PROVE  /\ Newest(live'[e], Times, desc'[e].first)
              /\ \A b \in live'[e] : /\ Follows(live'[e], Times, b, entry'[b].next)
                                     /\ Precedes(live'[e], Times, b, entry'[b].prev)
    <2>1. \A b \in live[e] : ~Relinked(e, b)
        BY <1>17 DEF Relinked, d
    <2> QED BY <1>9, <1>10, <1>16, <1>17, <2>1, ListTimes
<1>18. \A e, g \in KindSet : e # g => live'[e] \cap live'[g] = {}
    BY <1>9 DEF ProcessInv, ListsInv
<1>19. ASSUME NEW e \in KindSet
       PROVE  /\ Newest(live'[e], Times, desc'[e].first)
              /\ \A b \in live'[e] : /\ Follows(live'[e], Times, b, entry'[b].next)
                                     /\ Precedes(live'[e], Times, b, entry'[b].prev)
    <2>1. CASE e = d
        <3>1. live'[d] = live[d] \ {x}
            BY <1>9
        <3> QED BY Zenon, <1>14, <1>15, <2>1, <3>1
    <2> QED BY <1>17, <2>1
<1>20. ListsInv'
    BY <1>2, <1>11, <1>18, <1>19 DEF ListsInv, Relinked
<1>21. desc' = desc \/ \E y \in Places : desc' = [desc EXCEPT ![art.kind].first = y]
    BY <1>1, <1>6 DEF d
<1> QED BY <1>9, <1>11, <1>12, <1>13, <1>16, <1>20, <1>21 DEF ProcessInv, d, x

\* The change ends.
LEMMA EndKeeps ==
    ASSUME JitOK, ProcessInv, End
    PROVE  /\ ProcessInv' /\ Files' = Files /\ Times' = Times
           /\ desc'[art.kind].seq = desc[art.kind].seq + 1 /\ desc'[art.kind].time = clock
           /\ \A e \in KindSet : e # art.kind => desc'[e] = desc[e]
<1> DEFINE d == art.kind
<1>1. /\ art.step = "end" /\ clock' = clock /\ live' = live /\ entry' = entry
      /\ desc' = [desc EXCEPT ![d].time = clock, ![d].seq = @ + 1]
      /\ art' = Idle
    BY DEF End
<1>2. d \in KindSet /\ desc[d] \in Descriptors /\ clock \in Nat
    BY <1>1 DEF ProcessInv, ProcessTypes
<1> HIDE DEF d
<1>3. /\ desc'[d] = [desc[d] EXCEPT !.time = clock, !.seq = @ + 1]
      /\ \A e \in KindSet : e # d => desc'[e] = desc[e]
      /\ DOMAIN desc' = KindSet
    BY <1>1, <1>2 DEF ProcessInv, ProcessTypes
<1>4. /\ desc'[d] \in Descriptors
      /\ desc'[d].first = desc[d].first /\ desc'[d].seq = desc[d].seq + 1 /\ desc'[d].time = clock
    <2> DEFINE was == desc[d]
               timed == [was EXCEPT !.time = clock]
    <2>1. /\ timed \in Descriptors /\ timed.time = clock
          /\ timed.first = was.first /\ timed.seq = was.seq /\ was.seq \in Nat
        BY <1>2 DEF Descriptors
    <2>2. desc'[d] = [timed EXCEPT !.seq = was.seq + 1]
        BY <1>3
    <2> HIDE DEF timed, was
    <2>3. desc'[d].first = timed.first /\ desc'[d].seq = was.seq + 1 /\ desc'[d].time = timed.time
        BY <2>1, <2>2 DEF Descriptors
    <2>4. desc'[d] \in Descriptors
        BY <2>1, <2>2 DEF Descriptors
    <2> QED BY <2>1, <2>3, <2>4 DEF was
<1>5. desc' \in [KindSet -> Descriptors]
    BY <1>1, <1>3, <1>4 DEF ProcessInv, ProcessTypes
<1>6. art'.step = "idle" /\ art' = Idle
    BY <1>1 DEF Idle
<1>7. ProcessTypes'
    <2>1. /\ live' \in [KindSet -> SUBSET Addrs] /\ \A e \in KindSet : IsFiniteSet(live'[e])
          /\ entry' \in [Addrs -> [next : Places, prev : Places, time : Nat, file : Nat]] /\ clock' \in Nat
        BY Zenon, <1>1 DEF ProcessInv, ProcessTypes
    <2>2. art' \in [step : {"idle", "link", "unlink", "free", "end"}, kind : KindSet \cup {""}, addr : Places]
        BY <1>1 DEF Idle, Places
    <2> QED BY <1>5, <1>6, <2>1, <2>2 DEF ProcessTypes
<1>8. Times' = Times /\ Files' = Files
    BY <1>1 DEF Times, Files
<1>9. TimesInv'
    <2> SUFFICES ASSUME NEW e \in KindSet
                 PROVE  /\ desc'[e].seq % 2 # 1
                        /\ desc'[e].time <= clock
                        /\ \A b \in live[e] : Times[b] <= clock /\ Times[b] <= desc'[e].time
                        /\ Distinct(live[e], Times)
        BY <1>1, <1>6, <1>8 DEF TimesInv, Busy
    <2>1. /\ Busy(e) <=> desc[e].seq % 2 = 1
          /\ desc[e].time <= clock
          /\ \A b \in live[e] : Times[b] <= clock
          /\ ~Busy(e) => \A b \in live[e] : Times[b] <= desc[e].time
          /\ Distinct(live[e], Times)
        BY DEF ProcessInv, TimesInv
    <2>2. Busy(e) <=> e = d
        BY <1>1 DEF Busy, d
    <2>3. CASE e = d
        <3>1. desc[d].seq \in Nat
            BY <1>2 DEF Descriptors
        <3>2. desc'[d].seq % 2 # 1
            BY <1>4, <2>1, <2>2, <2>3, <3>1, Alternates
        <3> QED BY <1>2, <1>4, <2>1, <2>3, <3>2
    <2>4. CASE e # d
        BY <1>3, <2>1, <2>2, <2>4
    <2> QED BY <2>3, <2>4
<1>10. ListsInv'
    <2>1. ASSUME NEW e \in KindSet
          PROVE  /\ Newest(live[e], Times, desc'[e].first)
                 /\ \A b \in live[e] : /\ Follows(live[e], Times, b, entry[b].next)
                                       /\ Precedes(live[e], Times, b, entry[b].prev)
        <3>1. desc'[e].first = desc[e].first
            BY <1>3, <1>4
        <3>2. \A b \in live[e] : ~Relinked(e, b)
            BY <1>1 DEF Relinked
        <3> QED BY <3>1, <3>2, ListTimes
    <2>2. \A e, g \in KindSet : e # g => live[e] \cap live[g] = {}
        BY DEF ProcessInv, ListsInv
    <2> QED BY <1>1, <1>6, <1>8, <2>1, <2>2 DEF ListsInv, Relinked
<1> QED BY <1>3, <1>4, <1>7, <1>8, <1>9, <1>10 DEF ProcessInv, d

-----------------------------------------------------------------------------
(* What ART does to the reader. *)

ArtStep == (\E d \in KindSet, a \in Addrs : Register(d, a) \/ Unregister(d, a)) \/ Link \/ Unlink \/ Free \/ End

\* The list of d is as it was.
SameList(d) ==
    /\ desc'[d] = desc[d] /\ live'[d] = live[d]
    /\ \A b \in live[d] : Times'[b] = Times[b] /\ Files'[b] = Files[b]

\* A list is as it was, or its seqlock is odd or has changed; an entry that was
\* not in it is newer than its timestamp.
ArtShape ==
    /\ UNCHANGED reader /\ Runs /\ since \subseteq since'
    /\ \A d \in KindSet : desc'[d].seq >= desc[d].seq /\ desc'[d].time >= desc[d].time
    /\ \A d \in KindSet : SameList(d) \/ desc'[d].seq > desc[d].seq \/ desc'[d].seq % 2 = 1
    /\ \A d \in KindSet : \A a \in live'[d] :
           \/ a \in live[d] /\ Times'[a] = Times[a] /\ Files'[a] = Files[a]
           \/ Files'[a] \in since' /\ Times'[a] > desc[d].time

\* The descriptors hold numbers.
LEMMA DescriptorNumbers ==
    ASSUME ProcessTypes
    PROVE  \A d \in KindSet : desc[d].seq \in Nat /\ desc[d].time \in Nat
BY DEF ProcessTypes, Descriptors

\* A change begins.
LEMMA BeginsOutside ==
    ASSUME JitOK, ProcessInv, NEW d \in KindSet, NEW a \in Addrs, Register(d, a) \/ Unregister(d, a)
    PROVE  ProcessInv' /\ ArtShape
<1>1. ProcessInv'
    BY RegisterKeeps, UnregisterKeeps
<1>2. live' = live /\ since' = since /\ \A e \in KindSet : \A b \in live[e] : entry'[b] = entry[b]
    <2>1. CASE Register(d, a)
        BY <2>1, RegisterKeeps DEF Register
    <2>2. CASE Unregister(d, a)
        BY <2>2 DEF Unregister
    <2> QED BY <2>1, <2>2
<1>3. \A e \in KindSet : \A b \in live[e] : Times'[b] = Times[b] /\ Files'[b] = Files[b]
    BY <1>2, ListTimes DEF Times, Files
<1>4. \E step \in {"link", "unlink"} : Begin(d, step, a)
    BY DEF Register, Unregister
<1>5. /\ desc'[d].seq = desc[d].seq + 1 /\ desc'[d].time = desc[d].time
      /\ \A e \in KindSet : e # d => desc'[e] = desc[e]
      /\ Runs /\ UNCHANGED reader
    BY <1>4, BeginShape DEF ProcessInv
<1>6. \A e \in KindSet : desc[e].seq \in Nat /\ desc[e].time \in Nat
    BY DescriptorNumbers DEF ProcessInv
<1>7. \A e \in KindSet : desc'[e].seq >= desc[e].seq /\ desc'[e].time >= desc[e].time
    BY <1>5, <1>6
<1>8. \A e \in KindSet : SameList(e) \/ desc'[e].seq > desc[e].seq
    BY <1>2, <1>3, <1>5, <1>6 DEF SameList
<1> QED BY <1>1, <1>2, <1>3, <1>5, <1>7, <1>8 DEF ArtShape

\* While a list is changed its seqlock stays odd.
LEMMA OddWhileBusy ==
    ASSUME ProcessInv, art.step # "idle"
    PROVE  /\ art.kind \in KindSet /\ art.addr \in Addrs
           /\ desc[art.kind].seq % 2 = 1 /\ desc[art.kind].time < clock
<1>1. art.kind \in KindSet /\ art.addr \in Addrs
    BY DEF ProcessInv, ProcessTypes
<1> QED BY <1>1 DEF ProcessInv, TimesInv, Busy

\* An entry is linked.
LEMMA LinksOutside ==
    ASSUME JitOK, ProcessInv, Link
    PROVE  ProcessInv' /\ ArtShape
<1> DEFINE d == art.kind
           x == art.addr
<1>1. /\ ProcessInv' /\ Files' = Files /\ Times' = Times
      /\ desc' = [desc EXCEPT ![d].first = x]
      /\ live'[d] = live[d] \cup {x}
      /\ \A e \in KindSet : e # d => live'[e] = live[e]
    BY LinkKeeps
<1>2. art.step = "link" /\ since' = since \cup {entry[x].file} /\ Runs /\ UNCHANGED reader
    BY DEF Link
<1>3. d \in KindSet /\ x \in Addrs /\ desc[d].seq % 2 = 1 /\ desc[d].time < clock
    BY <1>2, OddWhileBusy
<1>4. Times[x] = clock
    BY <1>2 DEF ProcessInv, ListsInv
<1> HIDE DEF d, x
<1>5. /\ \A e \in KindSet : desc'[e].seq = desc[e].seq /\ desc'[e].time = desc[e].time
      /\ \A e \in KindSet : e # d => desc'[e] = desc[e]
    <2>1. ProcessTypes /\ x \in Places
        BY <1>3 DEF ProcessInv, Places
    <2> QED BY <1>1, <1>3, <2>1, FirstSet
<1>6. \A e \in KindSet : desc[e].seq \in Nat /\ desc[e].time \in Nat
    BY DescriptorNumbers DEF ProcessInv
<1>7. \A e \in KindSet : desc'[e].seq >= desc[e].seq /\ desc'[e].time >= desc[e].time
    BY <1>5, <1>6
<1>8. \A e \in KindSet : SameList(e) \/ desc'[e].seq % 2 = 1
    BY <1>1, <1>3, <1>5 DEF SameList
<1>9. Files[x] \in since' /\ clock \in Nat
    BY <1>2, <1>3 DEF Files, ProcessInv, ProcessTypes
<1>10. ASSUME NEW e \in KindSet, NEW a \in live'[e]
       PROVE  a \in live[e] \/ (Files[a] \in since' /\ Times[a] > desc[e].time)
    <2>1. a \in live[e] \/ (e = d /\ a = x)
        BY <1>1
    <2>2. CASE e = d /\ a = x
        BY <1>3, <1>4, <1>6, <1>9, <2>2
    <2> QED BY <2>1, <2>2
<1> QED BY <1>1, <1>2, <1>7, <1>8, <1>10 DEF ArtShape

\* An entry is unlinked and freed.
LEMMA FreesOutside ==
    ASSUME JitOK, ProcessInv, Unlink \/ Free
    PROVE  ProcessInv' /\ ArtShape
<1> DEFINE d == art.kind
<1>1. art.step \in {"unlink", "free"} /\ since' = since /\ Runs /\ UNCHANGED reader
    BY DEF Unlink, Free
<1>2. d \in KindSet /\ desc[d].seq % 2 = 1
    BY <1>1, OddWhileBusy
<1>3. /\ ProcessInv' /\ Files' = Files /\ Times' = Times
      /\ desc' = desc \/ \E y \in Places : desc' = [desc EXCEPT ![d].first = y]
      /\ \A e \in KindSet : live'[e] \subseteq live[e] /\ (e # d => live'[e] = live[e])
    <2>1. CASE Unlink
        BY <2>1, UnlinkKeeps DEF Unlink
    <2>2. CASE Free
        BY <2>2, FreeKeeps
    <2> QED BY <2>1, <2>2
<1> HIDE DEF d
<1>4. /\ \A e \in KindSet : desc'[e].seq = desc[e].seq /\ desc'[e].time = desc[e].time
      /\ \A e \in KindSet : e # d => desc'[e] = desc[e]
    <2>1. ProcessTypes
        BY DEF ProcessInv
    <2>2. CASE desc' = desc
        BY <2>2
    <2>3. CASE \E y \in Places : desc' = [desc EXCEPT ![d].first = y]
        BY <1>2, <2>1, <2>3, FirstSet
    <2> QED BY <1>3, <2>2, <2>3
<1>5. \A e \in KindSet : desc[e].seq \in Nat /\ desc[e].time \in Nat
    BY DescriptorNumbers DEF ProcessInv
<1>6. \A e \in KindSet : desc'[e].seq >= desc[e].seq /\ desc'[e].time >= desc[e].time
    BY <1>4, <1>5
<1>7. \A e \in KindSet : SameList(e) \/ desc'[e].seq % 2 = 1
    BY <1>2, <1>3, <1>4 DEF SameList
<1> QED BY <1>1, <1>3, <1>6, <1>7 DEF ArtShape

\* The change ends.
LEMMA EndsOutside ==
    ASSUME JitOK, ProcessInv, End
    PROVE  ProcessInv' /\ ArtShape
<1> DEFINE d == art.kind
<1>1. art.step = "end" /\ since' = since /\ live' = live /\ Runs /\ UNCHANGED reader
    BY DEF End
<1>2. d \in KindSet /\ desc[d].time < clock
    BY <1>1, OddWhileBusy
<1>3. /\ ProcessInv' /\ Files' = Files /\ Times' = Times
      /\ desc'[d].seq = desc[d].seq + 1 /\ desc'[d].time = clock
      /\ \A e \in KindSet : e # d => desc'[e] = desc[e]
    BY EndKeeps
<1> HIDE DEF d
<1>4. clock \in Nat /\ \A e \in KindSet : desc[e].seq \in Nat /\ desc[e].time \in Nat
    BY DescriptorNumbers DEF ProcessInv, ProcessTypes
<1>5. \A e \in KindSet : desc'[e].seq >= desc[e].seq /\ desc'[e].time >= desc[e].time
    BY <1>2, <1>3, <1>4
<1>6. \A e \in KindSet : SameList(e) \/ desc'[e].seq > desc[e].seq
    BY <1>1, <1>2, <1>3, <1>4 DEF SameList
<1> QED BY <1>1, <1>3, <1>5, <1>6 DEF ArtShape

\* Lists that are alike are read alike.
LEMMA ReadAlike ==
    ASSUME NEW L, NEW T, NEW U, NEW F, NEW G, NEW t, NEW found, NEW fs, NEW at,
           \A b \in L : T[b] = U[b] /\ F[b] = G[b]
    PROVE  /\ Fresh(L, T, t) = Fresh(L, U, t)
           /\ Walked(L, T, t, found) => Walked(L, U, t, found)
           /\ Newest(L \ Range(found), T, at) => Newest(L \ Range(found), U, at)
           /\ Covered(L, T, F, t, found, fs) => Covered(L, U, G, t, found, fs)
<1>1. Fresh(L, T, t) = Fresh(L, U, t)
    BY DEF Fresh
<1>2. Walked(L, T, t, found) => Walked(L, U, t, found)
    <2> SUFFICES ASSUME Walked(L, T, t, found) PROVE Walked(L, U, t, found)
        OBVIOUS
    <2>1. Range(found) \subseteq L
        BY DEF Walked, Fresh
    <2> QED BY <1>1, <2>1 DEF Walked
<1>3. Newest(L \ Range(found), T, at) => Newest(L \ Range(found), U, at)
    BY DEF Newest
<1>4. ASSUME NEW a \in L PROVE Crowded(L, T, t, a) <=> Crowded(L, U, t, a)
    <2>1. {b \in Fresh(L, T, t) : T[b] > T[a]} = {b \in Fresh(L, U, t) : U[b] > U[a]}
        BY DEF Fresh
    <2> QED BY <2>1 DEF Crowded
<1>5. Covered(L, T, F, t, found, fs) => Covered(L, U, G, t, found, fs)
    <2> SUFFICES ASSUME Covered(L, T, F, t, found, fs) PROVE Covered(L, U, G, t, found, fs)
        OBVIOUS
    <2>1. \A a \in Fresh(L, U, t) : a \in L
        BY DEF Fresh
    <2> QED BY <1>1, <1>4, <2>1 DEF Covered
<1> QED BY <1>1, <1>2, <1>3, <1>5

\* What ART does while the reader reads: an unchanged list is as it was.
LEMMA ArtKeeps ==
    ASSUME JitOK, JitInv, ProcessInv', ArtShape
    PROVE  JitInv'
<1>1. UNCHANGED <<last, new, pc, k, walk, files, given>> /\ pc # "descriptors" /\ since \subseteq since'
    BY DEF ArtShape, reader, Runs, JitOK
<1>2. ReaderTypes'
    BY <1>1 DEF JitInv, ReaderTypes
<1>3. \A d \in KindSet : /\ desc[d].seq \in Nat /\ desc[d].time \in Nat
                         /\ desc'[d].seq \in Nat /\ desc'[d].time \in Nat
    BY DescriptorNumbers DEF JitInv, ProcessInv, ProcessTypes, Descriptors
<1>4. \A d \in KindSet : /\ last[d].time \in Nat /\ new[d].seq \in Nat /\ new[d].time \in Nat
    BY DEF JitInv, ReaderTypes, Descriptors
<1>5. ASSUME NEW d \in KindSet, new[d].seq <= desc[d].seq, new[d].seq = desc'[d].seq, new[d].seq % 2 = 0
      PROVE  SameList(d)
    BY <1>3, <1>4, <1>5 DEF ArtShape
<1>6. SnapshotInv'
    <2>1. \A d \in KindSet : last[d].time <= desc'[d].time
        BY <1>3, <1>4 DEF ArtShape, JitInv, SnapshotInv
    <2>2. ASSUME pc \notin {"idle", "descriptors"}, NEW d \in KindSet
          PROVE  /\ new[d].seq <= desc'[d].seq /\ new[d].time <= desc'[d].time
                 /\ new[d].seq = desc'[d].seq /\ new[d].seq % 2 = 0 => new[d] = desc'[d]
        <3>1. /\ new[d].seq <= desc[d].seq /\ new[d].time <= desc[d].time
              /\ new[d].seq = desc[d].seq /\ new[d].seq % 2 = 0 => new[d] = desc[d]
            BY <2>2 DEF JitInv, SnapshotInv
        <3>2. desc'[d].seq >= desc[d].seq /\ desc'[d].time >= desc[d].time
            BY DEF ArtShape
        <3> QED BY <1>3, <1>4, <1>5, <3>1, <3>2 DEF SameList
    <2> QED BY <1>1, <2>1, <2>2 DEF SnapshotInv
<1>7. ReadInv'
    <2>1. ASSUME pc \in {"entries", "check", "symfiles"}, Unchanged'
          PROVE  ListRead(live[Kinds[k]], Times, Files, last[Kinds[k]].time)'
        <3>1. PICK d \in KindSet : d = Kinds[k]
            BY <2>1 DEF JitInv, ReaderTypes, JitOK
        <3>2. new[d].seq % 2 = 0 /\ desc'[d].seq = new[d].seq /\ new[d].seq <= desc[d].seq
            BY <1>1, <2>1, <3>1 DEF JitInv, ReadInv, SnapshotInv, Unchanged
        <3>3. SameList(d)
            BY <1>5, <3>1, <3>2
        <3>4. ListRead(live[d], Times, Files, last[d].time)
            <4>1. Unchanged
                BY <3>1, <3>2, <3>3 DEF Unchanged, SameList
            <4> QED BY <2>1, <3>1, <4>1 DEF JitInv, ReadInv
        <3>5. /\ Fresh(live[d], Times, last[d].time) = Fresh(live[d], Times', last[d].time)
              /\ Walked(live[d], Times, last[d].time, walk.found) => Walked(live[d], Times', last[d].time, walk.found)
              /\ Newest(live[d] \ Range(walk.found), Times, walk.at) =>
                     Newest(live[d] \ Range(walk.found), Times', walk.at)
              /\ \A fs : Covered(live[d], Times, Files, last[d].time, walk.found, fs) =>
                           Covered(live[d], Times', Files', last[d].time, walk.found, fs)
            BY <3>3, ReadAlike DEF SameList
        <3>6. ListRead(live[d], Times, Files, last[d].time)'
            <4>1. live'[d] = live[d] /\ last'[d].time = last[d].time
                BY <1>1, <3>3 DEF SameList
            <4>2. /\ pc = "entries" => Walked(live[d], Times', last[d].time, walk.found)
                                        /\ Newest(live[d] \ Range(walk.found), Times', walk.at)
                  /\ pc = "check" => Covered(live[d], Times', Files', last[d].time, walk.found, {})
                                      /\ (walk.found = <<>> => Fresh(live[d], Times', last[d].time) = {})
                  /\ pc = "symfiles" => Covered(live[d], Times', Files', last[d].time, walk.found, files)
                                         /\ files \subseteq since'
                BY <1>1, <3>4, <3>5 DEF ListRead
            <4> QED BY <1>1, <4>1, <4>2 DEF ListRead
        <3> QED BY <1>1, <3>1, <3>6
    <2>2. ASSUME NEW d \in KindSet, NEW a \in live'[d]
          PROVE  /\ Files'[a] \in since'
                 /\ Times'[a] <= last[d].time => Files'[a] \in given
        <3>1. CASE a \in live[d] /\ Times'[a] = Times[a] /\ Files'[a] = Files[a]
            BY <1>1, <3>1 DEF JitInv, ReadInv
        <3>2. CASE Files'[a] \in since' /\ Times'[a] > desc[d].time
            <4>1. Times'[a] \in Nat
                BY ListTimes DEF ProcessInv, ProcessTypes, Times
            <4> QED BY <1>3, <1>4, <3>2, <4>1 DEF JitInv, SnapshotInv
        <3> QED BY <3>1, <3>2 DEF ArtShape
    <2>3. pc \in {"entries", "check", "symfiles"} => new[Kinds[k]].seq % 2 = 0
        BY DEF JitInv, ReadInv
    <2>4. /\ pc \in {"descriptors", "entries", "check"} => files = {}
          /\ pc \in {"idle", "update"} => files \subseteq since'
        BY <1>1 DEF JitInv, ReadInv
    <2> QED BY <1>1, <2>1, <2>2, <2>3, <2>4 DEF ReadInv
<1> QED BY <1>2, <1>6, <1>7 DEF JitInv

-----------------------------------------------------------------------------
(* The reader. *)

\* A step of the reader changes nothing in the process.
LEMMA ProcessUntouched ==
    ASSUME ProcessInv, UNCHANGED process
    PROVE  ProcessInv' /\ Times' = Times /\ Files' = Files
<1>1. UNCHANGED <<desc, entry, live, art, clock>>
    BY DEF process
<1>2. Times' = Times /\ Files' = Files
    BY <1>1 DEF Times, Files
<1>3. ProcessTypes'
    BY Zenon, <1>1 DEF ProcessInv, ProcessTypes
<1>4. TimesInv'
    BY Zenon, <1>1, <1>2 DEF ProcessInv, TimesInv, Busy
<1>5. ListsInv'
    BY Zenon, <1>1, <1>2 DEF ProcessInv, ListsInv, Relinked
<1> QED BY <1>2, <1>3, <1>4, <1>5 DEF ProcessInv

\* The set of what is in a sequence.
LEMMA SetOfSeq ==
    ASSUME NEW s \in Seq(Addrs)
    PROVE  /\ Range(<<>>) = {}
           /\ \A x \in Addrs : Range(Append(s, x)) = Range(s) \cup {x}
           /\ s # <<>> => Range(s) = {Head(s)} \cup Range(Tail(s))
<1>1. Range(<<>>) = {}
    BY DEF Range
<1>2. ASSUME NEW x \in Addrs PROVE Range(Append(s, x)) = Range(s) \cup {x}
    <2>1. /\ Append(s, x) \in Seq(Addrs) /\ DOMAIN Append(s, x) = 1 .. Len(s) + 1
          /\ Append(s, x)[Len(s) + 1] = x
          /\ \A i \in 1 .. Len(s) : Append(s, x)[i] = s[i]
        OBVIOUS
    <2>2. DOMAIN s = 1 .. Len(s) /\ Len(s) \in Nat
        OBVIOUS
    <2>3. ASSUME NEW y \in Range(Append(s, x)) PROVE y \in Range(s) \cup {x}
        BY <2>1, <2>2 DEF Range
    <2>4. ASSUME NEW y \in Range(s) PROVE y \in Range(Append(s, x))
        <3>1. PICK i \in 1 .. Len(s) : y = s[i]
            BY <2>2 DEF Range
        <3>2. i \in DOMAIN Append(s, x) /\ y = Append(s, x)[i]
            BY <2>1, <2>2, <3>1
        <3> QED BY <3>2 DEF Range
    <2>5. x \in Range(Append(s, x))
        BY <2>1, <2>2 DEF Range
    <2> QED BY <2>3, <2>4, <2>5
<1>3. s # <<>> => Range(s) = {Head(s)} \cup Range(Tail(s))
    <2> SUFFICES ASSUME s # <<>> PROVE Range(s) = {Head(s)} \cup Range(Tail(s))
        OBVIOUS
    <2>1. Head(s) = s[1] /\ Len(s) >= 1
        OBVIOUS
    <2>2. \A i \in 1 .. Len(s) - 1 : Tail(s)[i] = s[i + 1]
        OBVIOUS
    <2>3. Len(Tail(s)) = Len(s) - 1 /\ Tail(s) \in Seq(Addrs)
        BY <2>1
    <2>4. ASSUME NEW y \in Range(s) PROVE y = Head(s) \/ y \in Range(Tail(s))
        <3>1. PICK i \in 1 .. Len(s) : y = s[i]
            BY DEF Range
        <3>2. CASE i = 1
            BY <2>1, <3>1, <3>2
        <3>3. CASE i # 1
            <4>1. i - 1 \in 1 .. Len(s) - 1 /\ Tail(s)[i - 1] = y
                BY <2>2, <3>1, <3>3
            <4>2. DOMAIN Tail(s) = 1 .. Len(s) - 1
                BY <2>3
            <4> QED BY <4>1, <4>2 DEF Range
        <3> QED BY <3>2, <3>3
    <2>5. ASSUME NEW y \in Range(Tail(s)) PROVE y \in Range(s)
        <3>1. PICK i \in 1 .. Len(s) - 1 : y = Tail(s)[i]
            BY <2>3 DEF Range
        <3>2. i + 1 \in 1 .. Len(s) /\ s[i + 1] = y
            BY <2>2, <3>1
        <3> QED BY <3>2 DEF Range
    <2>6. Head(s) \in Range(s)
        BY <2>1 DEF Range
    <2> QED BY <2>4, <2>5, <2>6
<1> QED BY <1>1, <1>2, <1>3

\* ReadUpdate begins with the first entries.
LEMMA ReadUpdateKeeps ==
    ASSUME JitOK, JitInv, ReadUpdate
    PROVE  JitInv'
<1>1. /\ new' = [d \in KindSet |-> [NoDescriptor EXCEPT !.first = desc[d].first]]
      /\ since' = UNION {FilesOf(d) : d \in KindSet}
      /\ pc' = "descriptors" /\ files' = {}
      /\ UNCHANGED <<process, last, k, walk, given>>
    BY DEF ReadUpdate
<1>2. ProcessInv' /\ Times' = Times /\ Files' = Files /\ live' = live /\ desc' = desc
    BY <1>1, ProcessUntouched DEF JitInv, process
<1>3. \A d \in KindSet : new'[d] \in Descriptors /\ new'[d].first = desc[d].first
    <2>1. \A d \in KindSet : desc[d].first \in Places
        BY DEF JitInv, ProcessInv, ProcessTypes, Descriptors
    <2>2. \A d \in KindSet : new'[d] = [first |-> desc[d].first, seq |-> 0, time |-> 0]
        BY <1>1 DEF NoDescriptor
    <2> SUFFICES ASSUME NEW d \in KindSet PROVE new'[d] \in Descriptors /\ new'[d].first = desc[d].first
        OBVIOUS
    <2>3. [first |-> desc[d].first, seq |-> 0, time |-> 0] \in Descriptors
        BY <2>1 DEF Descriptors
    <2> QED BY <2>2, <2>3
<1>4. ReaderTypes'
    <2>1. new' \in [KindSet -> Descriptors]
        BY <1>1, <1>3
    <2> QED BY <1>1, <2>1 DEF JitInv, ReaderTypes
<1>5. SnapshotInv'
    BY <1>1, <1>2, <1>3 DEF JitInv, SnapshotInv
<1>6. \A d \in KindSet : \A a \in live[d] : Files[a] \in since'
    <2> SUFFICES ASSUME NEW d \in KindSet, NEW a \in live[d] PROVE Files[a] \in since'
        OBVIOUS
    <2>1. Files[a] = entry[a].file
        BY ListTimes DEF JitInv, Files
    <2>2. entry[a].file \in FilesOf(d)
        BY DEF FilesOf
    <2> QED BY <1>1, <2>1, <2>2
<1>7. ReadInv'
    BY <1>1, <1>2, <1>6 DEF JitInv, ReadInv
<1> QED BY <1>2, <1>4, <1>5, <1>7 DEF JitInv

\* The seqlocks and the timestamps are those of the first entries.
LEMMA ReadDescriptorsKeeps ==
    ASSUME JitOK, JitInv, ReadDescriptors
    PROVE  JitInv'
<1>1. /\ pc = "descriptors"
      /\ new' = [d \in KindSet |-> [desc[d] EXCEPT !.first = new[d].first]]
      /\ k' = 1
      /\ pc' = IF \A d \in KindSet : desc[d].seq = last[d].seq THEN "idle" ELSE "update"
      /\ UNCHANGED <<process, last, walk, files, since, given>>
    BY DEF ReadDescriptors
<1>2. ProcessInv' /\ Times' = Times /\ Files' = Files /\ live' = live /\ desc' = desc
    BY <1>1, ProcessUntouched DEF JitInv, process
<1>3. ASSUME NEW d \in KindSet PROVE new'[d] = desc[d]
    <2>1. new[d].first = desc[d].first /\ desc[d] \in Descriptors
        BY <1>1 DEF JitInv, SnapshotInv, ProcessInv, ProcessTypes
    <2>2. new'[d] = [desc[d] EXCEPT !.first = desc[d].first]
        BY <1>1, <2>1
    <2> QED BY <2>1, <2>2 DEF Descriptors
<1>4. ReaderTypes'
    <2>1. new' \in [KindSet -> Descriptors]
        BY <1>1, <1>3 DEF JitInv, ProcessInv, ProcessTypes
    <2>2. pc' = "update" => 1 \in 1 .. Len(Kinds)
        <3> SUFFICES ASSUME pc' = "update" PROVE 1 \in 1 .. Len(Kinds)
            OBVIOUS
        <3>1. PICK d \in KindSet : TRUE
            BY <1>1
        <3>2. PICK i \in DOMAIN Kinds : d = Kinds[i]
            BY DEF KindSet, Range
        <3> QED BY <3>2 DEF JitOK
    <2> QED BY <1>1, <2>1, <2>2 DEF JitInv, ReaderTypes
<1>5. SnapshotInv'
    <2>1. \A d \in KindSet : desc[d].seq \in Nat /\ desc[d].time \in Nat
        BY DescriptorNumbers DEF JitInv, ProcessInv
    <2> QED BY <1>1, <1>2, <1>3, <2>1 DEF JitInv, SnapshotInv
<1>6. ReadInv'
    BY <1>1, <1>2 DEF JitInv, ReadInv
<1> QED BY <1>2, <1>4, <1>5, <1>6 DEF JitInv

\* read_new_symfiles returns: a descriptor it accepts has nothing new left to give.
Returns ==
    /\ pc \notin {"idle", "descriptors"}
    /\ k' = k + 1 /\ pc' = IF k = Len(Kinds) THEN "idle" ELSE "update"
    /\ UNCHANGED <<process, new, since>>
    /\ walk' \in [at : Places, prev : Places, found : Seq(Addrs)]
    /\ files' \subseteq since /\ given \subseteq given'
    /\ \/ last' = last
       \/ /\ last' = [last EXCEPT ![Kinds[k]] = new[Kinds[k]]]
          /\ \A a \in live[Kinds[k]] : Times[a] > last[Kinds[k]].time => Files[a] \in given'

\* Returning from read_new_symfiles keeps the invariant.
LEMMA DescriptorEnds ==
    ASSUME JitOK, JitInv, Returns
    PROVE  JitInv'
<1>0. /\ pc \notin {"idle", "descriptors"} /\ k' = k + 1 /\ pc' = IF k = Len(Kinds) THEN "idle" ELSE "update"
      /\ UNCHANGED <<process, new, since>>
      /\ walk' \in [at : Places, prev : Places, found : Seq(Addrs)]
      /\ files' \subseteq since /\ given \subseteq given'
    BY DEF Returns
<1>1. PICK d \in KindSet : d = Kinds[k]
    BY <1>0 DEF JitInv, ReaderTypes, JitOK
<1>2. ProcessInv' /\ Times' = Times /\ Files' = Files /\ live' = live /\ desc' = desc
    BY <1>0, ProcessUntouched DEF JitInv, process
<1>3. last \in [KindSet -> Descriptors] /\ new \in [KindSet -> Descriptors]
    BY DEF JitInv, ReaderTypes
<1>4. \/ last' = last
      \/ /\ last'[d] = new[d] /\ \A e \in KindSet : e # d => last'[e] = last[e]
         /\ \A a \in live[d] : Times[a] > last[d].time => Files[a] \in given'
    BY <1>1, <1>3 DEF Returns
<1>5. ReaderTypes'
    <2>1. last' \in [KindSet -> Descriptors]
        BY <1>1, <1>3 DEF Returns
    <2>2. pc' = "update" => k' \in 1 .. Len(Kinds)
        BY <1>0 DEF JitInv, ReaderTypes, JitOK
    <2> QED BY <1>0, <1>3, <2>1, <2>2 DEF ReaderTypes
<1>6. SnapshotInv'
    <2>1. \A e \in KindSet : last'[e].time <= desc[e].time
        BY <1>0, <1>1, <1>4 DEF JitInv, SnapshotInv
    <2> QED BY <1>0, <1>2, <2>1 DEF JitInv, SnapshotInv
<1>7. ASSUME NEW e \in KindSet, NEW a \in live[e], Times[a] <= last'[e].time PROVE Files[a] \in given'
    <2>1. Times[a] \in Nat /\ last[e].time \in Nat
        BY <1>3, ListTimes DEF JitInv, Descriptors
    <2>2. Times[a] <= last[e].time => Files[a] \in given'
        BY <1>0 DEF JitInv, ReadInv
    <2>3. CASE Times[a] <= last[e].time
        BY <2>2, <2>3
    <2>4. CASE Times[a] > last[e].time
        <3>1. e = d /\ \A b \in live[d] : Times[b] > last[d].time => Files[b] \in given'
            BY <1>4, <1>7, <2>1, <2>4
        <3> QED BY <2>4, <3>1
    <2> QED BY <2>1, <2>3, <2>4
<1>8. ReadInv'
    <2>1. \A e \in KindSet : \A a \in live[e] : Files[a] \in since
        BY DEF JitInv, ReadInv
    <2> QED BY <1>0, <1>2, <1>7, <2>1 DEF ReadInv
<1> QED BY <1>2, <1>5, <1>6, <1>8 DEF JitInv

\* The walk begins at the first entry of a list that has not changed.
LEMMA ReadNewSymfilesKeeps ==
    ASSUME JitOK, JitInv, ReadNewSymfiles
    PROVE  JitInv'
<1>1. /\ pc = "update" /\ files' = {}
      /\ walk' = [at |-> new[Kinds[k]].first, prev |-> 0, found |-> <<>>]
      /\ UNCHANGED <<process, new, updates, since, given>>
    BY DEF ReadNewSymfiles
<1>2. PICK d \in KindSet : d = Kinds[k]
    BY <1>1 DEF JitInv, ReaderTypes, JitOK
<1>3. new[d] \in Descriptors /\ new[d].first \in Places
    BY DEF JitInv, ReaderTypes, Descriptors
<1>4. walk' \in [at : Places, prev : Places, found : Seq(Addrs)]
    BY <1>1, <1>2, <1>3 DEF Places
<1>5. CASE new[d].seq # last[d].seq /\ new[d].seq % 2 = 0
    <2>1. pc' = "entries" /\ UNCHANGED <<last, k>>
        BY <1>2, <1>5 DEF ReadNewSymfiles
    <2>2. ProcessInv' /\ Times' = Times /\ Files' = Files /\ live' = live /\ desc' = desc
        BY <1>1, ProcessUntouched DEF JitInv, process
    <2>3. ReaderTypes'
        BY <1>1, <1>4, <2>1 DEF JitInv, ReaderTypes
    <2>4. SnapshotInv'
        BY <1>1, <2>1, <2>2 DEF JitInv, SnapshotInv
    <2>5. ASSUME Unchanged PROVE ListRead(live[d], Times, Files, last[d].time)'
        <3>1. new[d] = desc[d]
            BY <1>1, <1>2, <1>5, <2>5 DEF JitInv, SnapshotInv, Unchanged
        <3>2. Range(<<>>) = {} /\ Cardinality({}) = 0
            BY FS_EmptySet DEF Range
        <3>3. walk'.found = <<>> /\ walk'.at = desc[d].first
            BY <1>1, <1>2, <3>1
        <3>4. Walked(live[d], Times, last[d].time, <<>>)
            BY <3>2 DEF Walked
        <3>5. live[d] \ Range(<<>>) = live[d]
            BY <3>2
        <3>6. Newest(live[d], Times, desc[d].first)
            BY DEF JitInv, ProcessInv, ListsInv
        <3> QED BY <2>1, <2>2, <3>3, <3>4, <3>5, <3>6 DEF ListRead
    <2>6. Unchanged' <=> Unchanged
        BY <1>1, <2>1, <2>2 DEF Unchanged
    <2>7. ReadInv'
        BY <1>1, <1>2, <1>5, <2>1, <2>2, <2>5, <2>6 DEF JitInv, ReadInv
    <2> QED BY <2>2, <2>3, <2>4, <2>7 DEF JitInv
<1>6. CASE ~(new[d].seq # last[d].seq /\ new[d].seq % 2 = 0)
    <2>1. last' = last /\ k' = k + 1 /\ pc' = IF k = Len(Kinds) THEN "idle" ELSE "update"
        BY <1>2, <1>6 DEF ReadNewSymfiles, EndOfDescriptor
    <2> QED BY <1>1, <1>4, <2>1, DescriptorEnds DEF Returns
<1> QED BY <1>5, <1>6

\* The walk ends: what is new and was not found is beyond the limit.
LEMMA WalkEnds ==
    ASSUME JitOK, NEW T \in [Addrs -> Nat], NEW L \in SUBSET Addrs, IsFiniteSet(L), NEW F, NEW t \in Nat,
           NEW found \in Seq(Addrs), NEW at, Walked(L, T, t, found), Newest(L \ Range(found), T, at),
           at = 0 \/ Len(found) = MaxLength \/ T[at] <= t
    PROVE  Covered(L, T, F, t, found, {}) /\ (found = <<>> => Fresh(L, T, t) = {})
<1> DEFINE S == Range(found)
<1>1. S \subseteq L /\ S \subseteq Fresh(L, T, t) /\ Cardinality(S) = Len(found)
    BY DEF Walked, Fresh
<1>2. ASSUME NEW a \in Fresh(L, T, t), a \notin S PROVE Len(found) = MaxLength /\ Crowded(L, T, t, a)
    <2>1. a \in L \ S /\ T[a] > t /\ T[a] \in Nat
        BY <1>2 DEF Fresh
    <2>2. Len(found) = MaxLength
        BY <2>1 DEF Newest
    <2> DEFINE B == {b \in Fresh(L, T, t) : T[b] > T[a]}
    <2>3. S \subseteq B
        BY <1>1, <2>1 DEF Walked
    <2>4. IsFiniteSet(B)
        <3>1. B \in SUBSET L
            BY DEF Fresh
        <3> HIDE DEF B
        <3> QED BY <3>1, FS_Subset
    <2>5. Cardinality(S) <= Cardinality(B)
        <3> HIDE DEF B, S
        <3> QED BY <2>3, <2>4, FS_Subset
    <2>6. Cardinality(B) \in Nat
        <3> HIDE DEF B, S
        <3> QED BY <2>4, FS_CardinalityType
    <2>7. Cardinality(B) >= MaxLength
        <3> HIDE DEF B, S
        <3> QED BY <1>1, <2>2, <2>5, <2>6 DEF JitOK
    <2> QED BY <2>2, <2>7 DEF Crowded
<1>3. Covered(L, T, F, t, found, {})
    BY <1>1, <1>2 DEF Covered
<1>4. ASSUME found = <<>> PROVE Fresh(L, T, t) = {}
    <2>1. S = {} /\ Len(found) = 0
        BY <1>4 DEF Range
    <2> QED BY <1>2, <2>1 DEF JitOK
<1> QED BY <1>3, <1>4

\* The walk goes on to the next entry.
LEMMA WalkGoesOn ==
    ASSUME JitOK, NEW T \in [Addrs -> Nat], NEW L \in SUBSET Addrs, IsFiniteSet(L), NEW t \in Nat,
           NEW found \in Seq(Addrs), NEW at \in Addrs, NEW n, Walked(L, T, t, found), Newest(L \ Range(found), T, at),
           T[at] > t, Follows(L, T, at, n), Distinct(L, T)
    PROVE  Walked(L, T, t, Append(found, at)) /\ Newest(L \ Range(Append(found, at)), T, n)
<1> DEFINE S == Range(found)
<1>1. /\ S \subseteq Fresh(L, T, t) /\ Cardinality(S) = Len(found) /\ S \subseteq L
      /\ \A a \in S, b \in L \ S : T[b] < T[a]
    BY DEF Walked, Fresh
<1>2. at \in L \ S /\ \A b \in L \ S : T[b] <= T[at]
    BY DEF Newest, JitOK
<1>3. PICK M : M = S \cup {at}
    OBVIOUS
<1>4. Range(Append(found, at)) = M
    BY <1>3, SetOfSeq
<1>5. Cardinality(M) = Cardinality(S) + 1
    <2>1. IsFiniteSet(S)
        <3> HIDE DEF S
        <3> QED BY <1>1, FS_Subset
    <2> HIDE DEF S
    <2> QED BY <1>2, <1>3, <2>1, FS_AddElement
<1>6. Len(Append(found, at)) = Len(found) + 1
    OBVIOUS
<1> HIDE DEF S
<1>7. M \subseteq Fresh(L, T, t)
    BY <1>1, <1>2, <1>3 DEF Fresh
<1>8. \A b \in L \ M : b \in L \ S /\ T[b] < T[at]
    BY <1>2, <1>3 DEF Distinct
<1>9. \A a \in M, b \in L \ M : T[b] < T[a]
    BY <1>1, <1>3, <1>8
<1>10. Walked(L, T, t, Append(found, at))
    BY <1>1, <1>4, <1>5, <1>6, <1>7, <1>9 DEF Walked
<1>11. Newest(L \ M, T, n)
    <2>1. CASE n = 0 /\ \A b \in L : T[b] >= T[at]
        BY <1>8, <2>1 DEF Newest
    <2>2. CASE n \in L /\ T[n] < T[at] /\ \A b \in L : T[b] < T[at] => T[b] <= T[n]
        <3>1. n \notin M
            BY <1>1, <1>2, <1>3, <2>2
        <3> QED BY <1>8, <2>2, <3>1 DEF Newest
    <2> QED BY <2>1, <2>2 DEF Follows
<1> QED BY <1>4, <1>10, <1>11

\* An entry is read, or the walk ends.
LEMMA ReadNewCodeEntriesKeeps ==
    ASSUME JitOK, JitInv, ReadNewCodeEntries
    PROVE  JitInv'
<1>1. pc = "entries" /\ UNCHANGED <<process, new, files, updates, since, given>>
    BY DEF ReadNewCodeEntries
<1>2. PICK d \in KindSet : d = Kinds[k]
    BY <1>1 DEF JitInv, ReaderTypes, JitOK
<1>3. ProcessInv' /\ Times' = Times /\ Files' = Files /\ live' = live /\ desc' = desc
    BY <1>1, ProcessUntouched DEF JitInv, process
<1>4. /\ walk \in [at : Places, prev : Places, found : Seq(Addrs)]
      /\ walk.at \in Places /\ walk.found \in Seq(Addrs) /\ last[d].time \in Nat
      /\ files = {} /\ new[d].seq % 2 = 0
    BY <1>1, <1>2 DEF JitInv, ReaderTypes, ReadInv, Descriptors
<1>5. Unchanged => /\ Walked(live[d], Times, last[d].time, walk.found)
                   /\ Newest(live[d] \ Range(walk.found), Times, walk.at)
    BY <1>1, <1>2 DEF JitInv, ReadInv, ListRead
<1>6. /\ live[d] \in SUBSET Addrs /\ Times \in [Addrs -> Nat] /\ Distinct(live[d], Times)
      /\ IsFiniteSet(live[d])
    BY ListTimes DEF JitInv, ProcessInv, ProcessTypes
<1>7. \A a \in Addrs : Times[a] = entry[a].time
    BY DEF Times
<1>8. ASSUME UNCHANGED <<last, k>>, pc' \in {"entries", "check"},
             walk' \in [at : Places, prev : Places, found : Seq(Addrs)],
             Unchanged => ListRead(live[d], Times, Files, last[d].time)'
      PROVE  JitInv'
    <2>1. ReaderTypes'
        BY <1>1, <1>8 DEF JitInv, ReaderTypes
    <2>2. SnapshotInv'
        BY <1>1, <1>3, <1>8 DEF JitInv, SnapshotInv
    <2>3. Unchanged' <=> Unchanged
        BY <1>1, <1>3, <1>8 DEF Unchanged
    <2>4. ReadInv'
        BY <1>1, <1>2, <1>3, <1>4, <1>8, <2>3 DEF JitInv, ReadInv
    <2> QED BY <1>3, <2>1, <2>2, <2>4 DEF JitInv
<1>9. ASSUME walk.at = 0 \/ Len(walk.found) = MaxLength \/ Times[walk.at] <= last[d].time,
             pc' = "check", UNCHANGED <<last, k, walk>>
      PROVE  JitInv'
    <2>1. ASSUME Unchanged PROVE ListRead(live[d], Times, Files, last[d].time)'
        <3>1. /\ Covered(live[d], Times, Files, last[d].time, walk.found, {})
              /\ walk.found = <<>> => Fresh(live[d], Times, last[d].time) = {}
            BY <1>4, <1>5, <1>6, <1>9, <2>1, WalkEnds
        <3> QED BY <1>3, <1>9, <3>1 DEF ListRead
    <2> QED BY <1>4, <1>8, <1>9, <2>1
<1>10. CASE walk.at = 0 \/ Len(walk.found) = MaxLength
    <2>1. pc' = "check" /\ UNCHANGED <<last, k, walk>>
        BY <1>10 DEF ReadNewCodeEntries
    <2> QED BY <1>9, <1>10, <2>1
<1>11. CASE ~(walk.at = 0 \/ Len(walk.found) = MaxLength)
    <2>1. walk.at \in Addrs
        BY <1>4, <1>11 DEF Places
    <2>2. \/ EndOfDescriptor(FALSE) /\ UNCHANGED walk
          \/ entry[walk.at].time <= last[d].time /\ pc' = "check" /\ UNCHANGED <<last, k, walk>>
          \/ /\ entry[walk.at].time > last[d].time
             /\ walk' = [at |-> entry[walk.at].next, prev |-> walk.at, found |-> Append(walk.found, walk.at)]
             /\ UNCHANGED <<pc, last, k>>
        BY <1>2, <1>11 DEF ReadNewCodeEntries
    <2>3. CASE EndOfDescriptor(FALSE) /\ UNCHANGED walk
        <3>1. last' = last /\ k' = k + 1 /\ pc' = IF k = Len(Kinds) THEN "idle" ELSE "update"
            BY <2>3 DEF EndOfDescriptor
        <3> QED BY <1>1, <1>4, <2>3, <3>1, DescriptorEnds DEF Returns
    <2>4. CASE entry[walk.at].time <= last[d].time /\ pc' = "check" /\ UNCHANGED <<last, k, walk>>
        BY <1>7, <1>9, <2>1, <2>4
    <2>5. CASE /\ entry[walk.at].time > last[d].time
               /\ walk' = [at |-> entry[walk.at].next, prev |-> walk.at, found |-> Append(walk.found, walk.at)]
               /\ UNCHANGED <<pc, last, k>>
        <3>1. entry[walk.at].next \in Places
            BY <2>1 DEF JitInv, ProcessInv, ProcessTypes
        <3>2. walk' \in [at : Places, prev : Places, found : Seq(Addrs)]
            BY <1>4, <2>1, <2>5, <3>1
        <3>3. ASSUME Unchanged PROVE ListRead(live[d], Times, Files, last[d].time)'
            <4>1. walk.at \in live[d]
                BY <1>5, <1>11, <3>3 DEF Newest
            <4>2. Follows(live[d], Times, walk.at, entry[walk.at].next)
                BY <4>1, ListTimes DEF JitInv
            <4>3. /\ Walked(live[d], Times, last[d].time, Append(walk.found, walk.at))
                  /\ Newest(live[d] \ Range(Append(walk.found, walk.at)), Times, entry[walk.at].next)
                BY <1>4, <1>5, <1>6, <1>7, <2>1, <2>5, <3>3, <4>2, WalkGoesOn
            <4>4. walk'.found = Append(walk.found, walk.at) /\ walk'.at = entry[walk.at].next
                BY <2>5
            <4> QED BY <1>1, <1>3, <2>5, <4>3, <4>4 DEF ListRead
        <3> QED BY <1>1, <1>8, <2>5, <3>2, <3>3
    <2> QED BY <2>2, <2>3, <2>4, <2>5
<1> QED BY <1>10, <1>11

\* The descriptor is checked after its entries were read.
LEMMA CheckEntriesKeeps ==
    ASSUME JitOK, JitInv, CheckEntries
    PROVE  JitInv'
<1>1. pc = "check" /\ UNCHANGED <<process, new, walk, files, updates, since, given>>
    BY DEF CheckEntries
<1>2. PICK d \in KindSet : d = Kinds[k]
    BY <1>1 DEF JitInv, ReaderTypes, JitOK
<1>3. ProcessInv' /\ Times' = Times /\ Files' = Files /\ live' = live /\ desc' = desc
    BY <1>1, ProcessUntouched DEF JitInv, process
<1>4. /\ walk \in [at : Places, prev : Places, found : Seq(Addrs)] /\ files = {} /\ new[d].seq % 2 = 0
    BY <1>1, <1>2 DEF JitInv, ReaderTypes, ReadInv
<1>5. Unchanged => /\ Covered(live[d], Times, Files, last[d].time, walk.found, {})
                   /\ walk.found = <<>> => Fresh(live[d], Times, last[d].time) = {}
    BY <1>1, <1>2 DEF JitInv, ReadInv, ListRead
<1>6. CASE ~Unchanged
    <2>1. last' = last /\ k' = k + 1 /\ pc' = IF k = Len(Kinds) THEN "idle" ELSE "update"
        BY <1>6 DEF CheckEntries, EndOfDescriptor
    <2> QED BY <1>1, <1>4, <2>1, DescriptorEnds DEF Returns
<1>7. CASE Unchanged /\ walk.found = <<>>
    <2>1. /\ last' = [last EXCEPT ![Kinds[k]] = new[Kinds[k]]]
          /\ k' = k + 1 /\ pc' = IF k = Len(Kinds) THEN "idle" ELSE "update"
        BY <1>7 DEF CheckEntries, EndOfDescriptor
    <2>2. \A a \in live[Kinds[k]] : Times[a] > last[Kinds[k]].time => Files[a] \in given'
        BY <1>2, <1>5, <1>7 DEF Fresh
    <2> QED BY <1>1, <1>4, <2>1, <2>2, DescriptorEnds DEF Returns
<1>8. CASE Unchanged /\ walk.found # <<>>
    <2>1. pc' = "symfiles" /\ UNCHANGED <<last, k>>
        BY <1>8 DEF CheckEntries
    <2>2. ReaderTypes'
        BY <1>1, <2>1 DEF JitInv, ReaderTypes
    <2>3. SnapshotInv'
        BY <1>1, <1>3, <2>1 DEF JitInv, SnapshotInv
    <2>4. ListRead(live[d], Times, Files, last[d].time)'
        BY <1>1, <1>3, <1>4, <1>5, <1>8, <2>1 DEF ListRead
    <2>5. ReadInv'
        BY <1>1, <1>2, <1>3, <1>4, <2>1, <2>4 DEF JitInv, ReadInv
    <2> QED BY <1>3, <2>2, <2>3, <2>5 DEF JitInv
<1> QED BY <1>6, <1>7, <1>8

\* A symfile is read; that of an unchanged list can be.
LEMMA ReadSymfileKeeps ==
    ASSUME JitOK, JitInv, ReadSymfile
    PROVE  JitInv'
<1>1. /\ pc = "symfiles" /\ walk.found # <<>>
      /\ walk' = [walk EXCEPT !.found = Tail(@)]
      /\ UNCHANGED <<process, last, new, pc, k, updates, since, given>>
    BY DEF ReadSymfile
<1>2. PICK d \in KindSet : d = Kinds[k]
    BY <1>1 DEF JitInv, ReaderTypes, JitOK
<1>3. ProcessInv' /\ Times' = Times /\ Files' = Files /\ live' = live /\ desc' = desc
    BY <1>1, ProcessUntouched DEF JitInv, process
<1>4. walk \in [at : Places, prev : Places, found : Seq(Addrs)] /\ walk.found \in Seq(Addrs)
    BY DEF JitInv, ReaderTypes
<1>5. walk'.found = Tail(walk.found) /\ walk' \in [at : Places, prev : Places, found : Seq(Addrs)]
    BY <1>1, <1>4
<1>6. PICK x \in Addrs : x = Head(walk.found)
    BY <1>1, <1>4
<1>7. Range(walk.found) = {x} \cup Range(Tail(walk.found))
    BY <1>1, <1>4, <1>6, SetOfSeq
<1>8. ASSUME Unchanged PROVE ListRead(live[d], Times, Files, last[d].time)'
    <2>1. Covered(live[d], Times, Files, last[d].time, walk.found, files) /\ files \subseteq since
        BY <1>1, <1>2, <1>8 DEF JitInv, ReadInv, ListRead
    <2>2. x \in live[d]
        BY <1>7, <2>1 DEF Covered
    <2>3. files' = files \cup {Files[x]}
        <3>1. Files[x] = entry[x].file
            BY DEF Files
        <3>2. ~Unreadable(x)
            BY <2>2 DEF Unreadable
        <3> QED BY <1>6, <3>1, <3>2 DEF ReadSymfile
    <2>4. Files[x] \in since
        BY <2>2 DEF JitInv, ReadInv
    <2>5. Covered(live[d], Times, Files, last[d].time, Tail(walk.found), files')
        BY <1>7, <2>1, <2>3 DEF Covered
    <2> QED BY <1>1, <1>3, <1>5, <2>1, <2>3, <2>4, <2>5 DEF ListRead
<1>9. ReaderTypes'
    BY <1>1, <1>5 DEF JitInv, ReaderTypes
<1>10. SnapshotInv'
    BY <1>1, <1>3 DEF JitInv, SnapshotInv
<1>11. Unchanged' <=> Unchanged
    BY <1>1, <1>3 DEF Unchanged
<1>12. ReadInv'
    BY <1>1, <1>2, <1>3, <1>8, <1>11 DEF JitInv, ReadInv
<1> QED BY <1>3, <1>9, <1>10, <1>12 DEF JitInv

\* The descriptor is checked again: if it has not changed, all that is new has
\* been returned or is beyond the limit.
LEMMA CheckSymfilesKeeps ==
    ASSUME JitOK, JitInv, CheckSymfiles
    PROVE  JitInv'
<1>1. pc = "symfiles" /\ walk.found = <<>> /\ UNCHANGED <<process, new, walk, updates, since>>
    BY DEF CheckSymfiles
<1>2. PICK d \in KindSet : d = Kinds[k]
    BY <1>1 DEF JitInv, ReaderTypes, JitOK
<1>3. walk \in [at : Places, prev : Places, found : Seq(Addrs)]
    BY DEF JitInv, ReaderTypes
<1>4. CASE Unchanged
    <2>1. /\ last' = [last EXCEPT ![Kinds[k]] = new[Kinds[k]]]
          /\ k' = k + 1 /\ pc' = IF k = Len(Kinds) THEN "idle" ELSE "update"
          /\ given' = given \cup files \cup CutOff(d) /\ files' = files
        BY <1>2, <1>4 DEF CheckSymfiles, EndOfDescriptor, StillUnchanged
    <2>2. Covered(live[d], Times, Files, last[d].time, <<>>, files) /\ files \subseteq since
        BY <1>1, <1>2, <1>4 DEF JitInv, ReadInv, ListRead
    <2>3. ASSUME NEW a \in live[d], Times[a] > last[d].time PROVE Files[a] \in given'
        <3>1. Files[a] \in files \/ Crowded(live[d], Times, last[d].time, a)
            BY <2>2, <2>3 DEF Covered, Fresh, Range
        <3>2. ASSUME Crowded(live[d], Times, last[d].time, a) PROVE Files[a] \in CutOff(d)
            <4>1. \A b \in live[d] : Times[b] = entry[b].time /\ Files[b] = entry[b].file
                BY ListTimes DEF JitInv, Times, Files
            <4>2. PICK S : S = {b \in live[d] : entry[b].time > last[d].time}
                OBVIOUS
            <4>3. Fresh(live[d], Times, last[d].time) = S
                BY <4>1, <4>2 DEF Fresh
            <4>4. {b \in S : Times[b] > Times[a]} = {b \in S : entry[b].time > entry[a].time}
                BY <4>1, <4>2
            <4>5. a \in S /\ Cardinality({b \in S : entry[b].time > entry[a].time}) >= MaxLength
                BY <2>3, <3>2, <4>1, <4>2, <4>3, <4>4 DEF Crowded
            <4> QED BY <4>1, <4>2, <4>5 DEF CutOff
        <3> QED BY <2>1, <3>1, <3>2
    <2> QED BY <1>1, <1>2, <1>3, <2>1, <2>2, <2>3, DescriptorEnds DEF Returns
<1>5. CASE ~Unchanged
    <2>1. /\ last' = last /\ k' = k + 1 /\ pc' = IF k = Len(Kinds) THEN "idle" ELSE "update"
          /\ given' = given /\ files' = {}
        BY <1>5 DEF CheckSymfiles, EndOfDescriptor, StillUnchanged
    <2> QED BY <1>1, <1>3, <2>1, DescriptorEnds DEF Returns
<1> QED BY <1>4, <1>5

\* At first there is nothing.
LEMMA JitInit ==
    ASSUME JitOK, Init
    PROVE  JitInv
<1>1. 0 \in Places /\ NoDescriptor \in Descriptors
    BY DEF Places, Descriptors, NoDescriptor
<1>2. /\ \A d \in KindSet : live[d] = {} /\ desc[d] = NoDescriptor /\ last[d] = NoDescriptor
      /\ art = Idle /\ art.step = "idle"
    BY DEF Init, Idle
<1>3. ProcessTypes
    <2>1. desc \in [KindSet -> Descriptors] /\ live \in [KindSet -> SUBSET Addrs] /\ clock \in Nat
        BY <1>1 DEF Init
    <2>2. entry \in [Addrs -> [next : Places, prev : Places, time : Nat, file : Nat]]
        BY <1>1 DEF Init
    <2>3. \A d \in KindSet : IsFiniteSet(live[d])
        BY <1>2, FS_EmptySet
    <2>4. art \in [step : {"idle", "link", "unlink", "free", "end"}, kind : KindSet \cup {""}, addr : Places]
        BY <1>1 DEF Init, Idle
    <2> QED BY <1>2, <2>1, <2>2, <2>3, <2>4 DEF ProcessTypes
<1>4. TimesInv
    <2>1. \A d \in KindSet : ~Busy(d) /\ desc[d].seq = 0 /\ desc[d].time = 0 /\ live[d] = {}
        BY <1>2 DEF Busy, NoDescriptor
    <2>2. clock = 0 /\ 0 % 2 = 0
        BY DEF Init
    <2>3. \A d \in KindSet : Distinct(live[d], Times)
        BY <1>2 DEF Distinct
    <2> QED BY <2>1, <2>2, <2>3 DEF TimesInv
<1>5. ListsInv
    <2>1. \A d \in KindSet : live[d] = {} /\ desc[d].first = 0
        BY <1>2 DEF NoDescriptor
    <2>2. \A d \in KindSet : Newest(live[d], Times, desc[d].first)
        BY <2>1 DEF Newest
    <2> QED BY <1>2, <2>1, <2>2 DEF ListsInv
<1>6. ReaderTypes
    <2>1. last \in [KindSet -> Descriptors] /\ new \in [KindSet -> Descriptors]
        BY <1>1 DEF Init
    <2>2. walk \in [at : Places, prev : Places, found : Seq(Addrs)] /\ pc = "idle"
        BY <1>1 DEF Init
    <2> QED BY <2>1, <2>2 DEF ReaderTypes
<1>7. SnapshotInv
    BY <1>2 DEF SnapshotInv, NoDescriptor, Init
<1>8. ReadInv
    BY <1>2 DEF ReadInv, Init
<1> QED BY <1>3, <1>4, <1>5, <1>6, <1>7, <1>8 DEF JitInv, ProcessInv

\* Every step keeps the invariant.
LEMMA JitKept ==
    ASSUME JitOK, JitInv, [Next]_vars
    PROVE  JitInv'
<1>1. CASE \E d \in KindSet, a \in Addrs : Register(d, a) \/ Unregister(d, a)
    BY <1>1, BeginsOutside, ArtKeeps DEF JitInv
<1>2. CASE Link
    BY <1>2, LinksOutside, ArtKeeps DEF JitInv
<1>3. CASE Unlink \/ Free
    BY <1>3, FreesOutside, ArtKeeps DEF JitInv
<1>4. CASE End
    BY <1>4, EndsOutside, ArtKeeps DEF JitInv
<1>5. CASE ReadUpdate
    BY <1>5, ReadUpdateKeeps
<1>6. CASE ReadDescriptors
    BY <1>6, ReadDescriptorsKeeps
<1>7. CASE ReadNewSymfiles
    BY <1>7, ReadNewSymfilesKeeps
<1>8. CASE ReadNewCodeEntries
    BY <1>8, ReadNewCodeEntriesKeeps
<1>9. CASE CheckEntries
    BY <1>9, CheckEntriesKeeps
<1>10. CASE ReadSymfile
    BY <1>10, ReadSymfileKeeps
<1>11. CASE CheckSymfiles
    BY <1>11, CheckSymfilesKeeps
<1>12. CASE UNCHANGED vars
    <2>1. UNCHANGED process /\ UNCHANGED <<last, new, pc, k, walk, files, since, given>> /\ UNCHANGED <<live, desc>>
        BY <1>12 DEF vars, process
    <2>2. ProcessInv' /\ Times' = Times /\ Files' = Files
        BY <2>1, ProcessUntouched DEF JitInv
    <2>3. ReaderTypes' /\ SnapshotInv'
        BY Zenon, <2>1 DEF JitInv, ReaderTypes, SnapshotInv
    <2>4. ReadInv'
        BY Zenon, <2>1, <2>2 DEF JitInv, ReadInv, Unchanged, ListRead
    <2> QED BY <2>2, <2>3, <2>4 DEF JitInv
<1> QED
    BY <1>1, <1>2, <1>3, <1>4, <1>5, <1>6, <1>7, <1>8, <1>9, <1>10, <1>11, <1>12 DEF Next

\* Whatever ART does while its lists are read, for any number of lists, entries
\* and changes: what an update returns was registered while it ran, and no
\* symfile up to the timestamp of an accepted descriptor is missed.
THEOREM NoSymfileMissed ==
    ASSUME JitOK
    PROVE  Spec => []UpdatesAreConsistent
<1>1. Init => JitInv
    BY JitInit
<1>2. JitInv /\ [Next]_vars => JitInv'
    BY JitKept
<1>3. JitInv => UpdatesAreConsistent
    <2> SUFFICES ASSUME JitInv PROVE UpdatesAreConsistent
        OBVIOUS
    <2>1. pc \in {"idle", "update"} => files \subseteq since
        BY DEF JitInv, ReadInv
    <2>2. ASSUME NEW d \in KindSet, NEW a \in Addrs, a \in live[d], entry[a].time <= last[d].time
          PROVE  entry[a].file \in given
        <3>1. Times[a] = entry[a].time /\ Files[a] = entry[a].file
            BY DEF Times, Files
        <3> QED BY <2>2, <3>1 DEF JitInv, ReadInv
    <2> QED BY <2>1, <2>2 DEF UpdatesAreConsistent
<1> QED BY <1>1, <1>2, <1>3, PTL DEF Spec
=============================================================================
