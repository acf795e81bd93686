--------------------------- MODULE JITDebugReader ---------------------------
(***************************************************************************)
(* JITDebugReader reads the lists of JIT and dex symfiles of a running     *)
(* process (JITDebugReader.cpp). The process is not stopped: ART changes a *)
(* list between an odd and an even action_seqlock while it is read, and    *)
(* the reader compares the seqlock before and after.                       *)
(*                                                                         *)
(* ART is external. An entry and its symfile live at an address, which     *)
(* keeps its contents when freed until it is used again, or cannot be read.*)
(***************************************************************************)
EXTENDS Integers, Sequences, FiniteSets, Functions

CONSTANTS
    Kinds,       \* the descriptors, in the order they are read: <<"jit", "dex">>
    Addrs,       \* addresses of entries
    MaxLength,   \* MAX_LINKLED_LIST_LENGTH
    MaxActions,  \* changes ART makes
    MaxUpdates,  \* calls of ReadUpdate
    Torn         \* whether ART may act while process_vm_readv copies the descriptors

VARIABLES
    desc,     \* [kind -> [first, seq, time]]: the descriptors in the process
    entry,    \* [addr -> [next, prev, time, file]]: the memory of the entries
    live,     \* [kind -> addresses registered]
    art,      \* what ART is doing
    clock,    \* its actions so far
    last,     \* [kind -> descriptor]: last_jit_descriptor_, last_dex_descriptor_
    new,      \* [kind -> descriptor]: the descriptors of this update
    pc, k,    \* the reader's step and the descriptor it works on
    walk,     \* [at, prev, found]: ReadNewCodeEntriesImpl
    files,    \* symfiles read for the descriptor
    updates,
    since,    \* ghost: symfiles registered at some time since ReadUpdate began
    given     \* ghost: symfiles returned, and those the length limit left out

vars == <<desc, entry, live, art, clock, last, new, pc, k, walk, files, updates, since, given>>
process == <<desc, entry, live, art, clock>>
reader == <<last, new, pc, k, walk, files, updates, given>>

KindSet == Range(Kinds)
NoDescriptor == [first |-> 0, seq |-> 0, time |-> 0]
Idle == [step |-> "idle", kind |-> "", addr |-> 0]

Init ==
    /\ desc = [d \in KindSet |-> NoDescriptor]
    /\ entry = [a \in Addrs |-> [next |-> 0, prev |-> 0, time |-> 0, file |-> 0]]
    /\ live = [d \in KindSet |-> {}]
    /\ art = Idle /\ clock = 0
    /\ last = [d \in KindSet |-> NoDescriptor] /\ new = last
    /\ pc = "idle" /\ k = 0
    /\ walk = [at |-> 0, prev |-> 0, found |-> <<>>]
    /\ files = {} /\ updates = 0 /\ since = {} /\ given = {}

FilesOf(d) == {entry[a].file : a \in live[d]}
----------------------------------------------------------------------------
(* ART: registers an entry at the head of a list, or unregisters one. *)

Runs == Torn \/ pc # "descriptors"

Begin(d, step, a) ==
    /\ Runs /\ art = Idle /\ clock < MaxActions
    /\ clock' = clock + 1
    /\ desc' = [desc EXCEPT ![d].seq = @ + 1]
    /\ art' = [step |-> step, kind |-> d, addr |-> a]
    /\ UNCHANGED reader

Register(d, a) ==
    /\ a \notin UNION {live[e] : e \in KindSet}
    /\ Begin(d, "link", a)
    /\ entry' = [entry EXCEPT ![a] = [next |-> desc[d].first, prev |-> 0, time |-> clock', file |-> clock']]
    /\ UNCHANGED <<live, since>>

Link ==
    /\ Runs /\ art.step = "link"
    /\ LET d == art.kind
       IN  /\ entry' = IF desc[d].first = 0 THEN entry ELSE [entry EXCEPT ![desc[d].first].prev = art.addr]
           /\ live' = [live EXCEPT ![d] = @ \cup {art.addr}]
           /\ since' = since \cup {entry[art.addr].file}
           /\ desc' = [desc EXCEPT ![d].first = art.addr]
    /\ art' = [art EXCEPT !.step = "end"]
    /\ UNCHANGED <<clock, reader>>

Unregister(d, a) ==
    /\ a \in live[d]
    /\ Begin(d, "unlink", a)
    /\ UNCHANGED <<entry, live, since>>

\* The next entry is relinked before the previous one.
Unlink ==
    /\ Runs /\ art.step = "unlink"
    /\ LET e == entry[art.addr]
       IN  /\ entry' = IF e.next = 0 THEN entry ELSE [entry EXCEPT ![e.next].prev = e.prev]
           /\ art' = [art EXCEPT !.step = "free"]
    /\ UNCHANGED <<desc, live, since, clock, reader>>

Free ==
    /\ Runs /\ art.step = "free"
    /\ LET e == entry[art.addr]
       IN  /\ entry' = IF e.prev = 0 THEN entry ELSE [entry EXCEPT ![e.prev].next = e.next]
           /\ desc' = IF e.prev = 0 THEN [desc EXCEPT ![art.kind].first = e.next] ELSE desc
           /\ live' = [live EXCEPT ![art.kind] = @ \ {art.addr}]
    /\ art' = [art EXCEPT !.step = "end"]
    /\ UNCHANGED <<since, clock, reader>>

End ==
    /\ Runs /\ art.step = "end"
    /\ desc' = [desc EXCEPT ![art.kind].time = clock, ![art.kind].seq = @ + 1]
    /\ art' = Idle
    /\ UNCHANGED <<entry, live, since, clock, reader>>
----------------------------------------------------------------------------
(* The reader. A call of ReadRemoteMem on freed memory may fail. *)

Unreadable(a) == a \notin UNION {live[d] : d \in KindSet}

\* ReadUpdate: ReadDescriptors copies first_entry_addr, then action_seqlock and
\* action_timestamp, in one call.
ReadUpdate ==
    /\ pc = "idle" /\ updates < MaxUpdates
    /\ updates' = updates + 1
    /\ new' = [d \in KindSet |-> [NoDescriptor EXCEPT !.first = desc[d].first]]
    /\ since' = UNION {FilesOf(d) : d \in KindSet}
    /\ pc' = "descriptors" /\ files' = {}
    /\ UNCHANGED <<process, last, k, walk, given>>

ReadDescriptors ==
    /\ pc = "descriptors"
    /\ new' = [d \in KindSet |-> [desc[d] EXCEPT !.first = new[d].first]]
    /\ k' = 1
    /\ pc' = IF \A d \in KindSet : desc[d].seq = last[d].seq THEN "idle" ELSE "update"
    /\ UNCHANGED <<process, last, walk, files, updates, since, given>>

\* read_new_symfiles returns; the next descriptor is read, or the update ends.
EndOfDescriptor(accept) ==
    /\ last' = IF accept THEN [last EXCEPT ![Kinds[k]] = new[Kinds[k]]] ELSE last
    /\ k' = k + 1
    /\ pc' = IF k = Len(Kinds) THEN "idle" ELSE "update"

ReadNewSymfiles ==
    /\ pc = "update"
    /\ files' = {} /\ walk' = [at |-> new[Kinds[k]].first, prev |-> 0, found |-> <<>>]
    /\ IF new[Kinds[k]].seq # last[Kinds[k]].seq /\ new[Kinds[k]].seq % 2 = 0
       THEN pc' = "entries" /\ UNCHANGED <<last, k>>
       ELSE EndOfDescriptor(FALSE)
    /\ UNCHANGED <<process, new, updates, since, given>>

\* ReadNewCodeEntriesImpl reads one entry, or ends: after a broken one, at an
\* entry that is not new, at the end of the list or at the limit.
ReadNewCodeEntries ==
    /\ pc = "entries"
    /\ LET e      == entry[walk.at]
           broken == walk.at \in Range(walk.found) \/ e.prev # walk.prev \/ e.file = 0
       IN  IF walk.at = 0 \/ Len(walk.found) = MaxLength
           THEN pc' = "check" /\ UNCHANGED <<last, k, walk>>
           ELSE \/ /\ broken \/ Unreadable(walk.at)
                   /\ EndOfDescriptor(FALSE) /\ UNCHANGED walk
                \/ /\ ~broken /\ e.time <= last[Kinds[k]].time
                   /\ pc' = "check" /\ UNCHANGED <<last, k, walk>>
                \/ /\ ~broken /\ e.time > last[Kinds[k]].time
                   /\ walk' = [at |-> e.next, prev |-> walk.at, found |-> Append(walk.found, walk.at)]
                   /\ UNCHANGED <<pc, last, k>>
    /\ UNCHANGED <<process, new, files, updates, since, given>>

\* check_descriptor: the seqlock has not changed.
Unchanged == desc[Kinds[k]].seq = new[Kinds[k]].seq

CheckEntries ==
    /\ pc = "check"
    /\ CASE ~Unchanged                            -> EndOfDescriptor(FALSE)
         [] Unchanged /\ walk.found = <<>>        -> EndOfDescriptor(TRUE)
         [] Unchanged /\ walk.found # <<>>        -> pc' = "symfiles" /\ UNCHANGED <<last, k>>
    /\ UNCHANGED <<process, new, walk, files, updates, since, given>>

\* ReadJITSymFiles, ReadDexSymFiles: one symfile, left out if it cannot be read.
ReadSymfile ==
    /\ pc = "symfiles" /\ walk.found # <<>>
    /\ walk' = [walk EXCEPT !.found = Tail(@)]
    /\ \/ files' = files \cup {entry[Head(walk.found)].file}
       \/ Unreadable(Head(walk.found)) /\ UNCHANGED files
    /\ UNCHANGED <<process, last, new, pc, k, updates, since, given>>

\* Mutant: the descriptor is not checked again after the symfiles were read.
NotChecked == TRUE

StillUnchanged == Unchanged

\* The entries of d the length limit cuts off.
CutOff(d) ==
    LET fresh == {a \in live[d] : entry[a].time > last[d].time}
    IN  {entry[a].file : a \in {a \in fresh : Cardinality({b \in fresh : entry[b].time > entry[a].time}) >= MaxLength}}

CheckSymfiles ==
    /\ pc = "symfiles" /\ walk.found = <<>>
    /\ EndOfDescriptor(StillUnchanged)
    /\ given' = IF StillUnchanged THEN given \cup files \cup CutOff(Kinds[k]) ELSE given
    /\ files' = IF StillUnchanged THEN files ELSE {}
    /\ UNCHANGED <<process, new, walk, updates, since>>

Next == \/ \E d \in KindSet, a \in Addrs : Register(d, a) \/ Unregister(d, a)
        \/ Link \/ Unlink \/ Free \/ End
        \/ ReadUpdate \/ ReadDescriptors \/ ReadNewSymfiles \/ ReadNewCodeEntries \/ CheckEntries
        \/ ReadSymfile \/ CheckSymfiles

Spec == Init /\ [][Next]_vars
----------------------------------------------------------------------------
\* Although the process runs on, what an update returns was registered while
\* the update ran, and no symfile is ever missed: once a descriptor is accepted,
\* every symfile registered up to its action_timestamp has been returned, but
\* for those beyond the limit on the length of the list (ReadUpdate,
\* ReadNewCodeEntriesImpl).
UpdatesAreConsistent ==
    /\ pc \in {"idle", "update"} => files \subseteq since
    /\ art = Idle => \A d \in KindSet, a \in Addrs :
           a \in live[d] /\ entry[a].time <= last[d].time => entry[a].file \in given
=============================================================================
