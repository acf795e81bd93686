--------------------------- MODULE InplaceSampler ---------------------------
(***************************************************************************)
(* Sampling a process from inside: InplaceSamplerClient in simpleperf      *)
(* record, and the SampleManager that a library runs in the process.  They *)
(* talk over a socket, which carries the messages of each direction in     *)
(* order (module UnixSocket); the manager's send buffer is bounded, and    *)
(* what it cannot take waits in thread_map_info_q_.                        *)
(***************************************************************************)
EXTENDS Integers, Sequences, FiniteSets, SequencesExt

CONSTANTS
    Tids, Names,        \* threads of the process; names of threads and of mapped files
    Ranges,             \* where it maps files: <<start, len>>
    Filters,            \* what may be asked for: sets of thread ids, {} for all
    Freqs,              \* the frequencies asked for; 0 is refused
    Capacity,           \* SEND_BUFFER_SIZE: a thread or map takes 2, others 1
    Wire,               \* messages the socket holds
    MaxChanges, MaxSessions

VARIABLES
    names, mapped,      \* the process: tid -> name, <<start, len>> -> name
    changes, seen,      \* how often it changed; its changes at the last check
    spc, threads_, maps_, thread_map_info_q_, filter, profiling,
    sbuf, write_event, no_more_message,    \* the manager's connection
    to_server, to_client, link,            \* what is in flight; none, pending, open, or one end closed
    cpc, got_reply, known, pages, \* the client, and what its records say
    asked, sessions

process == <<names, mapped, changes>>
manager == <<spc, threads_, maps_, thread_map_info_q_, filter, profiling, seen>>
conn == <<sbuf, write_event, no_more_message>>
wire == <<to_server, to_client, link>>
client == <<cpc, got_reply, known, pages, asked, sessions>>
vars == <<process, manager, conn, wire, client>>

Pages == UNION {r[1] .. r[1] + r[2] - 1 : r \in Ranges}
PagesOf(r) == r[1] .. r[1] + r[2] - 1
Put(f, x, v) == [y \in DOMAIN f \cup {x} |-> IF y = x THEN v ELSE f[y]]
Without(f, x) == [y \in DOMAIN f \ {x} |-> f[y]]
----------------------------------------------------------------------------
(* The process changes: threads come, go and are renamed, files are mapped *)
(* and unmapped.                                                           *)

Change ==
    /\ changes < MaxChanges /\ changes' = changes + 1
    /\ \/ \E t \in Tids, n \in Names : names' = Put(names, t, n) /\ UNCHANGED mapped
       \/ \E t \in DOMAIN names : names' = Without(names, t) /\ UNCHANGED mapped
       \/ \E r \in Ranges, n \in Names :
             /\ \A q \in DOMAIN mapped : PagesOf(q) \cap PagesOf(r) = {}
             /\ mapped' = Put(mapped, r, n) /\ UNCHANGED names
       \/ \E r \in DOMAIN mapped : mapped' = Without(mapped, r) /\ UNCHANGED names
    /\ UNCHANGED <<manager, conn, wire, client>>
----------------------------------------------------------------------------
(* SampleManager *)

SizeOf(m) == IF m.type \in {"THREAD_INFO", "MAP_INFO"} THEN 2 ELSE 1
Used(b) == FoldLeft(LAMBDA n, m : n + SizeOf(m), 0, b)
Fits(b, m) == ~no_more_message /\ Used(b) + SizeOf(m) <= Capacity

\* Mutant: a message that does not fit is given up.
DropsUnsent(b, q) == <<FoldLeft(LAMBDA c, m : IF Fits(c, m) THEN Append(c, m) ELSE c, b, q), <<>>>>

\* SendThreadMapInfo: as many as the buffer takes; the rest stays queued.
SendThreadMapInfo(b, q) ==
    LET sent == CHOOSE n \in 0 .. Len(q) :
                   /\ n = 0 \/ Fits(b \o SubSeq(q, 1, n - 1), q[n])
                   /\ \A k \in 1 .. n : Fits(b \o SubSeq(q, 1, k - 1), q[k])
                   /\ n = Len(q) \/ ~Fits(b \o SubSeq(q, 1, n), q[n + 1])
    IN  <<b \o SubSeq(q, 1, sent), SubSeq(q, sent + 1, Len(q))>>

\* CheckMapChange: maps that are new or changed where they start; none is forgotten.
NewMaps ==
    LET At(a) == IF a \in DOMAIN maps_ THEN maps_[a] ELSE [len |-> 0, name |-> ""]
    IN  {r \in DOMAIN mapped : At(r[1]) # [len |-> r[2], name |-> mapped[r]]}

MapInfo(r) == [type |-> "MAP_INFO", start |-> r[1], len |-> r[2], name |-> mapped[r]]

\* CheckThreadNameChange: the threads asked for; those that are gone are forgotten.
Current(tids) == [t \in {t \in DOMAIN names : tids = {} \/ t \in tids} |-> names[t]]

NewThreads(cur) == {t \in DOMAIN cur : t \notin DOMAIN threads_ \/ threads_[t] # cur[t]}

ThreadInfo(t) == [type |-> "THREAD_INFO", tid |-> t, name |-> names[t]]

\* CheckThreads, with buf in the send buffer: what changed is sent, then a sample.
CheckThreads(buf, tids, undelayed) ==
    LET Sample(b) == IF Fits(b, [type |-> "SAMPLE_INFO"]) THEN Append(b, [type |-> "SAMPLE_INFO"]) ELSE b
        Send(x) == /\ thread_map_info_q_' = x[2] /\ sbuf' = Sample(x[1])
                   /\ write_event' = (write_event \/ undelayed \/ 2 * Used(sbuf') >= Capacity)
    IN  /\ maps_' = [a \in DOMAIN maps_ \cup {r[1] : r \in NewMaps} |->
                        IF \E r \in NewMaps : r[1] = a
                        THEN LET r == CHOOSE r \in NewMaps : r[1] = a IN [len |-> r[2], name |-> mapped[r]] ELSE maps_[a]]
        /\ threads_' = Current(tids)
        /\ Send(SendThreadMapInfo(buf, thread_map_info_q_ \o SetToSeq({MapInfo(r) : r \in NewMaps})
                                          \o SetToSeq({ThreadInfo(t) : t \in NewThreads(Current(tids))})))
        /\ seen' = changes

\* A new SampleManager for a connection.
Accept ==
    /\ spc = "accept" /\ link \in {"pending", "client_closed"}
    /\ spc' = "running" /\ link' = IF link = "pending" THEN "open" ELSE link
    /\ threads_' = <<>> /\ maps_' = <<>> /\ thread_map_info_q_' = <<>> /\ filter' = {} /\ profiling' = FALSE
    /\ sbuf' = <<>> /\ write_event' = FALSE /\ no_more_message' = FALSE /\ seen' = -1
    /\ UNCHANGED <<process, to_server, to_client, client>>

Reply(ok) == Append(sbuf, [type |-> "REPLY", ok |-> ok])

\* HandleMessage: ParseStartProfilingMessage and StartProfiling, or a refusal; or the end.
HandleMessage ==
    /\ spc = "running" /\ to_server # <<>> /\ to_server' = Tail(to_server)
    /\ \E m \in {Head(to_server)} :
          \/ /\ m.type = "START" /\ m.freq # 0
             /\ filter' = m.tids /\ profiling' = TRUE /\ CheckThreads(Reply(TRUE), m.tids, TRUE)
             /\ UNCHANGED <<spc, no_more_message>>
          \/ /\ m.type = "START" /\ m.freq = 0
             /\ sbuf' = Reply(FALSE) /\ write_event' = TRUE /\ no_more_message' = TRUE /\ UNCHANGED manager
          \/ /\ m.type = "END"
             /\ no_more_message' = TRUE /\ write_event' = TRUE /\ UNCHANGED <<sbuf, manager>>
    /\ UNCHANGED <<process, to_client, link, client>>

\* The periodic event.
Check ==
    /\ spc = "running" /\ profiling
    /\ CheckThreads(sbuf, filter, FALSE)
    /\ UNCHANGED <<process, spc, filter, profiling, no_more_message, wire, client>>

\* The loop ends, and the manager with it.
Finish ==
    /\ spc' = "accept" /\ link' = IF link = "client_closed" THEN "none" ELSE "server_closed"
    /\ UNCHANGED <<threads_, maps_, thread_map_info_q_, filter, profiling, seen>>

\* WriteData: to a client that is gone it fails, and so does the loop.
WriteData ==
    /\ spc = "running" /\ write_event
    /\ \/ /\ sbuf # <<>> /\ link = "open"
          /\ \E n \in 1 .. Len(sbuf) : Len(to_client) + n <= Wire /\ to_client' = to_client \o SubSeq(sbuf, 1, n) /\ sbuf' = SubSeq(sbuf, n + 1, Len(sbuf))
          /\ UNCHANGED <<manager, write_event, no_more_message, link>>
       \/ /\ sbuf = <<>> /\ ~no_more_message /\ write_event' = FALSE
          /\ UNCHANGED <<manager, sbuf, no_more_message, to_client, link>>
       \/ /\ (sbuf = <<>> /\ no_more_message) \/ (sbuf # <<>> /\ link = "client_closed")
          /\ Finish /\ UNCHANGED <<conn, to_client>>
    /\ UNCHANGED <<process, to_server, client>>

\* ReadData finds the connection closed.
ReadEnd ==
    /\ spc = "running" /\ to_server = <<>> /\ link = "client_closed"
    /\ Finish /\ UNCHANGED <<process, conn, to_server, to_client, client>>
----------------------------------------------------------------------------
(* InplaceSamplerClient *)

\* ConnectServer and StartPolling.
Start(tids, freq) ==
    /\ cpc \in {"start", "done", "failed"} /\ link = "none" /\ sessions < MaxSessions
    /\ cpc' = "polling" /\ got_reply' = FALSE /\ known' = <<>> /\ pages' = [p \in Pages |-> ""]
    /\ asked' = tids /\ sessions' = sessions + 1
    /\ link' = "pending" /\ to_client' = <<>> /\ to_server' = <<[type |-> "START", tids |-> tids, freq |-> freq]>>
    /\ UNCHANGED <<process, manager, conn>>

End(how) == cpc' = how /\ link' = IF link = "server_closed" THEN "none" ELSE "client_closed"

\* HandleMessage: a record for each message; a mapping takes the place of what it overlaps.
HandleRecord ==
    /\ cpc \in {"polling", "stopping"} /\ to_client # <<>>
    /\ \E m \in {Head(to_client)} :
          /\ got_reply' = (got_reply \/ m.type = "REPLY")
          /\ known' = IF m.type = "THREAD_INFO" THEN Put(known, m.tid, m.name) ELSE known
          /\ pages' = IF m.type = "MAP_INFO"
                      THEN [p \in Pages |-> IF p \in PagesOf(<<m.start, m.len>>) THEN m.name ELSE pages[p]] ELSE pages
          /\ IF m.type = "REPLY" /\ ~m.ok THEN End("failed") ELSE UNCHANGED <<cpc, link>>
    /\ to_client' = Tail(to_client)
    /\ UNCHANGED <<process, manager, conn, to_server, asked, sessions>>

\* The server closed its end: the client is done, but fails if the server left
\* something unread.
HandleClose ==
    /\ cpc \in {"polling", "stopping"} /\ to_client = <<>> /\ link = "server_closed"
    /\ End(IF to_server = <<>> THEN "done" ELSE "failed")
    /\ UNCHANGED <<process, manager, conn, to_server, to_client, got_reply, known, pages, asked, sessions>>

\* No reply in 3 seconds; no end within a second of StopProfiling.
Timeout ==
    /\ \/ cpc = "polling" /\ ~got_reply /\ End("failed")
       \/ cpc = "stopping" /\ End("done")
    /\ UNCHANGED <<process, manager, conn, to_server, to_client, got_reply, known, pages, asked, sessions>>

\* FinishReadMmapEventData, StopProfiling
StopProfiling ==
    /\ cpc = "polling" /\ cpc' = "stopping" /\ to_server' = Append(to_server, [type |-> "END"])
    /\ UNCHANGED <<process, manager, conn, to_client, link, got_reply, known, pages, asked, sessions>>

Init ==
    /\ names = [t \in Tids |-> CHOOSE n \in Names : TRUE] /\ mapped = <<>> /\ changes = 0
    /\ spc = "accept" /\ threads_ = <<>> /\ maps_ = <<>> /\ thread_map_info_q_ = <<>> /\ filter = {} /\ profiling = FALSE
    /\ seen = -1 /\ sbuf = <<>> /\ write_event = FALSE /\ no_more_message = FALSE
    /\ to_server = <<>> /\ to_client = <<>> /\ link = "none"
    /\ cpc = "start" /\ got_reply = FALSE /\ known = <<>> /\ pages = [p \in Pages |-> ""]
    /\ asked = {} /\ sessions = 0

Next ==
    \/ Change
    \/ Accept \/ HandleMessage \/ Check \/ WriteData \/ ReadEnd
    \/ \E tids \in Filters, freq \in Freqs : Start(tids, freq)
    \/ HandleRecord \/ HandleClose \/ Timeout \/ StopProfiling

Spec == Init /\ [][Next]_vars
----------------------------------------------------------------------------
\* What the client will know when it has read all that is on its way to it.
Coming == SelectSeq(to_client \o sbuf \o thread_map_info_q_, LAMBDA m : SizeOf(m) = 2)
KnownThen == FoldLeft(LAMBDA k, m : IF m.type = "THREAD_INFO" THEN Put(k, m.tid, m.name) ELSE k, known, Coming)
PagesThen ==
    FoldLeft(LAMBDA k, m : IF m.type = "MAP_INFO"
                           THEN [p \in Pages |-> IF p \in PagesOf(<<m.start, m.len>>) THEN m.name ELSE k[p]] ELSE k,
             pages, Coming)

\* While a process is profiled, what the client has been told, with what is in
\* flight, in the send buffer and in the queue behind it, is how the process was
\* at the last check: the name of every thread asked for and no other, and what
\* every address is mapped to.  No full buffer and no earlier session spoils it.
ClientKeepsUp ==
    spc = "running" /\ profiling /\ link = "open" /\ seen = changes =>
        /\ \A t \in DOMAIN names : asked = {} \/ t \in asked => t \in DOMAIN KnownThen /\ KnownThen[t] = names[t]
        /\ asked = {} \/ DOMAIN KnownThen \subseteq asked
        /\ \A r \in DOMAIN mapped : \A p \in PagesOf(r) : PagesThen[p] = mapped[r]
============================================================================
