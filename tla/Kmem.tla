-------------------------------- MODULE Kmem --------------------------------
(***************************************************************************)
(* simpleperf kmem: records the slab allocation events of the kernel,      *)
(* whose layout differs from event to event and from kernel to kernel, and *)
(* reports who allocated how much, and what was freed on another cpu.      *)
(***************************************************************************)
EXTENDS Integers, Sequences, FiniteSets, SequencesExt, FiniteSetsExt

----------------------------------------------------------------------------
(* The tracing data of a record file: the kernel's description of its      *)
(* tracepoint events, written by simpleperf record and read by the         *)
(* commands that take the fields of an event out of a sample.  A byte      *)
(* stream is a sequence of items: a string [s], an integer of w bytes      *)
(* [n, w], or a line of a format file.                                     *)

S(x) == [s |-> x]
N(x, bytes) == [n |-> x, w |-> bytes]

\* AppendFile
AppendFile(data, file, bytes) == data \o <<N(Len(file), bytes)>> \o file

AppendFiles(data, files) == FoldLeft(LAMBDA d, f : AppendFile(d, f, 8), data, files)

\* An event's system, the number of its formats, and the format.
AppendEvent(data, pair) == AppendFile(data \o <<S(pair.system), N(1, 4)>>, pair.format, 8)

\* TracingFile::BinaryFormat
BinaryFormat(t) ==
    LET head == <<S("magic"), S("0.5"), N(0, 1), N(8, 1), N(4096, 4), S("header_page")>>
        headers == AppendFile(Append(AppendFile(head, t.header_page, 8), S("header_event")), t.header_event, 8)
        ftrace == AppendFiles(Append(headers, N(Len(t.ftrace), 4)), t.ftrace)
        events == FoldLeft(AppendEvent, Append(ftrace, N(Len(t.events), 4)), t.events)
    IN  AppendFile(AppendFile(events, t.kallsyms, 4), t.printk_formats, 4)

\* RecordHeaderFiles, RecordFtraceFiles (those that exist), RecordEventFiles,
\* RecordPrintkFormatsFile; kallsyms is not recorded here.
RecordFiles(events, ftrace) ==
    [header_page |-> <<S("page")>>, header_event |-> <<S("event")>>, ftrace |-> ftrace, events |-> events,
     kallsyms |-> <<>>, printk_formats |-> <<S("fmt")>>]

\* GetTracingData
GetTracingData(events, ftrace) == BinaryFormat(RecordFiles(events, ftrace))
----------------------------------------------------------------------------
(* TracingFile::LoadFromBinary.  What is read: the items, the position p of *)
(* the next one, and the last file.                                        *)

MoveInt(r, bytes) == IF r.p <= Len(r.data) /\ "w" \in DOMAIN r.data[r.p] /\ r.data[r.p].w = bytes THEN r.data[r.p].n ELSE 0

Skip(r, items) == [r EXCEPT !.p = @ + items]

DetachFile(r, bytes) ==
    [r EXCEPT !.p = @ + 1 + MoveInt(r, bytes), !.file = SubSeq(r.data, r.p + 1, r.p + MoveInt(r, bytes))]

\* The ftrace formats; then the formats of the events, one system at a time.
DetachFtrace(r) ==
    FoldLeft(LAMBDA q, i : DetachFile(q, 8), Skip(r, 1), [i \in 1 .. MoveInt(r, 4) |-> i])

DetachEvent(r, system) == LET q == DetachFile(r, 8) IN [q EXCEPT !.events = Append(@, [system |-> system, format |-> q.file])]

DetachSystem(r) ==
    FoldLeft(LAMBDA q, i : DetachEvent(q, r.data[r.p].s), Skip(r, 2), [i \in 1 .. MoveInt(Skip(r, 1), 4) |-> i])

DetachEvents(r) == FoldLeft(LAMBDA q, i : DetachSystem(q), Skip(r, 1), [i \in 1 .. MoveInt(r, 4) |-> i])

\* The events' formats, or none if a CHECK fails.
LoadFromBinary(data) ==
    LET r1 == DetachFile([data |-> data, p |-> 7, file |-> <<>>, events |-> <<>>], 8)
        r2 == DetachEvents(DetachFtrace(DetachFile(Skip(r1, 1), 8)))
        r3 == DetachFile(DetachFile(r2, 4), 4)
    IN  IF data[1] = S("magic") /\ data[6] = S("header_page") /\ data[r1.p] = S("header_event") /\ r3.p = Len(data) + 1
        THEN r3.events ELSE <<>>
----------------------------------------------------------------------------
(* The formats: lines [name], [id] and [field, count, offset, size].       *)

ParseTracingField(l) == [name |-> l.field, offset |-> l.offset, elem_size |-> l.size \div l.count, elem_count |-> l.count]

\* LoadTracingFormatsFromEventFiles: a name, then an ID, then the fields.
ParseLine(f, l) ==
    CASE f.name = "" -> IF "name" \in DOMAIN l THEN [f EXCEPT !.name = l.name] ELSE f
      [] f.name # "" /\ f.id = 0 -> IF "id" \in DOMAIN l THEN [f EXCEPT !.id = l.id] ELSE f
      [] OTHER -> IF "field" \in DOMAIN l THEN [f EXCEPT !.fields = Append(@, ParseTracingField(l))] ELSE f

LoadTracingFormat(e) == FoldLeft(ParseLine, [system |-> e.system, name |-> "", id |-> 0, fields |-> <<>>], e.format)

LoadTracingFormatsFromEventFiles(events) == [i \in DOMAIN events |-> LoadTracingFormat(events[i])]

\* GetTracingFormatHavingId and GetField take the first that matches, and are
\* fatal if there is none.
First(s, Test(_)) == s[CHOOSE i \in DOMAIN s : Test(s[i]) /\ \A j \in 1 .. i - 1 : ~Test(s[j])]

HasFormat(formats, id) == \E i \in DOMAIN formats : formats[i].id = id

GetTracingFormatHavingId(formats, id) == First(formats, LAMBDA f : f.id = id)

HasField(f, name) == \E i \in DOMAIN f.fields : f.fields[i].name = name

GetField(f, name) ==
    LET field == First(f.fields, LAMBDA x : x.name = name) IN [offset |-> field.offset, size |-> field.elem_size]
----------------------------------------------------------------------------
(* The command.                                                            *)

CONSTANTS
    Kernels,       \* the format files of the events a kernel has: sequences of [system, format]
    Keys,          \* sets of --slab-sort keys that are compared: subsets of {"caller", "ptr"}
    Ptrs, Cpus, Callers, Sizes,
    MaxEvents

VARIABLES
    pc, kernel, keys,
    live,          \* the kernel's view: who holds what, [cpu, caller, size]
    data,          \* the tracing data in the file
    records,       \* the samples in the file: [id, cpu, raw]
    formats,       \* event_id_to_format_map_: id -> [type, places]
    samples,       \* the tree: key -> [sample_count, bytes_req, bytes_alloc, cross_cpu]
    summary,       \* totals: [nr_allocations, total_requested, total_allocated, nr_cross_cpu]
    alloc_cpu_record_map_, nr_frees_,
    allocations, crossed, frees    \* ghost: what happened

kernel_state == <<live, allocations, crossed, frees>>
report == <<formats, samples, summary, alloc_cpu_record_map_, nr_frees_>>
vars == <<pc, kernel, keys, kernel_state, data, records, report>>

Allocs == {"kmalloc", "kmem_cache_alloc", "kmalloc_node", "kmem_cache_alloc_node"}
Frees == {"kfree", "kmem_cache_free"}
----------------------------------------------------------------------------
(* kmem record *)

\* RecordKmemInfo asks for the events that exist, and fails if there are none or
\* their files cannot be read.
Record(readable) ==
    /\ pc = "start"
    /\ IF kernel # <<>> /\ readable
       THEN pc' = "recording" /\ data' = GetTracingData(kernel, <<<<S("f")>>>>)
       ELSE pc' = "failed" /\ UNCHANGED data
    /\ UNCHANGED <<kernel, keys, kernel_state, records, report>>

\* What the kernel writes into a sample of event e: each value at its field's offset.
Raw(e, values) ==
    LET fields == {i \in DOMAIN kernel[e].format : "field" \in DOMAIN kernel[e].format[i]}
        Line(o) == kernel[e].format[CHOOSE i \in fields : kernel[e].format[i].offset = o]
    IN  [o \in {kernel[e].format[i].offset : i \in fields} |-> [value |-> values[Line(o).field], size |-> Line(o).size]]

IdOf(e) == (CHOOSE l \in {kernel[e].format[i] : i \in DOMAIN kernel[e].format} : "id" \in DOMAIN l).id
NameOf(e) == (CHOOSE l \in {kernel[e].format[i] : i \in DOMAIN kernel[e].format} : "name" \in DOMAIN l).name

Logged(e, cpu, values) == records' = Append(records, [id |-> IdOf(e), cpu |-> cpu, raw |-> Raw(e, values)])

Alloc(e, p, cpu, caller, size) ==
    /\ pc = "recording" /\ Len(records) < MaxEvents /\ NameOf(e) \in Allocs /\ p \notin DOMAIN live
    /\ live' = [q \in DOMAIN live \cup {p} |->
                   IF q = p THEN [cpu |-> cpu, caller |-> caller] ELSE live[q]]
    /\ allocations' = Append(allocations, [caller |-> caller, ptr |-> p, req |-> size, alloc |-> size + 1])
    /\ Logged(e, cpu, [call_site |-> caller, ptr |-> p, bytes_req |-> size, bytes_alloc |-> size + 1, gfp_flags |-> 0])
    /\ UNCHANGED <<pc, kernel, keys, data, crossed, frees, report>>

Free(e, p, cpu) ==
    /\ pc = "recording" /\ Len(records) < MaxEvents /\ NameOf(e) \in Frees /\ p \in DOMAIN live
    /\ live' = [q \in DOMAIN live \ {p} |-> live[q]]
    /\ crossed' = IF live[p].cpu = cpu THEN crossed ELSE Append(crossed, [caller |-> live[p].caller, ptr |-> p])
    /\ frees' = frees + 1
    /\ Logged(e, cpu, [call_site |-> 0, ptr |-> p])
    /\ UNCHANGED <<pc, kernel, keys, data, allocations, report>>
----------------------------------------------------------------------------
(* kmem report *)

Places(f, names) == [n \in names |-> GetField(f, n)]

FieldsOf(f) == {"call_site", "ptr"} \cup IF f.name \in Allocs THEN {"bytes_req", "bytes_alloc", "gfp_flags"} ELSE {}

SlabFormat(f) == [type |-> IF f.name \in Allocs THEN "KMEM_ALLOC" ELSE "KMEM_FREE", places |-> Places(f, FieldsOf(f))]

\* ProcessTracingData: the formats of the events recorded, if they have the fields.
ProcessTracingData ==
    /\ pc = "recording"
    /\ \E all \in {LoadTracingFormatsFromEventFiles(LoadFromBinary(data))} :
          LET Format(id) == GetTracingFormatHavingId(all, id)
              ids == {IdOf(e) : e \in DOMAIN kernel}
              slab == {id \in ids : HasFormat(all, id) /\ Format(id).name \in Allocs \cup Frees}
          IN  IF \A id \in ids : HasFormat(all, id) /\ (id \in slab => \A n \in FieldsOf(Format(id)) : HasField(Format(id), n))
              THEN pc' = "reporting" /\ formats' = [id \in slab |-> SlabFormat(Format(id))]
              ELSE pc' = "fatal" /\ UNCHANGED formats
    /\ UNCHANGED <<kernel, keys, kernel_state, data, records, samples, summary, alloc_cpu_record_map_, nr_frees_>>

ReadFromData(place, raw) ==
    IF place.offset \in DOMAIN raw /\ raw[place.offset].size = place.size THEN raw[place.offset].value ELSE 99

KeyOf(caller, ptr) ==
    [caller |-> IF "caller" \in keys THEN caller ELSE 0, ptr |-> IF "ptr" \in keys THEN ptr ELSE 0]

NewSample(req, alloc) == [sample_count |-> 1, bytes_req |-> req, bytes_alloc |-> alloc, cross_cpu |-> 0]

MergeSample(s, t) ==
    [s EXCEPT !.bytes_req = @ + t.bytes_req, !.bytes_alloc = @ + t.bytes_alloc, !.sample_count = @ + t.sample_count]

UpdateSummary(s) ==
    summary' = [summary EXCEPT !.nr_allocations = @ + 1, !.total_requested = @ + s.bytes_req,
                               !.total_allocated = @ + s.bytes_alloc]

InsertSample(k, s) ==
    /\ UpdateSummary(s)
    /\ samples' = [j \in DOMAIN samples \cup {k} |->
                      IF j # k THEN samples[j] ELSE IF k \in DOMAIN samples THEN MergeSample(samples[k], s) ELSE s]

\* insert keeps an entry that is there already.
Remember(ptr, cpu, k) ==
    alloc_cpu_record_map_' = [q \in DOMAIN alloc_cpu_record_map_ \cup {ptr} |->
        IF q \in DOMAIN alloc_cpu_record_map_ THEN alloc_cpu_record_map_[q] ELSE [cpu |-> cpu, key |-> k]]

\* Mutant: the entry of an address that was freed stays.
KeepEntry(ptr) == UNCHANGED alloc_cpu_record_map_

Forget(ptr) ==
    alloc_cpu_record_map_' = [q \in DOMAIN alloc_cpu_record_map_ \ {ptr} |-> alloc_cpu_record_map_[q]]

\* An allocation made on another cpu is counted as freed across.
FreedOn(cpu, entry) ==
    IF entry.cpu = cpu THEN UNCHANGED <<samples, summary>>
    ELSE /\ samples' = [samples EXCEPT ![entry.key].cross_cpu = @ + 1]
         /\ summary' = [summary EXCEPT !.nr_cross_cpu = @ + 1]

\* CreateSample
CreateSample(r, f) ==
    LET Field(n) == ReadFromData(f.places[n], r.raw)
    IN  IF f.type = "KMEM_ALLOC"
        THEN /\ InsertSample(KeyOf(Field("call_site"), Field("ptr")), NewSample(Field("bytes_req"), Field("bytes_alloc")))
             /\ Remember(Field("ptr"), r.cpu, KeyOf(Field("call_site"), Field("ptr")))
             /\ UNCHANGED nr_frees_
        ELSE /\ nr_frees_' = nr_frees_ + 1
             /\ IF Field("ptr") \in DOMAIN alloc_cpu_record_map_
                THEN /\ FreedOn(r.cpu, alloc_cpu_record_map_[Field("ptr")])
                     /\ Forget(Field("ptr"))
                ELSE UNCHANGED <<samples, summary, alloc_cpu_record_map_>>

ProcessSampleRecord ==
    /\ pc = "reporting" /\ records # <<>>
    /\ IF Head(records).id \in DOMAIN formats THEN CreateSample(Head(records), formats[Head(records).id])
                                              ELSE UNCHANGED <<samples, summary, alloc_cpu_record_map_, nr_frees_>>
    /\ records' = Tail(records)
    /\ UNCHANGED <<pc, kernel, keys, kernel_state, data, formats>>

\* nr_frees_ is not initialized: 7 stands for whatever is there.
Init ==
    /\ pc = "start" /\ kernel \in Kernels /\ keys \in Keys
    /\ live = <<>> /\ data = <<>> /\ records = <<>> /\ formats = <<>> /\ samples = <<>>
    /\ summary = [nr_allocations |-> 0, total_requested |-> 0, total_allocated |-> 0, nr_cross_cpu |-> 0]
    /\ alloc_cpu_record_map_ = <<>> /\ nr_frees_ \in {0, 7}
    /\ allocations = <<>> /\ crossed = <<>> /\ frees = 0

Next ==
    \/ \E readable \in BOOLEAN : Record(readable)
    \/ ProcessTracingData \/ ProcessSampleRecord
    \/ \E e \in DOMAIN kernel, p \in Ptrs, c \in Cpus :
          \/ Free(e, p, c)
          \/ \E who \in Callers, size \in Sizes : Alloc(e, p, c, who, size)

Spec == Init /\ [][Next]_vars
----------------------------------------------------------------------------
HasLine(e, n) == \E i \in DOMAIN kernel[e].format : "field" \in DOMAIN kernel[e].format[i] /\ kernel[e].format[i].field = n

Reported == pc = "reporting" /\ records = <<>>

\* The report is made if the kernel's events have the fields it takes, and each
\* line of it is right: for the allocations it stands for, their
\* number, the bytes requested and allocated, and how many of them were freed
\* on another cpu, whatever the layouts of the events are and however often an
\* address is allocated again; the totals are the sums.  (No record is lost.)
SlabReportIsRight ==
    LET AllocKey(a) == KeyOf(a.caller, a.ptr)
        Mine(s, k) == {i \in DOMAIN s : AllocKey(s[i]) = k}
        Req(is) == MapThenSumSet(LAMBDA i : allocations[i].req, is)
        Allocated(is) == MapThenSumSet(LAMBDA i : allocations[i].alloc, is)
        all == DOMAIN allocations
    IN  /\ pc = "fatal" => \E e \in DOMAIN kernel : \E n \in FieldsOf([name |-> NameOf(e)]) : ~HasLine(e, n)
        /\ Reported =>
           /\ DOMAIN samples = {AllocKey(allocations[i]) : i \in all}
           /\ \A k \in DOMAIN samples :
                 samples[k] = [sample_count |-> Cardinality(Mine(allocations, k)), bytes_req |-> Req(Mine(allocations, k)),
                               bytes_alloc |-> Allocated(Mine(allocations, k)), cross_cpu |-> Cardinality(Mine(crossed, k))]
           /\ summary = [nr_allocations |-> Len(allocations), total_requested |-> Req(all), total_allocated |-> Allocated(all),
                         nr_cross_cpu |-> Len(crossed)]
============================================================================
