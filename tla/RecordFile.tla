----------------------------- MODULE RecordFile -----------------------------
(***************************************************************************)
(* simpleperf's record file: record_file_writer.cpp lays out the event     *)
(* attributes, the records and the feature sections of perf.data and goes  *)
(* back at the end to fill in the header; record_file_reader.cpp finds     *)
(* them again by offsets, ids and terminators alone.                       *)
(*                                                                         *)
(* The file is a sequence of cells (see RecordBinary): the header, a file  *)
(* attribute, a section descriptor and the header of a record take one     *)
(* each.  A string is a sequence of cells that ends with the first zero.   *)
(***************************************************************************)
EXTENDS Integers, Sequences, FiniteSets, SequencesExt, FiniteSetsExt, TLC

CONSTANTS
    AttrLists,       \* attributes of a recording: [sample_type, ids]
    DataRecords,     \* [type, attr, id, fields, name]: what may be recorded
    FeatureLists,    \* features written at the end: [feature, content]
    SizeLimit,       \* RECORD_SIZE_LIMIT
    MaxRecords

VARIABLES
    attrs,
    pc,
    cells,     \* the file
    pos,       \* its file position
    w,         \* the fields of RecordFileWriter
    todo,      \* features still to write
    recorded,  \* records written so far
    r          \* what RecordFileReader has read

vars == <<attrs, pc, cells, pos, w, todo, recorded, r>>

FeatureId == [build_id |-> 2, osrelease |-> 4, arch |-> 6, cmdline |-> 11,
              branch_stack |-> 15, file |-> 128, meta_info |-> 129]

\* Types simpleperf defines itself (above PERF_RECORD_USER_DEFINED_TYPE_START)
\* carry no sample id.
Custom == {"kernel_symbol", "dso", "symbol", "tracing_data", "event_id",
           "callchain", "unwinding_result"}

\* Types that hold a string after their fixed fields.
Named == {"mmap", "mmap2", "comm", "dso", "symbol"}

SampleScalars == <<"IP", "TID", "TIME", "ADDR", "ID", "STREAM_ID", "CPU", "PERIOD">>
SampleIdFields == <<"TID", "TIME", "ID", "STREAM_ID", "CPU">>
Present(fields, T) == SelectSeq(fields, LAMBDA f : f \in T)
Scalar(f, id) == IF f = "ID" THEN id ELSE 7

Terminated(s) == Append(s, 0)
StrLen(s, p) == (CHOOSE i \in p .. Len(s) : s[i] = 0 /\ \A j \in p .. i - 1 : s[j] # 0) - p

SampleId(T, id) ==
    LET names == Present(SampleIdFields, T) IN [i \in DOMAIN names |-> Scalar(names[i], id)]

\* The constructors that build a record from its fields.
BuildSample(d, T) ==
    LET names == Present(SampleScalars, T)
    IN  [i \in DOMAIN names |-> Scalar(names[i], d.id)] \o d.fields

BuildBody(d) == d.fields \o IF d.type \in Named THEN Terminated(d.name) ELSE <<>>

BuildRecord(d) ==
    LET T    == attrs[d.attr].sample_type
        body == IF d.type = "sample" THEN BuildSample(d, T)
                ELSE BuildBody(d) \o IF d.type \in Custom THEN <<>> ELSE SampleId(T, d.id)
    IN  <<[type |-> d.type, size |-> 1 + Len(body)]>> \o body

\* Their counterparts that read one: how many cells the fields take.
PerfFields == [mmap |-> 4, mmap2 |-> 8, comm |-> 1, fork |-> 3, exit |-> 3, lost |-> 2]

CustomFields(type, body) ==
    CASE type \in {"kernel_symbol", "tracing_data"} -> 1 + body[1]
      [] type = "event_id" -> 1 + 2 * body[1]
      [] type \in {"dso", "symbol"} -> 3

ChainFields(type, body) == IF type = "callchain" THEN 4 + 2 * body[4] ELSE 6

FixedFields(type, body, T) ==
    CASE type = "sample" -> Len(Present(SampleScalars, T))
      [] type \in {"callchain", "unwinding_result"} -> ChainFields(type, body)
      [] type \in DOMAIN PerfFields -> PerfFields[type]
      [] OTHER -> CustomFields(type, body)

\* The fields and the string, and whether what is left is what CHECK_EQ or
\* CHECK_LE asks for.
Parsed(type, body, fixed, T) ==
    LET len == IF type \in Named THEN StrLen(body, fixed + 1) ELSE 0
        end == fixed + IF type \in Named THEN len + 1 ELSE 0
        sid == Len(Present(SampleIdFields, T))
    IN  [type |-> type, name |-> SubSeq(body, fixed + 1, fixed + len),
         fields |-> IF type = "sample" THEN SubSeq(body, fixed + 1, Len(body)) ELSE SubSeq(body, 1, fixed),
         ok |-> IF type = "sample" THEN TRUE
                ELSE IF type \in Custom THEN end = Len(body) ELSE end + sid <= Len(body)]

\* ReadRecordFromBuffer.
ParseRecord(attr, rec) ==
    LET body == SubSeq(rec, 2, rec[1].size)
    IN  Parsed(rec[1].type, body, FixedFields(rec[1].type, body, attr.sample_type), attr.sample_type)
----------------------------------------------------------------------------
(* RecordFileWriter. *)

\* fwrite at a position, over what is there and past the end.
WriteAt(c, p, data) ==
    [i \in 1 .. Max({Len(c), p + Len(data)}) |->
        IF i \in p + 1 .. p + Len(data) THEN data[i - p]
        ELSE IF i <= Len(c) THEN c[i] ELSE 0]

Write(data) == cells' = WriteAt(cells, pos, data) /\ pos' = pos + Len(data)

Init ==
    /\ attrs \in AttrLists
    /\ pc = "create"
    /\ cells = <<>> /\ pos = 0
    /\ w = [attr_offset |-> 0, attr_size |-> 0, data_offset |-> 0, data_size |-> 0,
            feature_offset |-> 0, feature_count |-> 0, features |-> <<>>]
    /\ todo \in FeatureLists
    /\ recorded = <<>>
    /\ r = [attrs |-> <<>>, map |-> <<>>, sections |-> <<>>, at |-> 0, records |-> <<>>, ok |-> TRUE]

WriteAttrSection ==
    /\ pc = "create"
    /\ LET ids   == FlattenSeq([i \in DOMAIN attrs |-> attrs[i].ids])
           start(i) == 1 + Len(FlattenSeq([j \in 1 .. i - 1 |-> attrs[j].ids]))
           table == [i \in DOMAIN attrs |-> [sample_type |-> attrs[i].sample_type,
                                             offset |-> start(i), size |-> Len(attrs[i].ids)]]
       IN  /\ cells' = WriteAt(cells, 1, ids \o table)
           /\ pos' = 1 + Len(ids) + Len(table)
           /\ w' = [w EXCEPT !.attr_offset = 1 + Len(ids), !.attr_size = Len(table),
                             !.data_offset = 1 + Len(ids) + Len(table)]
    /\ pc' = "data"
    /\ UNCHANGED <<attrs, todo, recorded, r>>

\* A record above the limit goes out in SPLIT records and a SPLIT_END.
Split(rec) ==
    LET piece  == SizeLimit - 1
        pieces == (Len(rec) + piece - 1) \div piece
        part(k) == SubSeq(rec, (k - 1) * piece + 1, Min({k * piece, Len(rec)}))
    IN  FlattenSeq([k \in 1 .. pieces |-> <<[type |-> "split", size |-> 1 + Len(part(k))]>> \o part(k)])
        \o <<[type |-> "split_end", size |-> 1]>>

WriteRecord(d) ==
    /\ pc = "data"
    /\ Len(recorded) < MaxRecords
    /\ d.attr <= Len(attrs)
    /\ \/ d.id \in ToSet(attrs[d.attr].ids)
       \/ \E i \in DOMAIN recorded : /\ recorded[i].type = "event_id"
                                      /\ <<d.attr, d.id>> = SubSeq(recorded[i].fields, 2, 3)
    /\ LET rec  == BuildRecord(d)
           data == IF Len(rec) <= SizeLimit THEN rec ELSE Split(rec)
       IN  /\ Len(rec) > SizeLimit => d.type \in Custom
           /\ Write(data)
           /\ w' = [w EXCEPT !.data_size = @ + Len(data)]
    /\ recorded' = Append(recorded, d)
    /\ UNCHANGED <<attrs, pc, todo, r>>

\* feature_count of DumpAdditionalFeatures.
FeatureCount == 6 + Cardinality({i \in DOMAIN todo : todo[i].feature = "branch_stack"})

\* ReadDataSection, which leaves the file position at the end of the data,
\* then BeginWriteFeatures, which reserves the descriptors.
BeginWriteFeatures ==
    /\ pc = "data"
    /\ LET start == w.data_offset + w.data_size IN
       /\ cells' = WriteAt(cells, start, [i \in 1 .. FeatureCount |-> 0])
       /\ pos' = start + FeatureCount
       /\ w' = [w EXCEPT !.feature_offset = start, !.feature_count = FeatureCount]
    /\ pc' = "features"
    /\ UNCHANGED <<attrs, todo, recorded, r>>

DexFile == 4  \* DSO_DEX_FILE, the only type that has dex file offsets

\* The bytes of each feature.
FileFeature(c) ==
    LET rest == Terminated(c.path) \o <<c.type, c.min_vaddr, Len(c.symbols)>>
                \o FlattenSeq([i \in DOMAIN c.symbols |->
                       <<c.symbols[i].addr, c.symbols[i].len>> \o Terminated(c.symbols[i].name)])
                \o (IF c.type = DexFile THEN <<Len(c.dex)>> \o c.dex ELSE <<>>)
    IN  <<Len(rest)>> \o rest

StringWithLength(s) == <<Len(s) + 1>> \o Terminated(s)

BuildIdRecord(name) == <<Len(name) + 2>> \o Terminated(name)

FeatureData(f) ==
    CASE f.feature = "file" -> FileFeature(f.content)
      [] f.feature = "cmdline" -> <<Len(f.content)>> \o FlattenSeq([i \in DOMAIN f.content |-> StringWithLength(f.content[i])])
      [] f.feature = "build_id" -> FlattenSeq([i \in DOMAIN f.content |-> BuildIdRecord(f.content[i])])
      [] f.feature = "meta_info" -> FlattenSeq([i \in DOMAIN f.content |-> Terminated(f.content[i])])
      [] f.feature = "branch_stack" -> <<>>
      [] OTHER -> StringWithLength(f.content)

\* Mutant: a second file starts a section of its own under the same feature.
RestartsSection(f) ==
    LET data == FeatureData(f) IN
    /\ Write(data)
    /\ w' = [w EXCEPT !.features = [x \in DOMAIN @ \cup {f.feature} |->
                IF x = f.feature THEN [offset |-> pos, size |-> Len(data)] ELSE @[x]]]

\* WriteFeatureBegin, the data and WriteFeatureEnd.
WriteFeature(f) ==
    LET data  == FeatureData(f)
        known == f.feature \in DOMAIN w.features
        start == IF known THEN w.features[f.feature].offset ELSE pos
    IN  /\ Write(data)
        /\ w' = [w EXCEPT !.features = [x \in DOMAIN @ \cup {f.feature} |->
                    IF x = f.feature THEN [offset |-> start, size |-> pos + Len(data) - start]
                    ELSE @[x]]]

WriteNextFeature ==
    /\ pc = "features" /\ todo # <<>>
    /\ WriteFeature(Head(todo))
    /\ todo' = Tail(todo)
    /\ pc' = IF Cardinality(DOMAIN w'.features) <= w.feature_count THEN pc ELSE "aborted"
    /\ UNCHANGED <<attrs, recorded, r>>

\* features_ is a std::map: its descriptors go out in the order of the ids.
ById(features) ==
    [i \in 1 .. Cardinality(features) |->
        CHOOSE f \in features : Cardinality({g \in features : FeatureId[g] < FeatureId[f]}) = i - 1]

EndWriteFeatures ==
    /\ pc = "features" /\ todo = <<>>
    /\ LET order == ById(DOMAIN w.features)
           descs == [i \in DOMAIN order |-> w.features[order[i]]]
       IN  /\ cells' = WriteAt(cells, w.feature_offset, descs)
           /\ pos' = w.feature_offset + Len(descs)
    /\ pc' = "close"
    /\ UNCHANGED <<attrs, w, todo, recorded, r>>

Close ==
    /\ pc = "close"
    /\ cells' = WriteAt(cells, 0, <<[attrs |-> [offset |-> w.attr_offset, size |-> w.attr_size],
                                     data |-> [offset |-> w.data_offset, size |-> w.data_size],
                                     features |-> DOMAIN w.features]>>)
    /\ pos' = 1
    /\ pc' = "closed"
    /\ UNCHANGED <<attrs, w, todo, recorded, r>>

\* ~RecordFileWriter unlinks a file that was not closed.
Discard ==
    /\ pc \in {"data", "features", "close"}
    /\ pc' = "removed"
    /\ cells' = <<>>
    /\ UNCHANGED <<attrs, pos, w, todo, recorded, r>>
----------------------------------------------------------------------------
(* RecordFileReader. *)

At(offset, n) == SubSeq(cells, offset + 1, offset + n)

\* GetCommonEventIdPositionsForAttrs: where the id is from the front of a
\* sample and from the back of another record; the types around it agree.
HaveCommonPositions(list) ==
    \A i \in DOMAIN list :
        /\ "ID" \in list[i].sample_type
        /\ \A S \in {{"IP", "TID", "TIME", "ADDR"}, {"CPU", "STREAM_ID"}} :
              list[i].sample_type \cap S = list[1].sample_type \cap S

EventIdPos(T) == 2 + Cardinality(T \cap {"IP", "TID", "TIME", "ADDR"})
EventIdReversePos(T) == 1 + Cardinality(T \cap {"CPU", "STREAM_ID"})

\* CreateInstance: ReadHeader, ReadAttrSection, ReadFeatureSectionDescriptors.
Open ==
    /\ pc = "closed"
    /\ LET header == cells[1]
           list   == At(header.attrs.offset, header.attrs.size)
           read   == [i \in DOMAIN list |-> [sample_type |-> list[i].sample_type,
                                             ids |-> At(list[i].offset, list[i].size)]]
           ids    == UNION {ToSet(read[i].ids) : i \in DOMAIN read}
           order  == ById(header.features)
           descs  == At(header.data.offset + header.data.size, Len(order))
       IN  /\ r' = [r EXCEPT !.attrs = read,
                             !.map = [id \in ids |-> CHOOSE i \in DOMAIN read : id \in ToSet(read[i].ids)],
                             !.sections = [f \in header.features |->
                                              descs[CHOOSE i \in DOMAIN order : order[i] = f]],
                             !.ok = Len(list) > 0 /\ (Len(list) > 1 => HaveCommonPositions(list))]
           /\ pc' = IF r'.ok THEN "reading" ELSE "refused"
    /\ UNCHANGED <<attrs, cells, pos, w, todo, recorded>>

\* The record at offset p of the data section, its SPLIT pieces put together,
\* and the cells it takes there.
RECURSIVE Pieces(_)
Pieces(q) ==
    LET hdr  == cells[q + 1]
        rest == Pieces(q + hdr.size)
    IN  IF hdr.type = "split"
        THEN [rec |-> At(q + 1, hdr.size - 1) \o rest.rec, size |-> hdr.size + rest.size, ok |-> rest.ok]
        ELSE [rec |-> <<>>, size |-> hdr.size, ok |-> hdr.type = "split_end"]

RecordAt(p) ==
    LET q == cells[1].data.offset + p IN
    IF cells[q + 1].type = "split" THEN Pieces(q)
    ELSE [rec |-> At(q, cells[q + 1].size), size |-> cells[q + 1].size, ok |-> TRUE]

\* Mutant: the id of a record that is not a sample is its last cell.
IdIsLast(rec) ==
    IF Len(r.attrs) = 1 \/ rec[1].type \in Custom THEN 1
    ELSE LET T  == r.attrs[1].sample_type
             id == IF rec[1].type = "sample" THEN rec[EventIdPos(T)] ELSE rec[Len(rec)]
         IN  IF id \in DOMAIN r.map THEN r.map[id] ELSE 1

\* The attribute a record is read with: by its event id when there are more
\* than one.
AttrOf(rec) ==
    IF Len(r.attrs) = 1 \/ rec[1].type \in Custom THEN 1
    ELSE LET T  == r.attrs[1].sample_type
             id == IF rec[1].type = "sample" THEN rec[EventIdPos(T)]
                   ELSE rec[Len(rec) - EventIdReversePos(T) + 1]
         IN  IF id \in DOMAIN r.map THEN r.map[id] ELSE 1

\* ReadRecord and, for an EVENT_ID record, ProcessEventIdRecord.
ReadRecord ==
    /\ pc = "reading" /\ r.at < cells[1].data.size
    /\ LET found  == RecordAt(r.at)
           attr   == AttrOf(found.rec)
           parsed == ParseRecord(r.attrs[attr], found.rec)
           pairs  == IF parsed.type = "event_id" THEN 1 .. parsed.fields[1] ELSE {}
           ids    == {parsed.fields[2 * k + 1] : k \in pairs}
           attrIn(id) == parsed.fields[2 * (CHOOSE k \in pairs : parsed.fields[2 * k + 1] = id)]
       IN  r' = [r EXCEPT !.at = @ + found.size,
                          !.records = Append(@, [parsed EXCEPT !.ok = @ /\ found.ok] @@ [attr |-> attr]),
                          !.map = [id \in DOMAIN @ \cup ids |-> IF id \in ids THEN attrIn(id) ELSE @[id]]]
    /\ UNCHANGED <<attrs, pc, cells, pos, w, todo, recorded>>

\* The features, decoded.
RECURSIVE ReadStrings(_)
ReadStrings(s) ==
    IF s = <<>> THEN <<>>
    ELSE LET n == StrLen(s, 1) IN <<SubSeq(s, 1, n)>> \o ReadStrings(SubSeq(s, n + 2, Len(s)))

\* Strings after their sizes; the size of a build id record counts itself.
RECURSIVE ReadSized(_, _)
ReadSized(s, own) ==
    IF s = <<>> THEN <<>>
    ELSE <<SubSeq(s, 2, 1 + StrLen(s, 2))>> \o ReadSized(SubSeq(s, 2 - own + s[1], Len(s)), own)

RECURSIVE ReadSymbols(_, _)
ReadSymbols(s, n) ==
    IF n = 0 THEN [symbols |-> <<>>, rest |-> s]
    ELSE LET len  == StrLen(s, 3)
             more == ReadSymbols(SubSeq(s, len + 4, Len(s)), n - 1)
         IN  [symbols |-> <<[addr |-> s[1], len |-> s[2], name |-> SubSeq(s, 3, len + 2)]>> \o more.symbols,
              rest |-> more.rest]

\* ReadFileFeature, over and over until the section is used up.
RECURSIVE ReadFileFeature(_)
ReadFileFeature(s) ==
    IF s = <<>> THEN <<>>
    ELSE LET buf  == SubSeq(s, 2, 1 + s[1])
             n    == StrLen(buf, 1)
             syms == ReadSymbols(SubSeq(buf, n + 5, Len(buf)), buf[n + 4])
         IN  <<[path |-> SubSeq(buf, 1, n), type |-> buf[n + 2], min_vaddr |-> buf[n + 3],
                symbols |-> syms.symbols,
                dex |-> IF buf[n + 2] = DexFile THEN Tail(syms.rest) ELSE <<>>]>>
             \o ReadFileFeature(SubSeq(s, 2 + s[1], Len(s)))

ReadFeatureSection(f) == At(r.sections[f].offset, r.sections[f].size)

ReadFeature(f) ==
    LET data == ReadFeatureSection(f) IN
    CASE f = "file" -> ReadFileFeature(data)
      [] f = "cmdline" -> ReadSized(Tail(data), 0)
      [] f = "build_id" -> ReadSized(data, 1)
      [] f = "meta_info" -> ReadStrings(data)
      [] f = "branch_stack" -> <<>>
      [] OTHER -> ReadSized(data, 0)[1]

FinishReading ==
    /\ pc = "reading" /\ r.at >= cells[1].data.size
    /\ pc' = "read"
    /\ UNCHANGED <<attrs, cells, pos, w, todo, recorded, r>>

Next ==
    \/ WriteAttrSection
    \/ \E d \in DataRecords : WriteRecord(d)
    \/ BeginWriteFeatures
    \/ WriteNextFeature
    \/ EndWriteFeatures
    \/ Close
    \/ Discard
    \/ Open
    \/ ReadRecord
    \/ FinishReading

Spec == Init /\ [][Next]_vars
----------------------------------------------------------------------------
\* A file that was closed reads back as it was written: the attributes with
\* their ids, every record once and in order, whole when it had been split,
\* and under the attribute whose event produced it, even an event whose id
\* the file only learns of half way through (record_file_reader.cpp:272-339).
RecordsReadBack ==
    pc = "read" =>
        /\ r.attrs = attrs
        /\ Len(r.records) = Len(recorded)
        /\ \A i \in DOMAIN recorded :
              /\ r.records[i].ok
              /\ r.records[i].type = recorded[i].type
              /\ r.records[i].fields = recorded[i].fields
              /\ r.records[i].name = recorded[i].name
              /\ recorded[i].type \notin Custom => r.records[i].attr = recorded[i].attr

\* Each feature is found by its bit, through descriptors that were reserved
\* before the data they describe and sorted by another key, and decodes to
\* what was written; the feature that is written file by file comes back as
\* one list.  The room reserved holds the descriptors: CHECK_LT and CHECK_LE
\* on features_.size() never fail (record_file_writer.cpp:222-424).
FeaturesReadBack ==
    /\ pc # "aborted"
    /\ pc = "read" =>
        /\ DOMAIN r.sections = {f \in DOMAIN FeatureId : f \in DOMAIN w.features}
        /\ \E list \in FeatureLists :
              /\ DOMAIN r.sections = {list[i].feature : i \in DOMAIN list}
              /\ \A f \in DOMAIN r.sections :
                    LET given == SelectSeq(list, LAMBDA e : e.feature = f) IN
                    IF f = "file" THEN ReadFeature(f) = [i \in DOMAIN given |-> given[i].content]
                    ELSE ReadFeature(f) = given[1].content
=============================================================================
