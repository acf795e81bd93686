---------------------------- MODULE ReportSample ----------------------------
(***************************************************************************)
(* The report-sample command of simpleperf and ReportLib, the library of   *)
(* its scripts: each sample of a record file is reported with its call     *)
(* chain, as text, to the caller of the library, or in a protobuf file     *)
(* where files and symbols are numbers, which --dump-protobuf-report reads *)
(* back.  A frame is [file, own, kern, kernel]: the file mapped at its     *)
(* address, the symbol found there and the one the kernel's symbols have.  *)
(***************************************************************************)
EXTENDS Integers, Sequences, FiniteSets, SequencesExt

CONSTANTS
    Modes,       \* [mode : {"protobuf", "text", "lib"}, callchain, art, remove_kernel, offcpu : BOOLEAN]
    Kind,        \* [file -> {"elf", "dex", "interpreter", "libc", "kernel", "module", "unknown"}]
    Samples,     \* [tid, frames]: samples that may be read
    NoSymbol, EndSymbols,
    Kernel,
    MaxSamples

VARIABLES
    opt, pc,
    file_ids, symbol_ids,       \* dump ids given so far
    out,                        \* the samples reported, each a sequence of entries
    files,                      \* the files of the protobuf report
    sample_count, lost_count,
    next,                       \* next_sample_cache_
    count, read                 \* ghosts: samples read, samples handled in order

vars == <<opt, pc, file_ids, symbol_ids, out, files, sample_count, lost_count, next, count, read>>

Is(frame, kind) == Kind[frame.file] = kind
----------------------------------------------------------------------------
\* GetCallEntry and ThreadTree::FindSymbol: a kernel module's address may have
\* its symbol in the kernel; the library names the mapped file in any case, and
\* so does the protobuf report for an unknown symbol.
GetCallEntry(frame) ==
    LET in_kernel == frame.kernel /\ (frame.file = Kernel \/ frame.own = NoSymbol)
        symbol == IF in_kernel THEN frame.kern ELSE frame.own
        mapped == opt.mode = "lib" \/ (opt.mode = "protobuf" /\ symbol = NoSymbol)
    IN  [file |-> IF in_kernel /\ ~mapped THEN Kernel ELSE frame.file, symbol |-> symbol,
         interpreter |-> Kind[IF in_kernel /\ ~mapped THEN Kernel ELSE frame.file] = "interpreter"]

KernelCount(frames) == Len(SelectSeq(frames, LAMBDA f : f.kernel))

\* The addresses to report, kernel ones first: GetCallChain and the options.
Ips(s) ==
    LET ips == IF opt.remove_kernel THEN SubSeq(s.frames, KernelCount(s.frames) + 1, Len(s.frames)) ELSE s.frames
    IN  IF ips = <<>> \/ opt.callchain THEN ips ELSE <<ips[1]>>

DropInterpreter(entries) ==
    LET keep == {n \in 0 .. Len(entries) : \A i \in n + 1 .. Len(entries) : entries[i].interpreter}
    IN  SubSeq(entries, 1, CHOOSE n \in keep : \A m \in keep : n <= m)

\* One turn of the loop over the addresses.
AddEntry(acc, frame) ==
    LET entry == GetCallEntry(frame) IN
    IF acc.stop \/ (opt.mode # "lib" /\ acc.i > 0 /\ Is(frame, "unknown")) THEN [acc EXCEPT !.stop = TRUE]
    ELSE IF opt.art THEN [acc EXCEPT !.i = @ + 1, !.entries = Append(@, entry)]
    ELSE IF Is(frame, "dex")
    THEN [acc EXCEPT !.i = @ + 1, !.near = TRUE, !.entries = Append(DropInterpreter(@), entry)]
    ELSE IF entry.interpreter
    THEN [acc EXCEPT !.i = @ + 1, !.entries = IF acc.near THEN @ ELSE Append(@, entry)]
    ELSE [acc EXCEPT !.i = @ + 1, !.near = FALSE, !.entries = Append(@, entry)]

Entries(s) == FoldLeft(AddEntry, [i |-> 0, near |-> FALSE, stop |-> FALSE, entries |-> <<>>], Ips(s)).entries
----------------------------------------------------------------------------
(* The protobuf report. *)

Given(ids, key, n) == [k \in DOMAIN ids \cup {key} |-> IF k \in DOMAIN ids THEN ids[k] ELSE n]

\* Mutant: symbols are numbered over all files.
NumberedOverAll(ids, file, symbol) == Given(ids, <<file, symbol>>, Cardinality(DOMAIN ids))

CreateSymbolDumpId(ids, file, symbol) ==
    Given(ids, <<file, symbol>>, Cardinality({k \in DOMAIN ids : k[1] = file}))

\* The end of a complete call chain, which Android Studio looks for.
IsEnd(e) == Kind[e.file] = "libc" /\ e.symbol \in EndSymbols
UpToEnd(entries) ==
    LET i == SelectInSeq(entries, IsEnd) IN IF i = 0 THEN entries ELSE SubSeq(entries, 1, i)

PrintEntry(acc, e) ==
    LET fids == Given(acc.file_ids, e.file, Cardinality(DOMAIN acc.file_ids))
        sids == IF e.symbol = NoSymbol THEN acc.symbol_ids
                ELSE CreateSymbolDumpId(acc.symbol_ids, e.file, e.symbol)
    IN  [file_ids |-> fids, symbol_ids |-> sids,
         chain |-> Append(acc.chain, [file_id |-> fids[e.file],
                                      symbol_id |-> IF e.symbol = NoSymbol THEN -1 ELSE sids[<<e.file, e.symbol>>]])]

PrintSampleRecordInProtobuf(entries) ==
    \E r \in {FoldLeft(PrintEntry, [file_ids |-> file_ids, symbol_ids |-> symbol_ids, chain |-> <<>>],
                       UpToEnd(entries))} :
        /\ file_ids' = r.file_ids /\ symbol_ids' = r.symbol_ids
        /\ out' = Append(out, r.chain)

\* ProcessSampleRecord, and SetCurrentSample of the library.
ProcessSampleRecord(s) ==
    /\ read' = Append(read, s)
    /\ IF Ips(s) = <<>> THEN UNCHANGED <<sample_count, out, file_ids, symbol_ids>>
       ELSE /\ sample_count' = sample_count + 1
            /\ IF opt.mode = "protobuf" THEN PrintSampleRecordInProtobuf(Entries(s))
               ELSE out' = Append(out, Entries(s)) /\ UNCHANGED <<file_ids, symbol_ids>>
----------------------------------------------------------------------------
Init ==
    /\ opt \in Modes /\ pc = "reading"
    /\ file_ids = <<>> /\ symbol_ids = <<>> /\ out = <<>> /\ files = <<>>
    /\ sample_count = 0 /\ lost_count = 0 /\ next = <<>> /\ count = 0 /\ read = <<>>

ReadSample(s) ==
    /\ pc = "reading" /\ count < MaxSamples /\ count' = count + 1
    /\ IF opt.mode = "lib" /\ opt.offcpu
       THEN /\ next' = [t \in DOMAIN next \cup {s.tid} |-> IF t = s.tid THEN s ELSE next[t]]
            /\ IF s.tid \in DOMAIN next THEN ProcessSampleRecord(next[s.tid])
               ELSE UNCHANGED <<read, sample_count, out, file_ids, symbol_ids>>
       ELSE ProcessSampleRecord(s) /\ UNCHANGED next
    /\ UNCHANGED <<opt, pc, files, lost_count>>

ReadLost ==
    /\ pc = "reading" /\ lost_count = 0 /\ opt.mode # "lib"
    /\ lost_count' = lost_count + 1
    /\ UNCHANGED <<opt, pc, file_ids, symbol_ids, out, files, sample_count, next, count, read>>

\* PrintFileInfoInProtobuf: files in the order of their ids, and in each the
\* symbols that have one in the order of theirs.
FileOf(id) == CHOOSE f \in DOMAIN file_ids : file_ids[f] = id
SymbolsOf(file) ==
    LET keys == {k \in DOMAIN symbol_ids : k[1] = file}
    IN  SetToSortSeq(keys, LAMBDA a, c : symbol_ids[a] < symbol_ids[c])

Finish ==
    /\ pc = "reading" /\ opt.mode = "protobuf"
    /\ files' = [i \in 1 .. Cardinality(DOMAIN file_ids) |->
                    [id |-> i - 1, file |-> FileOf(i - 1), symbols |-> SymbolsOf(FileOf(i - 1))]]
    /\ pc' = "written"
    /\ UNCHANGED <<opt, file_ids, symbol_ids, out, sample_count, lost_count, next, count, read>>

\* DumpProtobufReport: the largest symbol asked of each file has to be there.
MaxSymbols == {<<e.file_id, e.symbol_id>> : e \in {x \in UNION {ToSet(out[i]) : i \in DOMAIN out} : x.symbol_id # -1}}
DumpProtobufReport ==
    /\ pc = "written"
    /\ pc' = IF /\ \A i \in DOMAIN files : files[i].id = i - 1
                /\ \A m \in MaxSymbols : m[1] < Len(files) /\ m[2] < Len(files[m[1] + 1].symbols)
             THEN "accepted" ELSE "refused"
    /\ UNCHANGED <<opt, file_ids, symbol_ids, out, files, sample_count, lost_count, next, count, read>>

Next == (\E s \in Samples : ReadSample(s)) \/ ReadLost \/ Finish \/ DumpProtobufReport

Spec == Init /\ [][Next]_vars
----------------------------------------------------------------------------
\* The frames of a sample up to the first in no known file.
KnownFrames(s) ==
    LET ips == Ips(s)
        bad == {i \in 2 .. Len(ips) : Is(ips[i], "unknown")}
    IN  IF bad = {} \/ opt.mode = "lib" THEN ips
        ELSE SubSeq(ips, 1, (CHOOSE i \in bad : \A j \in bad : i <= j) - 1)

\* Frame i is between a Java frame and other interpreter frames, or next to it.
NearJava(frames, i) ==
    /\ Is(frames[i], "interpreter")
    /\ \E j \in DOMAIN frames :
        /\ Is(frames[j], "dex")
        /\ \A k \in DOMAIN frames : (i < k /\ k < j) \/ (j < k /\ k < i) => Is(frames[k], "interpreter")

Expected(s) ==
    LET known == KnownFrames(s)
        kept == SelectSeq([i \in DOMAIN known |-> i], LAMBDA i : opt.art \/ ~NearJava(known, i))
    IN  [i \in DOMAIN kept |-> GetCallEntry(known[kept[i]])]

Reported == SelectSeq(read, LAMBDA s : Ips(s) # <<>>)

\* What a reader of the protobuf report makes of an entry.
Resolved(e) ==
    <<files[e.file_id + 1].file,
      IF e.symbol_id = -1 THEN NoSymbol ELSE files[e.file_id + 1].symbols[e.symbol_id + 1][2]>>

\* Every sample is reported once, with the frames of its chain up to the first
\* address in no file, and without the frames of the interpreter around a Java
\* frame ("Remove interpreter frames both before and after the Java frame",
\* cmd_report_sample.cpp:506); none is reported empty, and the numbers in the
\* protobuf report lead a reader back to the files and symbols.
ReportReadsBack ==
    /\ pc # "refused" /\ Len(out) = sample_count /\ Len(out) = Len(Reported)
    /\ \A i \in DOMAIN out : out[i] # <<>>
    /\ opt.mode # "protobuf" => \A i \in DOMAIN out : out[i] = Expected(Reported[i])
    /\ pc = "accepted" =>
        \A i \in DOMAIN out :
            LET e == UpToEnd(Expected(Reported[i]))
            IN  [j \in DOMAIN out[i] |-> Resolved(out[i][j])] = [j \in DOMAIN e |-> <<e[j].file, e[j].symbol>>]
=============================================================================
