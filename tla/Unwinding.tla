------------------------------ MODULE Unwinding ------------------------------
(***************************************************************************)
(* What simpleperf record does to each sample (cmd_record.cpp): it stores  *)
(* it as it came, unwinds its stack at once, or stores it and unwinds it   *)
(* when recording is over; then, if asked, it joins the call chains and    *)
(* writes the file a last time with the longer chains.  The chains go      *)
(* through the files of CallChainJoiner and come back by their order only. *)
(*                                                                         *)
(* The unwinder, the kernel and the cache that extends a chain are         *)
(* external: they give any chain their contract allows.                    *)
(***************************************************************************)
EXTENDS RecordBinary

CONSTANTS
    Samples,    \* the samples the kernel may deliver
    Extensions, \* the frames joining may add to a chain
    Options,    \* [unwind, post_unwind, join, exclude_kernel, sample_type]
    Count       \* number of samples recorded

VARIABLES
    options,
    phase,      \* "record", "unwind", "join", "done" or "aborted"
    recorded,   \* samples delivered so far, the ghost the result is held against
    file,       \* the data section of record_filename_
    tmp,        \* what is left to read of the temporary file
    original,   \* original_chains_fp_
    joined,     \* joined_chains_fp_
    next        \* next_chain_index_ / 2

vars == <<options, phase, recorded, file, tmp, original, joined, next>>

Init ==
    /\ options \in Options
    /\ phase = "record"
    /\ recorded = <<>> /\ file = <<>> /\ tmp = <<>>
    /\ original = <<>> /\ joined = <<>> /\ next = 0

\* UnionSampleType gives all events the same sample type.
Attr(s) == [sample_type |-> options.sample_type, sample_regs_user |-> Len(s.regs)]

\* The record the kernel makes of a sample.
KernelRecord(s, time) ==
    LET scalar == [IP |-> s.ip, TID |-> s.tid, TIME |-> time, ADDR |-> 1, ID |-> 2,
                   STREAM_ID |-> 3, CPU |-> 4, PERIOD |-> 5]
        names  == Present(SampleScalars, options.sample_type)
        buf    == [i \in DOMAIN names |-> scalar[names[i]]]
                  \o (IF "CALLCHAIN" \in options.sample_type THEN <<Len(s.chain)>> \o s.chain ELSE <<>>)
                  \o (IF "RAW" \in options.sample_type THEN <<Len(s.raw)>> \o s.raw ELSE <<>>)
                  \o (IF "BRANCH" \in options.sample_type THEN <<Len(s.branch) \div 3>> \o s.branch ELSE <<>>)
                  \o (IF "REGS" \in options.sample_type THEN (IF s.regs = <<>> THEN <<0>> ELSE <<1>> \o s.regs) ELSE <<>>)
                  \o (IF "STACK" \in options.sample_type
                      THEN <<Len(s.stack)>> \o s.stack \o (IF s.stack = <<>> THEN <<>> ELSE <<s.dyn>>)
                      ELSE <<>>)
    IN  MoveToBinaryFormat([misc |-> s.mode, size |-> 1 + Len(buf)], buf)

SampleAt(time) == recorded[time].sample

\* GetAttrIndexOfRecord: the attr of a stored record, by its event id.
Parse(bin, s) == ParseSample(Attr(s), bin)

\* RecordFileReader::ReadRecord also cuts the chain at a zero address, in the
\* record and not in its binary.
ReadRecord(bin, s) ==
    LET r    == Parse(bin, s)
        zero == {i \in 1 .. r.ip_nr : CallChain(r)[i] = 0}
    IN  IF zero = {} THEN r
        ELSE [r EXCEPT !.ip_nr = (CHOOSE i \in zero : \A j \in zero : i <= j) - 1]
----------------------------------------------------------------------------
(* CallChainJoiner. *)

\* AddCallChain keeps the chain up to where its sps stop growing.
AddCallChain(tid, ips, kept) ==
    original' = Append(original, [tid |-> tid, ips |-> SubSeq(ips, 1, kept)])

\* Two passes, each reading backwards what it then writes forwards.
JoinedFile(exts) ==
    Reverse(Reverse([i \in DOMAIN original |->
                        [original[i] EXCEPT !.ips = @ \o exts[i]]]))
----------------------------------------------------------------------------
CanUnwind(r) ==
    /\ {"CALLCHAIN", "REGS", "STACK"} \subseteq r.T
    /\ r.reg_nr # 0
    /\ GetValidStackSize(r) > 0

\* UnwindCallChain starts at the ip register and stops where it has to; the
\* frames it finds never need more room than the registers and the stack.
Unwound(r, s) ==
    {SubSeq(s.user, 1, n) : n \in {m \in 1 .. Len(s.user) : m <= r.reg_nr + r.stack_size}}

\* Mutant: the kernel chain is dropped before the user chain is there.
ExcludesFirst(r0, s, ips) ==
    LET r1 == AdjustCallChainGeneratedByKernel(r0)
        excludes == InKernel(r1) /\ options.exclude_kernel
        e  == ExcludeKernelCallChain(r1)
        r2 == IF excludes THEN e.rec ELSE r1
    IN  [rec |-> IF CanUnwind(r2) THEN ReplaceRegAndStackWithCallChain(r2, ips) ELSE r2,
         skip |-> excludes /\ e.user_length = 0]

\* The edits of SaveRecordAfterUnwinding, UnwindRecord having found ips.
UnwindRecord(r0, s, ips) ==
    LET r1 == AdjustCallChainGeneratedByKernel(r0)
        r2 == IF CanUnwind(r1) THEN ReplaceRegAndStackWithCallChain(r1, ips) ELSE r1
        e  == ExcludeKernelCallChain(r2)
        excludes == InKernel(r2) /\ options.exclude_kernel
    IN  [rec |-> IF excludes THEN e.rec ELSE r2, skip |-> excludes /\ e.user_length = 0]

SaveRecordAfterUnwinding(r, s, time) ==
    \E ips \in IF CanUnwind(r) THEN Unwound(r, s) ELSE {<<>>} :
        LET saved == UnwindRecord(r, s, ips) IN
        /\ file' = IF saved.skip THEN file ELSE Append(file, Written(saved.rec))
        /\ recorded' = [recorded EXCEPT ![time].ips = ips, ![time].skip = saved.skip]
        /\ IF CanUnwind(r) /\ options.join
           THEN \E kept \in 1 .. Len(ips) : AddCallChain(s.tid, ips, kept)
           ELSE UNCHANGED original
        /\ phase' = IF saved.rec.checked THEN phase ELSE "aborted"

SaveRecordForPostUnwinding(r) ==
    LET r1 == RemoveInvalidStackData(r) IN
    /\ file' = Append(file, Written(r1))
    /\ UNCHANGED <<recorded, original, phase>>

SaveRecordWithoutUnwinding(r, time) ==
    LET r1 == IF "CALLCHAIN" \in r.T THEN AdjustCallChainGeneratedByKernel(r) ELSE r
        excludes == InKernel(r1) /\ options.exclude_kernel
        e  == ExcludeKernelCallChain(r1)
        skip == excludes /\ e.user_length = 0
    IN  /\ file' = IF skip THEN file ELSE Append(file, Written(IF excludes THEN e.rec ELSE r1))
        /\ recorded' = [recorded EXCEPT ![time].skip = skip]
        /\ UNCHANGED <<original, phase>>

\* The kernel delivers a sample.
Deliver(s) ==
    /\ phase = "record"
    /\ Len(recorded) < Count
    /\ Len(tmp) = 0
    /\ s.dwarf = options.unwind
    /\ s.raw # <<>> => "RAW" \in options.sample_type
    /\ s.branch # <<>> => "BRANCH" \in options.sample_type
    /\ recorded' = Append(recorded, [sample |-> s, ips |-> <<>>, joined |-> <<>>, skip |-> FALSE])
    /\ tmp' = <<KernelRecord(s, Len(recorded) + 1)>>
    /\ UNCHANGED <<options, phase, file, original, joined, next>>

ProcessRecord ==
    /\ phase = "record" /\ tmp # <<>>
    /\ LET time == Len(recorded)
           r == Parse(tmp[1], SampleAt(time))
       IN  IF ~options.unwind THEN SaveRecordWithoutUnwinding(r, time)
           ELSE IF options.post_unwind THEN SaveRecordForPostUnwinding(r)
           ELSE SaveRecordAfterUnwinding(r, SampleAt(time), time)
    /\ tmp' = <<>>
    /\ UNCHANGED <<options, joined, next>>

\* Every attr has IP, TID and TIME (CreateDefaultPerfEventAttr): the third
\* cell tells which sample, and so which attr, a stored record is of.
TimeOf(bin) == bin.buf[3]

\* PostUnwindRecords: the file is moved aside and written again.
PostUnwindRecords ==
    /\ phase = "record" /\ tmp = <<>> /\ Len(recorded) = Count
    /\ options.unwind /\ options.post_unwind
    /\ phase' = "unwind" /\ tmp' = file /\ file' = <<>>
    /\ UNCHANGED <<options, recorded, original, joined, next>>

UnwindNext ==
    /\ phase = "unwind" /\ tmp # <<>>
    /\ LET time == TimeOf(tmp[1]) IN
       SaveRecordAfterUnwinding(ReadRecord(tmp[1], SampleAt(time)), SampleAt(time), time)
    /\ tmp' = Tail(tmp)
    /\ UNCHANGED <<options, joined, next>>

Unwinding == IF options.unwind /\ options.post_unwind THEN "unwind" ELSE "record"

AllSaved == phase = Unwinding /\ tmp = <<>> /\ Len(recorded) = Count

JoinCallChains ==
    /\ AllSaved /\ options.join
    /\ \E exts \in [DOMAIN original -> Extensions] : joined' = JoinedFile(exts)
    /\ phase' = "join" /\ tmp' = file /\ file' = <<>>
    /\ UNCHANGED <<options, recorded, original, next>>

\* record_callback: a sample with a user chain takes the next joined chain.
JoinNext ==
    /\ phase = "join" /\ tmp # <<>>
    /\ LET time == TimeOf(tmp[1])
           r    == ReadRecord(tmp[1], SampleAt(time))
           chain == joined[next + 1]
           r1   == UpdateUserCallChain(r, chain.ips)
       IN  IF ~HasUserCallChain(r)
           THEN file' = Append(file, Written(r)) /\ UNCHANGED <<phase, next, recorded>>
           ELSE IF next = Len(joined)
           THEN phase' = "aborted" /\ UNCHANGED <<file, next, recorded>>
           ELSE /\ file' = Append(file, Written(r1))
                /\ next' = next + 1
                /\ recorded' = [recorded EXCEPT ![time].joined = chain.ips]
                /\ phase' = IF chain.tid = r.scalar["TID"] /\ r1.checked THEN phase ELSE "aborted"
    /\ tmp' = Tail(tmp)
    /\ UNCHANGED <<options, original, joined>>

Finish ==
    /\ tmp = <<>>
    /\ IF options.join THEN phase = "join" ELSE AllSaved
    /\ phase' = "done"
    /\ UNCHANGED <<options, recorded, file, tmp, original, joined, next>>

Next ==
    \/ \E s \in Samples : Deliver(s)
    \/ ProcessRecord
    \/ PostUnwindRecords
    \/ UnwindNext
    \/ JoinCallChains
    \/ JoinNext
    \/ Finish

Spec == Init /\ [][Next]_vars
----------------------------------------------------------------------------
\* No CHECK of the code fails on a sample and every chain the joiner kept
\* goes back to the thread it came from: the chains are matched with the
\* samples by counting alone (cmd_record.cpp:1276-1289).
NoCheckFails == phase # "aborted"

\* The frames of the chain the kernel gave, from the mark or address at i on:
\* up to a zero, without marks, each caller at its call instruction.
FramesFrom(chain, i) ==
    LET isAddr(j) == chain[j] < ContextMax
        shown == [j \in DOMAIN chain |->
                     IF isAddr(j) /\ \E k \in 1 .. j - 1 : isAddr(k) THEN chain[j] - 1 ELSE chain[j]]
        stop  == {j \in DOMAIN chain : chain[j] = 0}
        last  == IF stop = {} THEN Len(chain) ELSE (CHOOSE j \in stop : \A k \in stop : j <= k) - 1
    IN  SelectSeq(SubSeq(shown, i, last), LAMBDA a : a < ContextMax)

\* The frames a report of sample t may show, the sampled address apart.
Expected(t) ==
    LET e      == recorded[t]
        chain  == e.sample.chain
        hidden == e.sample.mode = "kernel" /\ options.exclude_kernel
        user   == CHOOSE i \in 1 .. Len(chain) + 1 :
                      /\ i <= Len(chain) => chain[i] = ContextUser
                      /\ \A j \in 1 .. i - 1 : chain[j] # ContextUser
    IN  {FramesFrom(chain, IF hidden THEN user ELSE 1) \o u :
            u \in IF e.joined = <<>> THEN {e.ips} ELSE {e.ips, e.joined}}

\* Whatever was moved, wiped, shrunk or rewritten in place on the way, the
\* file at the end reads back with each sample kept once and in order, its
\* raw data and branches intact, and its call chain the kernel's frames (or
\* none of them, when the kernel is excluded) followed by the unwound or the
\* joined user frames (record.cpp:573-755).
SamplesReadBack ==
    phase = "done" =>
        LET kept == SelectSeq([t \in DOMAIN recorded |-> t], LAMBDA t : ~recorded[t].skip) IN
        /\ Len(file) = Len(kept)
        /\ \A i \in DOMAIN file :
              LET s == SampleAt(kept[i])
                  r == ReadRecord(file[i], s)
              IN  /\ r.checked /\ ChainOrdered(r)
                  /\ r.scalar["TIME"] = kept[i] /\ r.scalar["TID"] = s.tid
                  /\ Cells(file[i].buf, r.raw, r.raw_nr) = s.raw
                  /\ Cells(file[i].buf, r.branch, 3 * r.branch_nr) = s.branch
                  /\ \E frames \in Expected(kept[i]) :
                        GetCallChain(r) = IF frames # <<>> /\ (r.scalar["IP"] = frames[1])
                                          THEN frames ELSE <<s.ip>> \o frames
        /\ \A t \in DOMAIN recorded :
              recorded[t].skip => options.exclude_kernel /\ recorded[t].ips = <<>>
=============================================================================
