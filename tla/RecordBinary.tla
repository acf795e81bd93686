---------------------------- MODULE RecordBinary ----------------------------
(***************************************************************************)
(* The records of simpleperf (record.cpp): how they lie in memory and in   *)
(* the record file, and the edits SampleRecord makes to itself in place.   *)
(*                                                                         *)
(* A binary is a header and a sequence of cells of eight bytes: a pid and  *)
(* a tid share a cell, a raw block of n cells follows a cell that holds n, *)
(* a branch is three cells, a string takes as many cells as its alignment  *)
(* gives it.  Sizes count the header as one cell.  A record keeps a copy   *)
(* of the header and of the scalar fields and the places of the others,    *)
(* so that an edit has to keep the record and its binary together.         *)
(***************************************************************************)
EXTENDS Integers, Sequences, FiniteSets, SequencesExt

CONSTANTS
    ContextMax,     \* PERF_CONTEXT_MAX: values above it mark a context
    ContextUser,    \* PERF_CONTEXT_USER
    ContextKernel   \* PERF_CONTEXT_KERNEL

SampleScalars == <<"IP", "TID", "TIME", "ADDR", "ID", "STREAM_ID", "CPU", "PERIOD">>

Present(fields, T) == SelectSeq(fields, LAMBDA f : f \in T)

\* Writes cells at place p of a buffer.
Put(buf, p, cells) ==
    [i \in DOMAIN buf |-> IF i \in p .. p + Len(cells) - 1 THEN cells[i - p + 1] ELSE buf[i]]

Cells(buf, p, n) == SubSeq(buf, p, p + n - 1)

MoveToBinaryFormat(hdr, buf) == [hdr |-> hdr, buf |-> buf]
----------------------------------------------------------------------------
(* SampleRecord. *)

\* The blocks of a sample after its scalar fields, and the cells each takes.
Blocks == <<"CALLCHAIN", "RAW", "BRANCH", "REGS", "STACK">>

BlockSize(attr, block, n) ==
    IF block \notin attr.sample_type THEN 0
    ELSE CASE block = "BRANCH" -> 1 + 3 * n
           [] block = "REGS" -> 1 + IF n = 0 THEN 0 ELSE attr.sample_regs_user
           [] block = "STACK" -> 1 + n + IF n = 0 THEN 0 ELSE 1
           [] OTHER -> 1 + n

After(attr, buf, block, p) ==
    IF block \in attr.sample_type THEN p + BlockSize(attr, block, buf[p]) ELSE p

\* SampleRecord(attr, p).  Places count the cells after the header from 1.
ParseSample(attr, bin) ==
    LET T     == attr.sample_type
        names == Present(SampleScalars, T)
        place[i \in 1 .. 6] ==
            IF i = 1 THEN Len(names) + 1
            ELSE After(attr, bin.buf, Blocks[i - 1], place[i - 1])
        n(i) == IF Blocks[i] \in T THEN bin.buf[place[i]] ELSE 0
    IN  [hdr |-> bin.hdr, bin |-> bin, T |-> T,
         scalar |-> [f \in ToSet(names) |-> bin.buf[CHOOSE i \in DOMAIN names : names[i] = f]],
         ips |-> place[1] + 1, ip_nr |-> n(1), raw |-> place[2] + 1, raw_nr |-> n(2),
         branch |-> place[3] + 1, branch_nr |-> n(3),
         abi |-> n(4), reg_nr |-> BlockSize(attr, "REGS", n(4)) - 1,
         stack |-> place[5] + 1, stack_size |-> n(5),
         dyn_size |-> IF n(5) = 0 THEN 0 ELSE bin.buf[place[6] - 1],
         checked |-> place[6] <= bin.hdr.size]

CallChain(r) == Cells(r.bin.buf, r.ips, r.ip_nr)

InKernel(r) == r.hdr.misc = "kernel"

GetValidStackSize(r) == IF r.dyn_size = 0 THEN r.stack_size ELSE r.dyn_size

\* What WriteRecord stores: record.size() bytes of record.Binary().
Written(r) == [hdr |-> r.bin.hdr, buf |-> SubSeq(r.bin.buf, 1, r.hdr.size - 1)]

RemoveInvalidStackData(r) ==
    LET valid == GetValidStackSize(r)
        shrunk == Put(r.bin.buf, r.stack - 1, <<valid>>)
        buf   == IF valid = 0 THEN shrunk ELSE Put(shrunk, r.stack + valid, <<r.dyn_size>>)
        hdr   == [r.hdr EXCEPT !.size = r.stack + valid + IF valid = 0 THEN 0 ELSE 1]
    IN  IF "STACK" \in r.T /\ r.stack_size > valid
        THEN [r EXCEPT !.hdr = hdr, !.stack_size = valid, !.bin = MoveToBinaryFormat(hdr, buf)]
        ELSE r

\* The addresses of the call instructions instead of the return addresses.
AdjustCallChainGeneratedByKernel(r) ==
    LET ips    == CallChain(r)
        isIp   == {i \in DOMAIN ips : ips[i] > 0 /\ ips[i] < ContextMax}
        first  == CHOOSE i \in isIp : \A j \in isIp : i <= j
        adjust == [i \in DOMAIN ips |-> IF i \in isIp /\ i # first THEN ips[i] - 1 ELSE ips[i]]
    IN  [r EXCEPT !.bin.buf = Put(@, r.ips, adjust)]

\* Moves the n cells at p of a buffer, with their count before them, to q.
MoveBlock(buf, count, p, n, q) == Put(buf, q, <<count>> \o Cells(buf, p, n))

\* The registers and the stack give their room to the unwound chain; what
\* lies between the chain and them moves up, last block first.
ReplaceRegAndStackWithCallChain(r, ips) ==
    LET growth == Len(ips) - r.reg_nr - r.stack_size
        hdr    == [r.hdr EXCEPT !.size = @ + growth]
        end    == r.stack + r.stack_size + 1 + growth
        p2     == end - 2 - (IF "BRANCH" \in r.T THEN 3 * r.branch_nr + 1 ELSE 0)
        p3     == p2 - (IF "RAW" \in r.T THEN r.raw_nr + 1 ELSE 0)
        p5     == p3 - Len(ips) - 1 - r.ip_nr
        empty(buf)  == Put(buf, end - 2, <<0, 0>>)
        branch(buf) == IF "BRANCH" \in r.T
                       THEN MoveBlock(buf, r.branch_nr, r.branch, 3 * r.branch_nr, p2) ELSE buf
        raw(buf)    == IF "RAW" \in r.T THEN MoveBlock(buf, r.raw_nr, r.raw, r.raw_nr, p3) ELSE buf
        chain(buf)  == Put(buf, p3 - Len(ips) - 1, <<ContextUser>> \o ips)
        ip_nr       == r.ip_nr + Len(ips) + 1
    IN  [r EXCEPT !.hdr = hdr,
                  !.bin = MoveToBinaryFormat(hdr, Put(chain(raw(branch(empty(r.bin.buf)))), p5 - 1, <<ip_nr>>)),
                  !.stack_size = 0, !.abi = 0, !.ips = p5, !.ip_nr = ip_nr,
                  !.checked = @ /\ growth <= 0]

\* The kernel part becomes a run of ContextUser marks; the sample is said to
\* be where the user chain starts.  user_length is the value returned.
ExcludeKernelCallChain(r) ==
    LET ips   == CallChain(r)
        marks == {i \in DOMAIN ips : ips[i] = ContextUser}
        user  == IF marks = {} THEN Len(ips) + 1 ELSE 1 + CHOOSE i \in marks : \A j \in marks : i <= j
        wiped == [i \in DOMAIN ips |-> IF i < user THEN ContextUser ELSE ips[i]]
        r1    == [r EXCEPT !.bin.buf = Put(@, r.ips, wiped)]
        inUser == marks # {} /\ user <= Len(ips)
    IN  IF "CALLCHAIN" \notin r.T THEN [rec |-> r, user_length |-> 0]
        ELSE [user_length |-> Len(ips) - (user - 1),
              rec |-> IF ~inUser THEN r1
                      ELSE [r1 EXCEPT !.scalar = IF "IP" \in r.T THEN [@ EXCEPT !["IP"] = ips[user]] ELSE @,
                                      !.bin.buf = IF "IP" \in r.T THEN Put(@, 1, <<ips[user]>>) ELSE @,
                                      !.hdr.misc = "user", !.bin.hdr.misc = "user"]]

\* Mutant: an address of the kernel part counts as well.
HasAnyCallChain(r) == "CALLCHAIN" \in r.T /\ \E i \in DOMAIN CallChain(r) : CallChain(r)[i] < ContextMax

HasUserCallChain(r) ==
    LET ips == CallChain(r) IN
    /\ "CALLCHAIN" \in r.T
    /\ \E i \in DOMAIN ips :
          /\ ips[i] < ContextMax
          /\ ~InKernel(r) \/ \E j \in 1 .. i - 1 : ips[j] = ContextUser

\* A new binary with the user part of the chain replaced by user_ips.  A
\* chain that gives the record the size it has already is not stored.
UpdateUserCallChain(r, user_ips) ==
    LET ips    == CallChain(r)
        marks  == {i \in DOMAIN ips : ips[i] = ContextUser}
        kernel == IF marks = {} THEN ips ELSE SubSeq(ips, 1, (CHOOSE i \in marks : \A j \in marks : i <= j) - 1)
        chain  == Append(kernel, ContextUser) \o user_ips
        hdr    == [r.hdr EXCEPT !.size = @ - r.ip_nr + Len(chain)]
        names  == Present(SampleScalars, r.T)
        buf    == [i \in DOMAIN names |-> r.scalar[names[i]]]
                  \o <<Len(chain)>> \o chain
                  \o (IF "RAW" \in r.T THEN <<r.raw_nr>> \o Cells(r.bin.buf, r.raw, r.raw_nr) ELSE <<>>)
                  \o (IF "BRANCH" \in r.T
                      THEN <<r.branch_nr>> \o Cells(r.bin.buf, r.branch, 3 * r.branch_nr) ELSE <<>>)
                  \o (IF "REGS" \in r.T THEN <<r.abi>> ELSE <<>>)
                  \o (IF "STACK" \in r.T THEN <<r.stack_size>> ELSE <<>>)
    IN  IF hdr.size = r.hdr.size THEN r
        ELSE [r EXCEPT !.hdr = hdr, !.bin = MoveToBinaryFormat(hdr, buf),
                       !.ips = Len(names) + 2, !.ip_nr = Len(chain),
                       !.checked = @ /\ r.abi = 0 /\ r.stack_size = 0 /\ hdr.size = 1 + Len(buf)]

\* The chain a report shows: the sampled address, then the chain without the
\* marks and without a first address that repeats the sampled one.
GetCallChain(r) ==
    LET addrs == SelectSeq(CallChain(r), LAMBDA a : a < ContextMax) IN
    <<r.scalar["IP"]>> \o IF addrs # <<>> /\ addrs[1] = r.scalar["IP"] THEN Tail(addrs) ELSE addrs

\* CHECK(in_kernel) at a ContextKernel mark: no kernel part after a user part.
ChainOrdered(r) ==
    LET ips == CallChain(r) IN
    \A i \in DOMAIN ips : ips[i] = ContextKernel
        => InKernel(r) /\ \A j \in 1 .. i - 1 : ips[j] # ContextUser
=============================================================================
