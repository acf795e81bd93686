-------------------------------- MODULE Fec ---------------------------------
(***************************************************************************)
(* libfec: reading an image that carries a verity hash tree and            *)
(* Reed-Solomon parity, and repairing it on the way.  The image is D data  *)
(* blocks with the verity metadata and the hash tree behind them, covered  *)
(* by interleaved parity and a header with a backup.  A block on disk is   *)
(* "ok", "bad" or "io" (it cannot be read); the metadata block may be      *)
(* "disabled", or "badsig" after a repair.  Offsets of reads are in bytes, *)
(* all others in blocks.                                                   *)
(***************************************************************************)
EXTENDS Integers, Sequences, FiniteSets, SequencesExt, FiniteSetsExt

CONSTANTS
    D, H, BS,            \* data blocks, hashes in a block, bytes in a block
    RSN, Roots,          \* data and parity symbols of a Reed-Solomon block
    Pad,                 \* blocks behind the metadata in the layout "fs"
    Zeros,               \* data blocks of zeros
    Damages,             \* what may be wrong: [blocks, io, parity, primary, backup, disabled]
    Layouts, Threads,
    Reads                \* <<offset, count>>

VARIABLES
    pc, layout, rdwr, noverity,
    disk, parity,        \* block contents; number of bad parity symbols of each round
    header,              \* [primary, backup]: "ok", "bad" or "half": sizes that contradict
    h,                   \* fec_handle: [ecc, data_size, hash, disabled, metadata_start,
                         \* errors corrected since the metadata was looked for]
    try, k, attempt,     \* where verity metadata is looked for, and the tree block being verified
    job                  \* the read under way

vars == <<pc, layout, rdwr, noverity, disk, parity, header, h, try, k, attempt, job>>

DivUp(x, y) == (x + y - 1) \div y
----------------------------------------------------------------------------
(* The layout of the image. *)

RECURSIVE LevelHashes(_)
LevelHashes(n) == IF DivUp(n, H) > 1 THEN <<n>> \o LevelHashes(DivUp(n, H)) ELSE <<n>>

verity_get_size(n) == FoldLeft(LAMBDA t, l : t + DivUp(l, H), 0, LevelHashes(n))
TreeSize == verity_get_size(D)
get_verity_size(n) == 1 + verity_get_size(n)

Metadata == IF layout = "end" THEN D + TreeSize ELSE D
HashStart == IF layout = "end" THEN D ELSE D + 1
N == D + 1 + TreeSize + IF layout = "fs" THEN Pad ELSE 0
Rounds == DivUp(N, RSN)
Blocks == 0 .. N - 1

\* Block t of the tree, the root first, level by level; the block with its hash.
TreeBlock(t) == HashStart + t
LevelBlocks == <<1>> \o Reverse(Tail(LevelHashes(D)))
LevelStart(i) == FoldLeft(LAMBDA s, l : s + l, 0, SubSeq(LevelBlocks, 1, i))
Parent(t) ==
    LET i == CHOOSE n \in 0 .. Len(LevelBlocks) - 1 : LevelStart(n) <= t /\ t < LevelStart(n + 1)
    IN  IF i = 0 THEN 0 ELSE LevelStart(i - 1) + (t - LevelStart(i)) \div H

RECURSIVE Search(_, _, _)
Search(size, lo, hi) ==     \* in half blocks
    LET mi == (hi + lo) \div 4
        total == mi + get_verity_size(mi)
    IN  IF lo >= hi THEN {}
        ELSE IF total < size THEN Search(size, 2 * (mi + 1), hi)
        ELSE IF total > size THEN Search(size, lo, 2 * mi)
        ELSE {mi}

\* find_offset: nothing is found when the lower end wraps around.
find_offset(size) ==
    LET mi == get_verity_size(size)
    IN  IF 2 * mi > size THEN {} ELSE Search(size, 2 * size - 4 * mi, 2 * size - mi)
----------------------------------------------------------------------------
(* Reed-Solomon decoding of the block at b: a round of the interleaving has *)
(* one block of each of its RSN parts.                                      *)

Group(b) == {c \in Blocks : c % Rounds = b % Rounds}
is_zero(c) == h.hash /\ c < h.data_size /\ c \in Zeros
Wrong(c) == ~is_zero(c) /\ disk[c] # "ok" /\ ~(disk[c] = "io" /\ c \in Zeros)

\* The blocks __ecc_read takes for corrupted.
Erasures(b) == {c \in Group(b) : ~is_zero(c) /\ (disk[c] = "io" \/ (c < h.data_size /\ disk[c] # "ok"))}

Errors(b) == Cardinality({c \in Group(b) : Wrong(c)}) + parity[b % Rounds]
Unmarked(b) == Cardinality({c \in Group(b) : Wrong(c)} \ Erasures(b)) + parity[b % Rounds]

Correctable(b, use_erasures) ==
    IF use_erasures THEN 2 * Unmarked(b) + Cardinality(Erasures(b)) <= Roots ELSE 2 * Errors(b) <= Roots

\* What __ecc_read may give; past its capacity the decoder fails or is wrong.
EccRead(b, use_erasures) == IF Correctable(b, use_erasures) THEN {"ok"} ELSE {"fail", "bad", "ok"}
Corrected(b) == IF Errors(b) > 0 THEN 1 ELSE 0

\* fec_pread of a whole block before the tree is known: pure ecc, or raw data.
PlainPread(b) ==
    IF ~h.ecc THEN {disk[b]} ELSE {IF o = "fail" THEN disk[b] ELSE o : o \in EccRead(b, FALSE)}
----------------------------------------------------------------------------
(* fec_open. *)

Handle == [ecc |-> FALSE, data_size |-> N, hash |-> FALSE, disabled |-> FALSE, metadata_start |-> -1, errors |-> 0]
NoJob == [offset |-> 0, count |-> 0, parts |-> <<>>, buf |-> <<>>, rc |-> 0, left |-> 0, disk |-> <<>>, hash |-> FALSE]

Init ==
    /\ pc = "ecc" /\ layout \in Layouts /\ rdwr \in BOOLEAN /\ noverity \in BOOLEAN
    /\ \E d \in Damages :
        /\ disk = [b \in Blocks |-> IF b \in d.io THEN "io" ELSE IF b \in d.blocks THEN "bad"
                                    ELSE IF b = Metadata /\ d.disabled THEN "disabled" ELSE "ok"]
        /\ parity = [r \in 0 .. Rounds - 1 |-> IF r = 0 THEN d.parity ELSE 0]
        /\ header = [primary |-> d.primary, backup |-> d.backup]
    /\ h = Handle /\ try = <<"end", "legacy", "fs">> /\ k = 0 /\ attempt = 1 /\ job = NoJob

\* Mutant: the backup header is not looked for.
PrimaryOnly == header.primary = "ok"

HeaderFound == header.primary = "ok" \/ header.backup = "ok"

\* load_ecc.  A header whose sizes contradict each other has set data_size by
\* the time it is refused.
LoadEcc ==
    /\ pc = "ecc" /\ pc' = "verity"
    /\ h' = [h EXCEPT !.ecc = HeaderFound,
                      !.data_size = IF ~HeaderFound /\ "half" \in {header.primary, header.backup} THEN @ - 1 ELSE @]
    /\ UNCHANGED <<layout, rdwr, noverity, disk, parity, header, try, k, attempt, job>>

NextPlace == try' = Tail(try) /\ pc' = IF Tail(try) = <<>> THEN "ready" ELSE "verity"

\* Where the next place to look is; e: what reading block 0 gives.
Place(e) ==
    CASE Head(try) = "end" -> {h.data_size - 1}
      [] Head(try) = "legacy" -> find_offset(h.data_size)
      [] OTHER -> IF e = "ok" THEN {D} ELSE {}

\* verity_parse_header up to the table: the raw header decides, or else the
\* corrected one; the alternative magic is looked for in the raw data.
ParseHeader ==
    /\ pc = "verity"
    /\ \E e0 \in PlainPread(0), e \in PlainPread(Metadata) :
        LET raw == disk[Metadata]
            found == Metadata \in Place(e0) /\ Metadata <= h.data_size - 1 /\ raw # "io"
                        /\ (raw # "bad" \/ e = "ok")
            table == IF raw # "bad" THEN 1 ELSE IF e = "ok" THEN 2 ELSE 3
        IN  IF ~found
            THEN NextPlace /\ UNCHANGED <<h, k, attempt>>
            ELSE /\ h' = [h EXCEPT !.metadata_start = Metadata, !.disabled = @ \/ raw = "disabled",
                                   !.errors = IF h.ecc THEN Corrected(Metadata) ELSE 0]
                 /\ IF table = 3 THEN NextPlace /\ UNCHANGED <<k, attempt>>
                    ELSE /\ attempt' = table /\ k' = 0
                         /\ pc' = IF noverity THEN "parsed" ELSE "tree"
                         /\ UNCHANGED try
    /\ UNCHANGED <<layout, rdwr, noverity, disk, parity, header, job>>

\* parse_table failed: once more with the corrected table, then elsewhere.
TableFailed ==
    /\ UNCHANGED <<disk, h>>
    /\ IF attempt = 1 THEN attempt' = 2 /\ k' = 0 /\ UNCHANGED <<pc, try>>
       ELSE NextPlace /\ UNCHANGED <<k, attempt>>

Repaired(blocks) == IF rdwr THEN [b \in Blocks |-> IF b \in blocks THEN "ok" ELSE disk[b]] ELSE disk

\* One block of verify_tree: its hash is read from its parent on disk, or from
\* the table for the root; both are corrected when they do not match.
VerifyTreeBlock ==
    /\ pc = "tree" /\ k < TreeSize
    /\ LET b == TreeBlock(k)
           p == TreeBlock(Parent(k))
           raw == IF k = 0 THEN disk[b] = "ok" ELSE disk[b] = "ok" /\ disk[p] = "ok"
           io == k > 0 /\ (disk[b] = "io" \/ disk[p] = "io")
       IN  \E e \in PlainPread(b), f \in PlainPread(p) :
              IF io \/ (~raw /\ (e # "ok" \/ (k > 0 /\ f # "ok"))) 
                 \/ Len(LevelHashes(D)) = 1 \/ HashStart + TreeSize > h.data_size
              THEN TableFailed
              ELSE /\ k' = k + 1
                   /\ disk' = IF raw THEN disk ELSE Repaired({b})
                   /\ h' = [h EXCEPT !.errors = @ + IF ~raw /\ h.ecc THEN Corrected(b) ELSE 0]
                   /\ UNCHANGED <<pc, try, attempt>>
    /\ UNCHANGED <<layout, rdwr, noverity, parity, header, job>>

\* The end of verify_tree.
TreeVerified ==
    /\ pc = "tree" /\ k = TreeSize
    /\ pc' = "parsed" /\ h' = [h EXCEPT !.hash = TRUE]
    /\ UNCHANGED <<layout, rdwr, noverity, disk, parity, header, try, k, attempt, job>>

\* The rest of verity_parse_header.  rewrite_metadata keeps the signature of the
\* raw header, and the alternative magic.
HeaderParsed ==
    /\ pc = "parsed" /\ pc' = "ready"
    /\ disk' = IF ~rdwr \/ h.errors = 0 THEN disk
               ELSE [disk EXCEPT ![Metadata] = IF h.disabled THEN "disabled"
                                               ELSE IF @ = "bad" THEN "badsig" ELSE @]
    /\ h' = [h EXCEPT !.data_size = D]
    /\ UNCHANGED <<layout, rdwr, noverity, parity, header, try, k, attempt, job>>
----------------------------------------------------------------------------
(* fec_pread. *)

\* max - count wraps around when count is larger.
get_max_count(offset, count, max) ==
    IF offset >= max THEN 0 ELSE IF count <= max /\ offset > max - count THEN max - offset ELSE count

Part(pos, count) == [pos |-> pos, left |-> count, rc |-> 0, errors |-> 0, live |-> count > 0]

\* The shares of the threads, and what is left when all have one.
Shares(offset, count, threads) ==
    LET start == (offset \div BS) * BS
        each == DivUp(DivUp(count, BS), threads) * BS
        n == Min({threads, DivUp(count, each)})
        from(i) == IF i = 1 THEN offset ELSE start + (i - 1) * each
        upto(i) == Min({start + i * each, offset + count})
    IN  [parts |-> [i \in 1 .. n |-> Part(from(i), upto(i) - from(i))], left |-> offset + count - upto(n)]

\* process: the threads are started; it returns at once when its division of
\* the work does not add up.
Pread(offset, count, threads) ==
    /\ pc = "ready"
    /\ LET n == get_max_count(offset, count, IF h.hash \/ h.ecc THEN h.data_size * BS ELSE N * BS)
           s == IF n = 0 \/ ~(h.hash \/ h.ecc) THEN [parts |-> <<>>, left |-> 0] ELSE Shares(offset, n, threads)
       IN  job' = [NoJob EXCEPT !.offset = offset, !.count = n, !.parts = s.parts, !.left = s.left,
                                !.buf = [i \in offset .. offset + n - 1 |-> "unset"],
                                !.disk = disk, !.hash = h.hash]
    /\ pc' = "reading"
    /\ UNCHANGED <<layout, rdwr, noverity, disk, parity, header, h, try, k, attempt>>

Fails(i) == job' = [job EXCEPT !.parts[i].rc = -1, !.parts[i].live = FALSE]

\* One block is copied; the last ends the thread.
Copies(i, content, n) ==
    LET p == job.parts[i]
        upto == Min({(p.pos \div BS + 1) * BS, p.pos + p.left})
    IN  job' = [job EXCEPT !.parts[i] = [pos |-> upto, left |-> p.left - (upto - p.pos), rc |-> p.rc + upto - p.pos,
                                         errors |-> p.errors + n, live |-> upto < p.pos + p.left],
                           !.buf = [j \in DOMAIN @ |-> IF j \in p.pos .. upto - 1 THEN content ELSE @[j]]]

\* Mutant: what the decoder gives is not checked.
Unchecked(e, i, b) == Copies(i, e, 1) /\ disk' = IF rdwr THEN [disk EXCEPT ![b] = e] ELSE disk

\* A decoded block is used if its hash is right.
UseDecoded(e, i, b) ==
    IF e = "ok" THEN Copies(i, "ok", 1) /\ disk' = Repaired({b}) ELSE Fails(i) /\ UNCHANGED disk

\* verity_read, one block of it.
VerityReadBlock(i) ==
    /\ pc = "reading" /\ job.parts[i].live /\ h.hash
    /\ LET b == job.parts[i].pos \div BS
       IN  IF b >= h.data_size \/ disk[b] = "io" THEN Fails(i) /\ UNCHANGED disk
           ELSE IF disk[b] = "ok" THEN Copies(i, "ok", 0) /\ UNCHANGED disk
           ELSE IF is_zero(b) THEN Copies(i, "ok", 0) /\ disk' = Repaired({b})
           ELSE IF ~h.ecc THEN Fails(i) /\ UNCHANGED disk
           ELSE \E e \in EccRead(b, FALSE), f \in EccRead(b, TRUE) : UseDecoded(IF e = "ok" THEN e ELSE f, i, b)
    /\ UNCHANGED <<pc, layout, rdwr, noverity, parity, header, h, try, k, attempt>>

\* ecc_read, one block of it.
EccReadBlock(i) ==
    /\ pc = "reading" /\ job.parts[i].live /\ ~h.hash
    /\ LET b == job.parts[i].pos \div BS
       IN  \E e \in EccRead(b, FALSE) : IF e = "fail" \/ b >= h.data_size THEN Fails(i) ELSE Copies(i, e, Corrected(b))
    /\ UNCHANGED <<pc, layout, rdwr, noverity, disk, parity, header, h, try, k, attempt>>

\* The threads are joined; a pure ecc read falls back to the raw data.
Join ==
    /\ pc = "reading" /\ pc' = "done"
    /\ job.left > 0 \/ \A i \in DOMAIN job.parts : ~job.parts[i].live
    /\ LET failed == job.left > 0 \/ \E i \in DOMAIN job.parts : job.parts[i].rc = -1
           range == DOMAIN job.buf
           raw == ~h.hash /\ (failed \/ ~h.ecc)
           io == \E j \in range : j \div BS \notin Blocks \/ disk[j \div BS] = "io"
       IN  /\ job' = [job EXCEPT !.rc = IF raw THEN IF io THEN -1 ELSE job.count ELSE IF failed THEN -1 ELSE job.count,
                                 !.buf = IF raw /\ ~io THEN [j \in range |-> disk[j \div BS]] ELSE @]
           /\ h' = [h EXCEPT !.errors = @ + FoldLeft(LAMBDA s, p : s + IF p.rc = -1 THEN 0 ELSE p.errors, 0, job.parts)]
    /\ UNCHANGED <<layout, rdwr, noverity, disk, parity, header, try, k, attempt>>

\* fec_verity_set_status.
SetStatus(enabled) ==
    /\ pc = "ready" /\ rdwr /\ h.metadata_start >= 0 /\ h.disabled = enabled
    /\ h' = [h EXCEPT !.disabled = ~enabled]
    /\ disk' = [disk EXCEPT ![h.metadata_start] =
                   IF @ \in {"ok", "disabled"} THEN IF enabled THEN "ok" ELSE "disabled" ELSE @]
    /\ pc' = "done"
    /\ UNCHANGED <<layout, rdwr, noverity, parity, header, try, k, attempt, job>>

Next ==
    \/ LoadEcc
    \/ ParseHeader
    \/ VerifyTreeBlock
    \/ TreeVerified
    \/ HeaderParsed
    \/ \E r \in Reads, t \in Threads : Pread(r[1], r[2], t)
    \/ \E i \in DOMAIN job.parts : VerityReadBlock(i) \/ EccReadBlock(i)
    \/ Join
    \/ \E e \in BOOLEAN : SetStatus(e)

Spec == Init /\ [][Next]_vars
----------------------------------------------------------------------------
InRange == {j \div BS : j \in DOMAIN job.buf}

\* Whether block b could be recovered from the image as the read found it.
Recoverable(b) ==
    LET wrong == {c \in Group(b) : job.disk[c] # "ok" /\ c \notin Zeros}
        marked == {c \in wrong : job.disk[c] = "io" \/ c < D}
    IN  job.disk[b] = "ok" \/ b \in Zeros \/ (h.ecc /\ 2 * (Cardinality(wrong \ marked) + parity[b % Rounds])
                                               + Cardinality(marked) <= Roots)

\* A read of an image whose hash tree was verified returns the data that was
\* hashed or fails, and fails only if a block could not be read or there was
\* more damage around it than the parity can make up for, however the threads
\* of the read repair blocks under each other.
ReadsVerified ==
    pc = "done" /\ job.hash =>
        IF job.rc >= 0 THEN \A j \in DOMAIN job.buf : job.buf[j] = "ok"
        ELSE job.left = 0 => \E b \in InRange : b >= D \/ job.disk[b] = "io" \/ ~Recoverable(b)

\* An image that has a header and its metadata, and is damaged within what the
\* parity corrects, is opened with its hash tree in every layout.
OpensDamaged ==
    pc = "ready" /\ ~noverity /\ ~h.hash =>
        \/ "ok" \notin {header.primary, header.backup} \/ "io" \in {disk[b] : b \in Blocks}
        \/ \E b \in Blocks : b >= D /\ 2 * Errors(b) > Roots
        \/ 2 * Errors(0) > Roots
=============================================================================
