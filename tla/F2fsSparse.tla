----------------------------- MODULE F2fsSparse -----------------------------
(***************************************************************************)
(* f2fs_sparseblock: copies the used blocks of an f2fs image.  What is     *)
(* used is what the most recent complete checkpoint says: a checkpoint     *)
(* pack names, for every block of the segment information table (SIT), one *)
(* of two copies, and keeps a journal of entries that are newer.  The file *)
(* system (external) writes its blocks in any order, the last block of a   *)
(* pack after all others, and may stop between any two.                    *)
(***************************************************************************)
EXTENDS Integers, Sequences, FiniteSets, FiniteSetsExt

CONSTANTS
    Segs, PerSeg, PerSit,     \* segments, their blocks, SIT_ENTRY_PER_BLOCK
    Extra,                    \* blocks behind the last segment
    main_blkaddr,
    Versions,                 \* the range of a version, half of it positive as a difference
    FirstVersion,
    Updates,                  \* what may be in use: functions from segments to sets of offsets
    MaxCheckpoints,
    OutFiles                  \* what is at the output's path: "hole" (nothing), "old"

VARIABLES
    cp,          \* the two packs: 1 .. 2 -> offset in the pack -> block
    sit,         \* the two copies of each SIT block: <<block, copy>> -> entries
    ver, live,   \* the last version written; its SIT copies: block -> 0 or 1
    pending,     \* blocks of the checkpoint that is being written
    committed, upcoming,  \* what the last complete checkpoint, and this one, holds in use
    pc, info, block, count, out, failed

fs == <<cp, sit, ver, live, pending, committed, upcoming>>
copy == <<info, block, count, out, failed>>
vars == <<fs, pc, copy>>

Segments == 0 .. Segs - 1
total_blocks == main_blkaddr + Segs * PerSeg + Extra
num_segments == (total_blocks - main_blkaddr + PerSeg - 1) \div PerSeg
SitBlocks == 0 .. (num_segments + PerSit - 1) \div PerSit - 1
Entry(used) == [vblocks |-> Cardinality(used), valid_map |-> used]
None == Entry({})
Entries(b, f) == [i \in 0 .. PerSit - 1 |-> IF b * PerSit + i \in Segments THEN Entry(f[b * PerSit + i]) ELSE None]
----------------------------------------------------------------------------
(* The file system *)

NextVersion == (ver + 1) % Versions
PackOf(v) == 1 + (v % 2)

\* The blocks of a pack: the checkpoint, the summaries (compact: one block; else one
\* for each type of data, the third with the journal), those of nodes at umount, and
\* the checkpoint again.
Checkpoint(v, bmp, used, compact, umount) ==
    LET sums == (IF compact THEN 1 ELSE 3) + (IF umount THEN 3 ELSE 0)
    IN  [checkpoint_ver |-> v, total |-> 2 + sums, start_sum |-> 1, compact |-> compact, umount |-> umount,
         sit_bmp |-> bmp, valid_block_count |-> MapThenSumSet(LAMBDA s : Cardinality(used[s]), Segments)]

PackBlock(o, c, journal) ==
    CASE o \in {0, c.total - 1} -> c
      [] o = (IF c.compact THEN 1 ELSE 3) -> [journal |-> journal]
      [] OTHER -> [journal |-> <<>>]

\* A checkpoint begins: SIT blocks in `dirty' go to their other copy, the entries
\* of other changed segments to the journal.
BeginCheckpoint(used, dirty, compact, umount) ==
    /\ pc = "mounted" /\ pending = {} /\ ver # (FirstVersion + MaxCheckpoints) % Versions
    /\ LET bmp == [b \in SitBlocks |-> IF b \in dirty THEN 1 - live[b] ELSE live[b]]
           journal == [s \in {s \in Segments : s \div PerSit \notin dirty
                                 /\ sit[<<s \div PerSit, live[s \div PerSit]>>][s % PerSit] # Entry(used[s])} |-> Entry(used[s])]
           c == Checkpoint(NextVersion, bmp, used, compact, umount)
           p == PackOf(NextVersion)
       IN  pending' = {[kind |-> "sit", at |-> <<b, bmp[b]>>, data |-> [entries |-> Entries(b, used)]] : b \in dirty}
                      \cup {[kind |-> "cp", at |-> <<p, o>>, data |-> PackBlock(o, c, journal)] :
                               o \in {o \in 0 .. c.total - 1 : PackBlock(o, c, journal) # cp[p][o]}}
    /\ upcoming' = used
    /\ UNCHANGED <<cp, sit, ver, live, committed, pc, copy>>

IsLast(w) == w.kind = "cp" /\ w.at[2] # 0 /\ "checkpoint_ver" \in DOMAIN w.data

WriteBlock(w) ==
    /\ pc = "mounted" /\ w \in pending /\ (IsLast(w) => pending = {w})
    /\ pending' = pending \ {w}
    /\ cp' = IF w.kind = "cp" THEN [cp EXCEPT ![w.at[1]][w.at[2]] = w.data] ELSE cp
    /\ sit' = IF w.kind = "sit" THEN [sit EXCEPT ![w.at] = w.data.entries] ELSE sit
    /\ IF IsLast(w) THEN ver' = w.data.checkpoint_ver /\ live' = w.data.sit_bmp /\ committed' = upcoming
                    ELSE UNCHANGED <<ver, live, committed>>
    /\ UNCHANGED <<upcoming, pc, copy>>

\* The device is taken away, whatever is being written.
Stop ==
    /\ pc = "mounted" /\ pc' = "info"
    /\ UNCHANGED <<fs, copy>>
----------------------------------------------------------------------------
(* generate_f2fs_info *)

\* A block of a pack; what is no checkpoint has no version.
VersionOf(b) == IF "checkpoint_ver" \in DOMAIN b THEN b.checkpoint_ver ELSE -1

\* validate_checkpoint: the first and the last block have the same version.
validate_checkpoint(p) ==
    /\ VersionOf(cp[p][0]) # -1
    /\ VersionOf(cp[p][cp[p][0].total - 1]) = VersionOf(cp[p][0])

\* Mutant: versions are compared as they are.
PlainlyGreater(a, b) == a > b

\* ver_after: the difference, as a signed number, is positive.
ver_after(a, b) == (a - b) % Versions \in 1 .. Versions \div 2 - 1

\* get_valid_checkpoint_info
ValidPacks == {p \in 1 .. 2 : validate_checkpoint(p)}

CurrentPack ==
    IF ValidPacks = {1, 2} THEN IF ver_after(cp[2][0].checkpoint_ver, cp[1][0].checkpoint_ver) THEN 2 ELSE 1
    ELSE CHOOSE p \in ValidPacks : TRUE

\* sum_blk_addr, get_sit_summary: where the journal is.
SummaryAt(c) ==
    IF c.compact THEN c.start_sum
    ELSE c.total - ((IF c.umount THEN 6 ELSE 3) + 1) + 2

\* gather_sit_info: of each SIT block, the copy that its bit names.
GatherSit(c) == [b \in SitBlocks |-> sit[<<b, c.sit_bmp[b]>>]]

generate_f2fs_info(readable) ==
    /\ pc = "info"
    /\ IF ValidPacks = {} \/ ~readable
       THEN pc' = "failed" /\ UNCHANGED info
       ELSE /\ pc' = "copy"
            /\ info' = LET c == cp[CurrentPack][0]
                       IN  [sit_blocks |-> GatherSit(c), journal |-> cp[CurrentPack][SummaryAt(c)].journal,
                            total_user_used |-> c.valid_block_count]
    /\ UNCHANGED <<fs, block, count, out, failed>>

get_num_blocks_used == main_blkaddr + info.total_user_used
----------------------------------------------------------------------------
(* run_on_used_blocks, with copy_used *)

\* The journal's entry of a segment, or that of the table.
SitEntry(s) == IF s \in DOMAIN info.journal THEN info.journal[s] ELSE info.sit_blocks[s \div PerSit][s % PerSit]

copy_used(b, fails) ==
    /\ count' = count + 1
    /\ failed' = fails
    /\ out' = IF fails THEN out ELSE [out EXCEPT ![b] = "copied"]

RunOnBlock(fails) ==
    /\ pc = "copy" /\ block < total_blocks /\ ~failed
    /\ LET s == (block - main_blkaddr) \div PerSeg
           offset == (block - main_blkaddr) % PerSeg
       IN  IF block < main_blkaddr
           THEN copy_used(block, fails) /\ block' = block + 1
           ELSE IF offset = 0 /\ SitEntry(s).vblocks = 0
                THEN block' = block + PerSeg /\ UNCHANGED <<count, out, failed>>
                ELSE /\ block' = block + 1
                     /\ IF offset \in SitEntry(s).valid_map THEN copy_used(block, fails) ELSE UNCHANGED <<count, out, failed>>
    /\ UNCHANGED <<fs, pc, info>>

\* main: ftruncate64 to the size of the image, whether or not the copy failed.
Truncate ==
    /\ pc = "copy" /\ (block >= total_blocks \/ failed) /\ pc' = "done"
    /\ UNCHANGED <<fs, copy>>

Empty == [s \in Segments |-> {}]
NoBlock == [journal |-> <<>>]

\* A file system that was just made has one checkpoint.
Init ==
    LET bmp == [b \in SitBlocks |-> 0]
        c == Checkpoint(FirstVersion, bmp, Empty, TRUE, TRUE)
    IN  /\ sit = [x \in SitBlocks \X {0, 1} |-> Entries(x[1], Empty)]
        /\ cp = [p \in 1 .. 2 |-> [o \in 0 .. 7 |-> IF p = PackOf(FirstVersion) /\ o < c.total THEN PackBlock(o, c, <<>>) ELSE NoBlock]]
        /\ ver = FirstVersion /\ live = bmp /\ pending = {} /\ committed = Empty /\ upcoming = Empty
        /\ pc = "mounted" /\ info = <<>> /\ block = 0 /\ count = 0 /\ failed = FALSE
        /\ \E o \in OutFiles : out = [b \in 0 .. total_blocks - 1 |-> o]

Next ==
    \/ \E used \in Updates, dirty \in SUBSET SitBlocks, compact, umount \in BOOLEAN : BeginCheckpoint(used, dirty, compact, umount)
    \/ \E w \in pending : WriteBlock(w)
    \/ Stop
    \/ \E readable \in BOOLEAN : generate_f2fs_info(readable)
    \/ \E fails \in BOOLEAN : RunOnBlock(fails)
    \/ Truncate

Spec == Init /\ [][Next]_vars
----------------------------------------------------------------------------
\* A copy that meets no error holds all metadata and exactly the blocks that the
\* last complete checkpoint holds in use, and their number is the one expected:
\* whichever blocks of a further checkpoint were written, whatever its journal and
\* its two copies of the table hold, and when the version wraps.
CopiesWhatIsUsed ==
    pc = "done" /\ ~failed =>
        /\ {b \in DOMAIN out : out[b] = "copied"}
              = 0 .. main_blkaddr - 1 \cup UNION {{main_blkaddr + s * PerSeg + o : o \in committed[s]} : s \in Segments}
        /\ count = get_num_blocks_used
============================================================================
