----------------------------- MODULE VerityImage -----------------------------
(***************************************************************************)
(* The host tools that make an image for libfec: build_verity_tree hashes  *)
(* the data into a tree, build_verity_metadata.py appends the table, and   *)
(* fec computes Reed-Solomon parity of all of it and later decodes a       *)
(* damaged image with it, each in several threads.  A byte of the image is *)
(* its position, or -1 when it is damaged, and the parity of a code is the *)
(* data it was computed from.                                              *)
(***************************************************************************)
EXTENDS Integers, Sequences, FiniteSets, SequencesExt, FiniteSetsExt

CONSTANTS
    Images,        \* the data: sequences of blocks, which are TRUE where there is data and FALSE in holes
    H, BS,         \* hashes in a block, bytes in a block
    RSM, Roots,    \* the size of a Reed-Solomon code, and its parity
    Threads, Damages

VARIABLES
    pc, data,
    pos, tree, level, root,   \* build_verity_tree: hashes so far, the tree, the level being hashed
    threads, work,            \* image_process: [current, end, fec_pos, rv] of each thread
    fec, file, input,         \* parity and image on disk; the image in memory
    corrected

vars == <<pc, data, pos, tree, level, root, threads, work, fec, file, input, corrected>>

DivUp(x, y) == (x + y - 1) \div y
----------------------------------------------------------------------------
(* build_verity_tree. *)

RECURSIVE verity_tree_blocks(_, _)
verity_tree_blocks(blocks, lev) ==
    LET n == DivUp(blocks, H) IN IF lev = 0 THEN n ELSE verity_tree_blocks(n, lev - 1)

Levels == CHOOSE l \in 1 .. Len(data) + 1 :
    /\ verity_tree_blocks(Len(data), l - 1) <= 1
    /\ \A k \in 0 .. l - 2 : verity_tree_blocks(Len(data), k) > 1

LevelBlocks(l) == verity_tree_blocks(Len(data), l)
VerityBlocks == FoldFunction(LAMBDA a, c : a + c, 0, [l \in 0 .. Levels - 1 |-> LevelBlocks(l)])

\* Mutant: the levels are laid out from the leaves to the root.
LeavesFirst(l) == H * FoldFunction(LAMBDA a, c : a + c, 0, [k \in 0 .. l - 1 |-> LevelBlocks(k)])

\* verity_tree_levels: the place of a level among the hashes.
LevelStart(l) == H * FoldFunction(LAMBDA a, c : a + c, 0, [k \in l + 1 .. Levels - 1 |-> LevelBlocks(k)])

hash_block(x) == [hashes |-> x]
HashOfData(x) == [data |-> x]

zero_block_hash == HashOfData(FALSE)

\* hash_chunk: n blocks of data, or of a hole.
HashChunk(n) ==
    /\ pc = "chunks" /\ pos + n <= Len(data)
    /\ \A i \in 1 .. n : data[pos + i] = data[pos + 1]
    /\ tree' = [s \in DOMAIN tree |->
                    IF s \in LevelStart(0) + pos .. LevelStart(0) + pos + n - 1
                    THEN IF data[pos + 1] THEN HashOfData(TRUE) ELSE zero_block_hash ELSE tree[s]]
    /\ pos' = pos + n
    /\ UNCHANGED <<pc, data, level, root, threads, work, fec, file, input, corrected>>

NoHash == [none |-> 0]

BlockOf(s) == [i \in 1 .. H |-> tree[s + i - 1]]

\* hash_blocks from one level to the next, or to the root hash.
HashLevel ==
    /\ pc = "chunks" /\ pos = Len(data) /\ level < Levels
    /\ LET out(i) == hash_block(BlockOf(LevelStart(level) + H * i))
       IN  IF level = Levels - 1 THEN root' = out(0) /\ UNCHANGED tree
           ELSE /\ tree' = [s \in DOMAIN tree |->
                               LET i == s - LevelStart(level + 1)
                               IN  IF i \in 0 .. LevelBlocks(level) - 1 THEN out(i) ELSE tree[s]]
                /\ UNCHANGED root
    /\ level' = level + 1
    /\ UNCHANGED <<pc, data, pos, threads, work, fec, file, input, corrected>>
----------------------------------------------------------------------------
(* fec. *)

RSN == RSM - Roots
InpBlocks == Len(data) + VerityBlocks + 1
InpSize == InpBlocks * BS
Rounds == DivUp(InpBlocks, RSN)
Codes == Rounds * BS

fec_ecc_interleave(offset) == offset \div RSN + (offset % RSN) * Rounds * BS
fec_ecc_get_size(file_size) == DivUp(DivUp(file_size, BS), RSM - Roots) * Roots * BS + BS

image_get_interleaved_byte(i) ==
    LET offset == fec_ecc_interleave(i) IN IF offset >= InpSize THEN -2 ELSE input[offset]

CodeAt(i) == [j \in 1 .. RSN |-> image_get_interleaved_byte(i + j - 1)]

\* Mutant: the parity of a thread starts where its data does.
ParityAtStart(n, i, per) ==
    [current |-> (i - 1) * per * RSN, end |-> Min({i * per, Codes}) * RSN, fec_pos |-> (i - 1) * per * RSN, rv |-> 0]

\* The share of thread i of n, when each has per codes.
Share(n, i, per) ==
    [current |-> (i - 1) * per * RSN, end |-> Min({i * per, Codes}) * RSN, fec_pos |-> (i - 1) * per * Roots, rv |-> 0]

\* image_process; a thread without work would fail an assertion.
image_process(next) ==
    LET n == Min({threads, Rounds})
        shares == [i \in 1 .. n |-> Share(n, i, DivUp(Codes, n))]
    IN  /\ work' = shares
        /\ pc' = IF \A i \in 1 .. n : shares[i].current < shares[i].end THEN next ELSE "abort"

\* encode: the metadata is appended, and image_load reads it all.
Encode ==
    /\ pc = "chunks" /\ level = Levels
    /\ file' = [i \in 0 .. InpSize - 1 |-> i] /\ input' = file'
    /\ fec' = [i \in 0 .. Rounds * Roots * BS - 1 |-> <<>>]
    /\ image_process("encoding")
    /\ UNCHANGED <<data, pos, tree, level, root, threads, corrected>>

Advanced(i, rv) == [work EXCEPT ![i].current = @ + RSN, ![i].fec_pos = @ + Roots, ![i].rv = @ + rv]

\* encode_rs, one code of it.
encode_rs(i) ==
    /\ pc = "encoding" /\ work[i].current < work[i].end
    /\ fec' = [p \in DOMAIN fec |-> IF p \in work[i].fec_pos .. work[i].fec_pos + Roots - 1
                                    THEN CodeAt(work[i].current) ELSE fec[p]]
    /\ work' = Advanced(i, 0)
    /\ UNCHANGED <<pc, data, pos, tree, level, root, threads, file, input, corrected>>

Finished == \A i \in DOMAIN work : work[i].current >= work[i].end

\* image_ecc_save; then the image is damaged.
Damage(d) ==
    /\ pc = "encoding" /\ Finished
    /\ file' = [i \in DOMAIN file |-> IF i \in d THEN -1 ELSE file[i]]
    /\ pc' = "damaged"
    /\ UNCHANGED <<data, pos, tree, level, root, threads, work, fec, input, corrected>>

\* decode: image_ecc_load and image_load.
Decode ==
    /\ pc = "damaged" /\ input' = file
    /\ image_process("decoding")
    /\ UNCHANGED <<data, pos, tree, level, root, threads, fec, file, corrected>>

\* decode_rs, one code of it; past the capacity of the code it ends the program
\* or takes some other data for the right one.
decode_rs(i) ==
    /\ pc = "decoding" /\ work[i].current < work[i].end
    /\ LET parity == fec[work[i].fec_pos]
           wrong == {j \in 1 .. RSN : parity = <<>> \/ CodeAt(work[i].current)[j] # parity[j]}
       IN  IF 2 * Cardinality(wrong) <= Roots
           THEN /\ input' = [p \in DOMAIN input |->
                                LET js == {j \in wrong : fec_ecc_interleave(work[i].current + j - 1) = p}
                                IN  IF js = {} THEN input[p] ELSE parity[CHOOSE j \in js : TRUE]]
                /\ work' = Advanced(i, Cardinality(wrong)) /\ UNCHANGED pc
           ELSE \/ work' = Advanced(i, Roots \div 2) /\ UNCHANGED <<pc, input>>
                \/ pc' = "fatal" /\ UNCHANGED <<work, input>>
    /\ UNCHANGED <<data, pos, tree, level, root, threads, fec, file, corrected>>

\* The threads are joined and the image is opened to be saved, which truncates
\* it when it is corrected in place.
Truncate ==
    /\ pc = "decoding" /\ Finished /\ pc' = "saving"
    /\ corrected' = FoldLeft(LAMBDA a, w : a + w.rv, 0, work)
    /\ file' = <<>>
    /\ UNCHANGED <<data, pos, tree, level, root, threads, work, fec, input>>

image_save ==
    /\ pc = "saving"
    /\ \/ file' = input /\ pc' = "done"
       \/ pc' = "fatal" /\ UNCHANGED file
    /\ UNCHANGED <<data, pos, tree, level, root, threads, work, fec, input, corrected>>
----------------------------------------------------------------------------
Init ==
    /\ pc = "chunks" /\ data \in Images
    /\ pos = 0 /\ tree = [s \in 0 .. VerityBlocks * H - 1 |-> NoHash] /\ level = 0 /\ root = <<>>
    /\ threads \in Threads /\ work = <<>>
    /\ fec = <<>> /\ file = <<>> /\ input = <<>> /\ corrected = 0

Next ==
    \/ \E n \in 1 .. 2 : HashChunk(n)
    \/ HashLevel
    \/ Encode
    \/ \E i \in DOMAIN work : encode_rs(i) \/ decode_rs(i)
    \/ \E d \in Damages : Damage({b \in DOMAIN file : b \in d})
    \/ Decode
    \/ Truncate
    \/ image_save

Spec == Init /\ [][Next]_vars
----------------------------------------------------------------------------
(* How libfec finds its way in a tree: verity_get_size and verify_tree. *)

RECURSIVE Hashes(_)
Hashes(n) == IF DivUp(n, H) > 1 THEN <<n>> \o Hashes(DivUp(n, H)) ELSE <<n>>

\* Blocks of each level from the root on, and where a level starts.
LibfecLevels == <<1>> \o Reverse(Tail(Hashes(Len(data))))
LibfecStart(i) == FoldLeft(LAMBDA a, n : a + n, 0, SubSeq(LibfecLevels, 1, i - 1))

\* The tree has the size libfec computes and that -s prints, and walking it as
\* libfec does, from the root hash down, every block has the hash its parent
\* has for it, down to the data, whichever chunks the data came in.
LibfecFindsTheTree ==
    level = Levels =>
        /\ VerityBlocks = FoldLeft(LAMBDA a, n : a + DivUp(n, H), 0, Hashes(Len(data)))
        /\ root = hash_block(BlockOf(0))
        /\ \A i \in 2 .. Len(LibfecLevels) : \A j \in 0 .. LibfecLevels[i] - 1 :
              tree[H * LibfecStart(i - 1) + j] = hash_block(BlockOf(H * (LibfecStart(i) + j)))
        /\ \A b \in 0 .. Len(data) - 1 :
              tree[H * LibfecStart(Len(LibfecLevels)) + b] = HashOfData(data[b + 1])

Within == \A n \in 0 .. Codes - 1 :
    2 * Cardinality({j \in 0 .. RSN - 1 : LET o == fec_ecc_interleave(n * RSN + j)
                                          IN  o < InpSize /\ file[o] = -1}) <= Roots

\* However many threads there are, the work is shared out among all of them
\* and each code has its parity where fec and libfec look for it; an image
\* damaged no more than the parity allows is decoded to what was encoded, and
\* the number of bytes corrected is the number that were damaged.
DecodesToOriginal ==
    /\ pc # "abort"
    /\ Len(data) > 0 /\ pc \in {"damaged", "decoding", "saving"} =>
        /\ \A p \in DOMAIN fec : fec[p] # <<>>
        /\ fec_ecc_get_size(InpSize) = Cardinality(DOMAIN fec) + BS
    /\ pc = "decoding" /\ Within /\ Finished =>
        /\ input = [i \in 0 .. InpSize - 1 |-> i]
        /\ FoldLeft(LAMBDA a, w : a + w.rv, 0, work) = Cardinality({i \in DOMAIN file : file[i] = -1})
    /\ pc = "fatal" /\ file # <<>> => ~Within
=============================================================================
