----------------------------- MODULE MakeExt4fs -----------------------------
(***************************************************************************)
(* make_ext4fs: the ext4 image builder of ext4_utils.  A directory tree is *)
(* laid out block by block: allocate.c hands out blocks and inodes,        *)
(* extent.c and indirect.c attach them to inodes, contents.c makes         *)
(* directories, files, links and extended attributes, ext4_utils.c writes  *)
(* the super blocks, and make_ext4fs.c drives them.  The model builds an   *)
(* image, saves its block map, and builds a second image of another tree   *)
(* on that map, as an incremental build does.                              *)
(*                                                                         *)
(* Sizes are in words of four bytes.  `fs' stands for the globals info,    *)
(* aux_info, base_fs_allocations and saved_allocation_head and for the     *)
(* blocks queued in ext4_sparse_file.  Any call of error() or              *)
(* critical_error() ends the program through longjmp: pc = "failed".       *)
(***************************************************************************)
EXTENDS Integers, Sequences, FiniteSets, SequencesExt

CONSTANTS
    Lens,            \* lengths of the device or file, in blocks
    Trees,           \* the directory trees to pack
    Opts,            \* command line: block_size, blocks_per_group, inodes, ...
    DescSize,        \* words in a struct ext2_group_desc
    GrowthFactor,    \* 1024 in compute_bg_desc_reserve_blocks
    KiB,             \* words in 1024 bytes
    InodeXattrRoom,  \* words for extended attributes in an inode
    FastLink,        \* longest link kept in i_block, in words
    NoName

VARIABLES
    gen,     \* 1: first image; 2: the image built on the first one's map
    pc,
    tree,    \* the tree being packed
    len,     \* info.len, in blocks
    device,  \* info.block_device
    fs,
    stack,   \* the activations of build_directory_structure, innermost last
    base,    \* the base map read by this build
    disk,    \* what the target holds, area by area
    wrong    \* whether a write of the image failed

vars == <<gen, pc, tree, len, device, fs, stack, base, disk, wrong>>

ROOT_INO == 2
RESIZE_INO == 7
JOURNAL_INO == 8
RESERVED == 10
LostAndFound == [kind |-> "dir", name |-> "lost+found", words |-> 3,
                 size |-> 0, entries |-> <<>>, secon |-> 0, caps |-> 0]

DivUp(x, y) == (x + y - 1) \div y
AlignUp(x, y) == y * DivUp(x, y)
Lesser(a, b) == IF a < b THEN a ELSE b
SumLen(list) == FoldLeft(LAMBDA n, r : n + r.len, 0, list)
BlocksOf(list) == UNION {r.block .. r.block + r.len - 1 : r \in ToSet(list)}
----------------------------------------------------------------------------
(* Parameters of the file system. *)

IsPowerOf(a, b) == \E k \in 1..10 : a = b^k

HasSuper(g) == g \in {0, 1} \/ \E b \in {3, 5, 7} : IsPowerOf(g, b)

\* Groups of the length asked for, before a short last group is dropped.
block_groups == DivUp(len, Opts.blocks_per_group)

compute_inodes ==
    IF Opts.inodes > 0 THEN Opts.inodes ELSE len \div 4

compute_inodes_per_group ==
    AlignUp(DivUp(compute_inodes, block_groups),
            Opts.block_size \div Opts.inode_size)

compute_bg_desc_reserve_blocks ==
    Lesser(DivUp(block_groups * GrowthFactor * DescSize, Opts.block_size)
               - DivUp(block_groups * DescSize, Opts.block_size),
           Opts.block_size)

compute_journal_blocks ==
    IF Opts.no_journal THEN 0
    ELSE IF Opts.journal_blocks > 0 THEN Opts.journal_blocks
    ELSE LET n == Lesser(len \div 64, Opts.max_journal) IN
         IF n < Opts.min_journal THEN Opts.min_journal ELSE n

first_data_block == IF Opts.block_size > KiB THEN 0 ELSE 1

inode_table_blocks ==
    DivUp(compute_inodes_per_group * Opts.inode_size, Opts.block_size)

Header(g, descs) ==
    2 + inode_table_blocks
      + IF HasSuper(g) THEN 1 + descs + compute_bg_desc_reserve_blocks ELSE 0

\* groups, len_blocks and bg_desc_blocks; `small' when the program gives up.
ext4_create_fs_aux_info ==
    LET bpg    == Opts.blocks_per_group
        groups == DivUp(len - first_data_block, bpg)
        descs  == DivUp(groups * DescSize, Opts.block_size)
        last   == len % bpg
        header == Header(groups - 1, descs)
        drop   == last > 0 /\ last < header
    IN  [small          |-> groups <= 1 /\ last < header,
         groups         |-> IF drop THEN groups - 1 ELSE groups,
         len_blocks     |-> IF drop THEN len - last ELSE len,
         bg_desc_blocks |-> descs]

FirstBlock(g) == first_data_block + g * Opts.blocks_per_group
----------------------------------------------------------------------------
(* allocate.c: block groups.  A group's chunks are the allocated ranges,   *)
(* bounded by two empty delimiters; what lies between them are the holes.  *)

Fail(f) == [f EXCEPT !.status = "failed"]

reserve_blocks(f, g, start, num) ==
    LET range == start .. start + num - 1 IN
    IF range \cap f.bgs[g].bits # {}
    THEN Fail(f)
    ELSE [f EXCEPT !.bgs[g].bits = @ \cup range,
                   !.bgs[g].free_blocks = @ - num]

reserve_bg_chunk(f, g, start, size) ==
    [f EXCEPT !.bgs[g].chunks = Append(@, [block |-> start, len |-> size])]

init_bg(aux, f, g) ==
    LET bpg    == Opts.blocks_per_group
        header == Header(g, aux.bg_desc_blocks)
        over   == FirstBlock(g) + bpg - aux.len_blocks
        f1     == reserve_bg_chunk(reserve_blocks(f, g, 0, header),
                                   g, header, 0)
    IN  IF over > 0
        THEN reserve_bg_chunk(reserve_blocks(f1, g, bpg - over, over),
                              g, bpg - over, 0)
        ELSE reserve_bg_chunk(f1, g, bpg - 1, 0)

\* The globals when the tree starts to be packed.
block_allocator_init(aux) ==
    LET bg == [chunks |-> <<>>, bits |-> {}, free_inodes |-> compute_inodes_per_group,
               free_blocks |-> Opts.blocks_per_group, first_free_inode |-> 1,
               used_dirs |-> 0, table |-> FALSE]
        empty == [status |-> "ok", aux |-> aux, inodes |-> <<>>, image |-> <<>>,
                  bgs |-> [g \in 0 .. aux.groups - 1 |-> bg],
                  base |-> <<>>, saved |-> <<>>, oob |-> <<>>, sb |-> <<>>]
    IN  FoldLeft(LAMBDA f, g : init_bg(aux, f, g - 1), empty,
                 [g \in 1 .. aux.groups |-> g])

\* The holes of all groups, in the order the best-fit scan meets them.
Holes(f) ==
    FlattenSeq([k \in 1 .. f.aux.groups |->
        LET c == f.bgs[k - 1].chunks IN
        [j \in 1 .. Len(c) - 1 |->
            LET start == c[j].block + c[j].len IN
            [bg |-> k - 1, prev |-> j, block |-> start,
             len |-> c[j + 1].block - start]]])

\* One step of the scan; `exact' ends it (goto done).
ScanHole(n, acc, hole) ==
    IF acc.exact THEN acc
    ELSE IF hole.len = n THEN [acc EXCEPT !.exact = TRUE, !.hole = hole]
    ELSE IF hole.len > n /\ (acc.hole.len = 0 \/ acc.hole.len > hole.len)
    THEN [acc EXCEPT !.hole = hole, !.minimize = TRUE]
    ELSE IF ~acc.minimize /\ acc.hole.len < hole.len
    THEN [acc EXCEPT !.hole = hole]
    ELSE acc

BestHole(f, n) ==
    FoldLeft(LAMBDA a, h : ScanHole(n, a, h),
             [exact |-> FALSE, minimize |-> FALSE,
              hole |-> [bg |-> 0, prev |-> 1, block |-> 0, len |-> 0]], Holes(f)).hole

\* [fs, reg]: reg is the region taken, of length 0 when there is no space.
TakeHole(f, hole, got) ==
    [fs  |-> IF got = 0 THEN Fail(f)
             ELSE reserve_blocks([f EXCEPT !.bgs[hole.bg].chunks[hole.prev].len = @ + got],
                                 hole.bg, hole.block, got),
     reg |-> [block |-> hole.block + FirstBlock(hole.bg), len |-> got, bg |-> hole.bg]]

ext4_allocate_best_fit_partial(f, n) ==
    LET take(hole) == TakeHole(f, hole, Lesser(hole.len, n)) IN take(BestHole(f, n))

RECURSIVE allocate_blocks(_, _)
\* [fs, list]: n blocks as a list of regions.
allocate_blocks(f, n) ==
    LET before(reg, r) == [r EXCEPT !.list = <<reg>> \o @]
        go_on(r) == before(r.reg, allocate_blocks(r.fs, n - r.reg.len))
    IN  IF n <= 0 \/ f.status # "ok" THEN [fs |-> f, list |-> <<>>]
        ELSE go_on(ext4_allocate_best_fit_partial(f, n))

\* Gives back the num blocks that end at block `last' of group g.
free_blocks(f, g, last, num) ==
    LET first == last - num + 1
        c     == f.bgs[g].chunks
        fits  == {i \in DOMAIN c : c[i].len >= num /\ c[i].block <= first}
        i     == CHOOSE k \in fits : \A l \in fits : l <= k
        freed == [f EXCEPT !.bgs[g].bits = @ \ (first .. last),
                           !.bgs[g].free_blocks = @ + num]
    IN  IF fits = {} THEN freed
        ELSE IF c[i].block = first
        THEN [freed EXCEPT !.bgs[g].chunks[i] =
                 [block |-> c[i].block + num, len |-> c[i].len - num]]
        ELSE IF c[i].block + c[i].len = first + num
        THEN [freed EXCEPT !.bgs[g].chunks[i].len = @ - num]
        ELSE freed

\* Mutant: the block is dropped from the list and stays marked as used.
reduce_allocation_leaks(f, list) ==
    LET reg == Last(list) IN
    [fs   |-> f,
     list |-> IF reg.len > 1 THEN ReplaceAt(list, Len(list), [reg EXCEPT !.len = @ - 1])
              ELSE Front(list)]

\* reduce_allocation(alloc, 1), the only call there is: drops the last block.
reduce_allocation(f, list) ==
    LET reg == Last(list) IN
    [fs   |-> free_blocks(f, reg.bg, reg.block + reg.len - FirstBlock(reg.bg) - 1, 1),
     list |-> IF reg.len > 1 THEN ReplaceAt(list, Len(list), [reg EXCEPT !.len = @ - 1])
              ELSE Front(list)]

\* reserve_oob_blocks(alloc, 1): splits off the block of the extent tree.
\* When the first region is one block long, split_allocation returns the
\* second region and leaves the iterator on the first.
reserve_oob_blocks(list) ==
    LET reg == Head(list) IN
    IF reg.len > 1
    THEN [oob  |-> <<[reg EXCEPT !.len = 1]>>,
          list |-> <<[reg EXCEPT !.block = @ + 1, !.len = @ - 1]>> \o Tail(list)]
    ELSE [oob |-> Tail(list), list |-> <<reg>>]
----------------------------------------------------------------------------
(* allocate.c: inodes. *)

GroupOf(ino) == (ino - 1) \div compute_inodes_per_group

\* get_inode: the first use of a group's inode table adds it to the image.
get_inode(f, ino) == [f EXCEPT !.bgs[GroupOf(ino)].table = TRUE]

reserve_inodes(f, g, num) ==
    [f EXCEPT !.bgs[g].first_free_inode = @ + num, !.bgs[g].free_inodes = @ - num]

\* [fs, ino]: the next inode of the first group that has one.
allocate_inode(f) ==
    LET free == {g \in 0 .. f.aux.groups - 1 : f.bgs[g].free_inodes >= 1} IN
    IF free = {} \/ f.status # "ok" THEN [fs |-> Fail(f), ino |-> 0]
    ELSE LET g == CHOOSE k \in free : \A l \in free : k <= l IN
         [fs  |-> reserve_inodes(f, g, 1),
          ino |-> g * compute_inodes_per_group + f.bgs[g].first_free_inode]

SetInode(f, ino, inode) ==
    [f EXCEPT !.inodes = [i \in DOMAIN @ \cup {ino} |-> IF i = ino THEN inode ELSE @[i]]]

SetBlocks(f, blocks, content(_)) ==
    [f EXCEPT !.image = [b \in DOMAIN @ \cup blocks |->
                             IF b \in blocks THEN content(b) ELSE @[b]]]
----------------------------------------------------------------------------
(* extent.c and indirect.c. *)

\* An inode: size in words, blocks counted by i_blocks, the extents written
\* and the number eh_entries claims, the extent-tree block (0: in the inode).
Inode(mode, size, blocks, extents, entries, leaf) ==
    [mode |-> mode, size |-> size, blocks |-> blocks, extents |-> extents,
     entries |-> entries, leaf |-> leaf, links |-> 1, dentries |-> <<>>,
     xattr |-> 0, inbody |-> <<>>, inblock |-> <<>>, dind |-> <<>>]

\* Position in the file of block b, for extents that hold it.
FileBlock(extents, b) ==
    LET k == CHOOSE i \in DOMAIN extents :
                 b \in extents[i].block .. extents[i].block + extents[i].len - 1
    IN  SumLen(SubSeq(extents, 1, k - 1)) + b - extents[k].block

\* Mutant: the count is the one taken before reduce_allocation.
HeaderEntriesEarly(all, list, leaf) == Len(all)

\* The extent header counts the regions left after reduce_allocation.
HeaderEntries(all, list, leaf) == IF leaf = 0 THEN Len(list) ELSE Len(all)

\* The block map of `size' words on prealloc and whatever must be added.
\* [fs, inode, list].
do_inode_allocate_extents(f, mode, size, prealloc) ==
    LET block_len == DivUp(size, Opts.block_size)
        cut(g, all) == IF Len(all) <= 3 THEN [oob |-> <<>>] @@ reduce_allocation(g, all)
                       ELSE [fs |-> g] @@ reserve_oob_blocks(all)
        result(c, all, leaf) ==
            [fs    |-> [c.fs EXCEPT !.oob = c.oob],
             inode |-> Inode(mode, size, block_len + (IF leaf = 0 THEN 0 ELSE 1), c.list,
                             HeaderEntries(all, c.list, leaf), leaf),
             list  |-> c.list]
        attach(c, all) == result(c, all, IF c.oob = <<>> THEN 0 ELSE Head(c.oob).block)
        extents(g, all) == IF g.status # "ok" THEN [fs |-> g, inode |-> <<>>, list |-> <<>>]
                           ELSE attach(cut(g, all), all)
        on(more) == extents(more.fs, prealloc \o more.list)
    IN  on(allocate_blocks(f, block_len + 1 - SumLen(prealloc)))

\* extent_create_backing and extent_create_backing_file: queue the content
\* region by region; running out of regions dereferences a null iterator.
create_backing(r, ino) ==
    LET need == DivUp(r.inode.size, Opts.block_size)
        f1 == SetInode(r.fs, ino, r.inode)
        f2 == SetBlocks(f1, BlocksOf(r.list),
                        LAMBDA b : <<"data", ino, FileBlock(r.list, b)>>)
    IN  IF r.fs.status # "ok" THEN r.fs
        ELSE IF SumLen(r.list) < need THEN [f1 EXCEPT !.status = "segv"]
        ELSE IF r.inode.leaf = 0 THEN f2
        ELSE SetBlocks(f2, {r.inode.leaf}, LAMBDA b : <<"leaf", ino, 0>>)

inode_allocate_data_extents(f, ino, mode, size) ==
    create_backing(do_inode_allocate_extents(f, mode, size, <<>>), ino)

\* Mutant: the name is not looked for.
BaseMatchesUnnamed(f, path) == {i \in DOMAIN f.base : f.base[i].name = NoName}

BaseMatches(f, path) == {i \in DOMAIN f.base : f.base[i].name \in {path, NoName}}

\* A file takes over the blocks its name has in the base map, or those of
\* the unnamed allocation that ends the chain.
inode_allocate_file_extents(f, ino, path, size) ==
    LET match == BaseMatches(f, path)
        k     == CHOOSE i \in match : \A j \in match : i <= j
        pre   == IF match = {} THEN <<>> ELSE f.base[k].list
        f1    == IF match = {} THEN f ELSE [f EXCEPT !.base = RemoveAt(@, k)]
        backed(r) == [create_backing(r, ino) EXCEPT !.saved = <<[name |-> path, list |-> r.list]>> \o @]
    IN  backed(do_inode_allocate_extents(f1, "file", size, pre))

\* One block for a long symbolic link, attached directly.
inode_allocate_data_indirect(f, ino, size) ==
    LET on(r) == IF r.fs.status # "ok" THEN r.fs
                 ELSE SetBlocks(SetInode(r.fs, ino, Inode("link", size, 1, r.list, 1, 0)),
                                BlocksOf(r.list), LAMBDA b : <<"data", ino, 0>>)
    IN  on(allocate_blocks(f, 1))

\* x % n of a 32-bit unsigned x = i - j that may have wrapped.
RECURSIVE PowMod(_, _)
PowMod(k, n) == IF k = 0 THEN 1 % n ELSE (2 * PowMod(k - 1, n)) % n
WrapMod(i, j, n) == IF i >= j THEN (i - j) % n
                    ELSE (PowMod(32, n) + n * j + i - j) % n

\* The resize inode: the double indirect block lists the reserved descriptor
\* blocks of group 0, each of which lists its backups in the other groups.
inode_attach_resize(f, list) ==
    LET R  == compute_bg_desc_reserve_blocks
        slot(i) == WrapMod(i, f.aux.bg_desc_blocks, R)
        inode(leaf) ==
                 [Inode("file", 0, SumLen(list) + 1, <<>>, 0, leaf) EXCEPT
                    !.dind = [i \in 0 .. R - 1 |->
                                [block   |-> list[1].block + slot(i),
                                 backups |-> [j \in 1 .. Len(list) - 1 |->
                                                list[j + 1].block + slot(i)]]]]
        on(r) == IF r.fs.status # "ok" THEN r.fs
                 ELSE SetBlocks(SetInode(r.fs, RESIZE_INO, inode(Head(r.list).block)),
                                {Head(r.list).block}, LAMBDA b : <<"leaf", RESIZE_INO, 0>>)
    IN  on(allocate_blocks(f, 1))
----------------------------------------------------------------------------
(* contents.c. *)

\* Where the entries of a directory end: "." and ".." take six words, and no
\* entry crosses a block boundary.
DentryEnd(end, e) ==
    LET n == 2 + e.words
        into == end % Opts.block_size
    IN  (IF into + n > Opts.block_size THEN end + Opts.block_size - into ELSE end) + n

dentry_size(entries) == FoldLeft(DentryEnd, 6, entries)

\* add_dentry, on the entries so far and the offset of the next one: the
\* previous entry is padded when this one would cross a block boundary.
add_dentry(d, e) ==
    LET B    == Opts.block_size
        n    == 2 + e.words
        last == (d.offset + n - 1) \div B
        pad  == IF d.offset \div B # last THEN last * B - d.offset ELSE 0
        k    == Len(d.list)
    IN  [offset |-> d.offset + pad + n,
         list   |-> Append(IF pad = 0 THEN d.list
                           ELSE [d.list EXCEPT ![k].rec_len = @ + pad],
                           [name |-> e.name, ino |-> 0, rec_len |-> n,
                            at |-> d.offset + pad])]

Directory(ino, parent, entries, size) ==
    LET dots == [offset |-> 6,
                 list |-> <<[name |-> ".", ino |-> ino, rec_len |-> 3, at |-> 0],
                            [name |-> "..", ino |-> parent, rec_len |-> 3, at |-> 3]>>]
        d == FoldLeft(add_dentry, dots, entries)
    IN  [d.list EXCEPT ![Len(d.list)].rec_len = @ + size - d.offset]

\* [fs, ino].  parent = 0 makes the root directory.
make_directory(f, parent, entries) ==
    LET size == AlignUp(dentry_size(entries), Opts.block_size)
        dirs == Len(SelectSeq(entries, LAMBDA e : e.kind = "dir"))
        used(g, ino) == get_inode([g EXCEPT !.bgs[GroupOf(ino)].used_dirs = @ + 1], ino)
        filled(g, ino) ==
            IF g.status # "ok" THEN g
            ELSE [g EXCEPT !.inodes[ino].links = dirs + 2,
                           !.inodes[ino].dentries =
                               Directory(ino, IF parent = 0 THEN ROOT_INO ELSE parent, entries, size)]
        made(a) == [ino |-> a.ino,
                    fs  |-> IF a.fs.status # "ok" THEN a.fs
                            ELSE filled(inode_allocate_data_extents(used(a.fs, a.ino), a.ino, "dir", size),
                                        a.ino)]
    IN  made(IF parent = 0 THEN [fs |-> f, ino |-> ROOT_INO] ELSE allocate_inode(f))

\* [fs, ino].
make_file(f, path, size) ==
    LET filled(g, ino) == IF size > 0 THEN inode_allocate_file_extents(g, ino, path, size)
                          ELSE SetInode(g, ino, Inode("file", 0, 0, <<>>, 0, 0))
        made(a) == [ino |-> a.ino,
                    fs  |-> IF a.fs.status # "ok" THEN a.fs ELSE filled(get_inode(a.fs, a.ino), a.ino)]
    IN  made(allocate_inode(f))

make_link(f, size) ==
    LET filled(g, ino) == IF size < FastLink
                          THEN SetInode(g, ino, Inode("link", size, 0, <<>>, 0, 0))
                          ELSE inode_allocate_data_indirect(g, ino, size)
        made(a) == [ino |-> a.ino,
                    fs  |-> IF a.fs.status # "ok" THEN a.fs ELSE filled(get_inode(a.fs, a.ino), a.ino)]
    IN  made(allocate_inode(f))

\* Words an attribute needs: its entry and its value; one word stays null.
XattrNeed(x) == x.words
XattrFree(room, list) == room - 1 - FoldLeft(LAMBDA n, x : n + XattrNeed(x), 0, list)

\* get_xattr_block_for_inode: the inode's attribute block, made on first use.
get_xattr_block_for_inode(f, ino) ==
    LET with(g, b) == SetBlocks([g EXCEPT !.inodes[ino].xattr = b, !.inodes[ino].blocks = @ + 1],
                                {b}, LAMBDA c : <<"xattr", ino, 0>>)
        on(r) == IF r.fs.status # "ok" THEN r.fs ELSE with(r.fs, Head(r.list).block)
    IN  IF f.inodes[ino].xattr # 0 THEN f ELSE on(allocate_blocks(f, 1))

\* xattr_add: in the inode while there is room, else in its attribute block.
xattr_add(f, ino, x) ==
    IF f.status # "ok" \/ x.words = 0 THEN f
    ELSE IF XattrNeed(x) <= XattrFree(InodeXattrRoom, f.inodes[ino].inbody)
    THEN [f EXCEPT !.inodes[ino].inbody = Append(@, x)]
    ELSE LET inblock(g) ==
                 IF g.status # "ok" THEN g
                 ELSE IF XattrNeed(x) <= XattrFree(Opts.block_size - 8, g.inodes[ino].inblock)
                 THEN [g EXCEPT !.inodes[ino].inblock = Append(@, x)]
                 ELSE Fail(g)
         IN  inblock(get_xattr_block_for_inode(f, ino))

\* The end of the loop body of build_directory_structure: the entry's inode
\* number goes into the directory, then come the attributes, the SELinux
\* context before the capabilities, as the order of attributes demands.
SetAttributes(f, ino, e) ==
    xattr_add(xattr_add(f, ino, [name |-> "selinux", rank |-> 1, words |-> e.secon]),
              ino, [name |-> "capability", rank |-> 2, words |-> e.caps])

AttachEntry(f, dir, i, ino, e) ==
    IF f.status # "ok" THEN f
    ELSE SetAttributes([f EXCEPT !.inodes[dir].dentries[i + 2].ino = ino], ino, e)
----------------------------------------------------------------------------
(* make_ext4fs.c: the base map. *)

get_block_group(f, b) ==
    LET below == {g \in 0 .. f.aux.groups - 1 : b >= FirstBlock(g)} IN
    IF below = {} THEN 0 ELSE CHOOSE g \in below : \A h \in below : h <= g

\* One range of a line of the base map; left: blocks the file still needs.
\* A range outside the bounds of its group is skipped; the upper bound is
\* the start of the chunk added last.
ExtractRange(acc, range) ==
    LET g     == get_block_group(acc.fs, range.block)
        end   == range.block + range.len - 1
        c     == acc.fs.bgs[g].chunks
        start == range.block - FirstBlock(g)
        n     == Lesser(range.len, acc.left)
    IN  IF acc.left = 0 \/ acc.fs.status # "ok" THEN acc
        ELSE IF g # get_block_group(acc.fs, end) THEN [acc EXCEPT !.fs = Fail(@)]
        ELSE IF \/ c[1].block + c[1].len >= start
                \/ c[Len(c)].block <= end - FirstBlock(g)
        THEN acc
        ELSE [fs   |-> reserve_bg_chunk(acc.fs, g, start, n),
              left |-> acc.left - n,
              list |-> Append(acc.list, [block |-> range.block, len |-> n, bg |-> g])]

\* The regular file of that path in the tree, if there is one.
RECURSIVE FindFile(_, _)
FindFile(entries, path) ==
    LET hit == {e \in ToSet(entries) : e.name = Head(path)} IN
    IF hit = {} THEN <<>>
    ELSE LET e == CHOOSE x \in hit : TRUE IN
         IF Len(path) = 1 THEN IF e.kind = "file" THEN <<e>> ELSE <<>>
         ELSE IF e.kind = "dir" THEN FindFile(e.entries, Tail(path)) ELSE <<>>

ExtractFile(f, line) ==
    LET found == FindFile(tree.entries, line.name) IN
    IF found = <<>> \/ f.status # "ok" THEN f
    ELSE LET reserved(r) ==
                 FoldLeft(LAMBDA h, reg : IF h.status # "ok" THEN h
                              ELSE reserve_blocks(h, reg.bg, reg.block - FirstBlock(reg.bg), reg.len),
                          r.fs, r.list)
             kept(r) == [reserved(r) EXCEPT !.base = Append(@, [name |-> line.name, list |-> r.list])]
         IN  kept(FoldLeft(ExtractRange,
                           [fs |-> f, list |-> <<>>,
                            left |-> DivUp(found[1].size, Opts.block_size)], line.list))

extract_base_fs_allocations(f) ==
    LET g == FoldLeft(ExtractFile, f, base) IN
    [g EXCEPT !.base = Append(@, [name |-> NoName, list |-> <<>>]),
              !.bgs = [k \in DOMAIN @ |->
                         [@[k] EXCEPT !.chunks = SortSeq(@, LAMBDA a, b : a.block < b.block)]]]
----------------------------------------------------------------------------
(* ext4_utils.c: the reserved inodes and the counts. *)

ext4_create_journal_inode(f) ==
    IF compute_journal_blocks = 0 THEN f
    ELSE inode_allocate_data_extents(get_inode(f, JOURNAL_INO), JOURNAL_INO, "file",
                                     compute_journal_blocks * Opts.block_size)

ext4_create_resize_inode(f) ==
    LET supers == SelectSeq([g \in 1 .. f.aux.groups |-> g - 1], HasSuper) IN
    inode_attach_resize(get_inode(f, RESIZE_INO),
        [i \in DOMAIN supers |->
            [block |-> FirstBlock(supers[i]) + 1 + f.aux.bg_desc_blocks,
             len   |-> compute_bg_desc_reserve_blocks, bg |-> supers[i]]])

ext4_update_free(f) ==
    LET total(field(_)) == FoldLeft(LAMBDA n, g : n + field(f.bgs[g - 1]), 0,
                                    [g \in 1 .. f.aux.groups |-> g])
    IN  [f EXCEPT !.sb = <<total(LAMBDA b : b.free_blocks), total(LAMBDA b : b.free_inodes)>>]
----------------------------------------------------------------------------
(* The program. *)

\* Takes the new globals, and the next label unless a step ended the program.
Become(f, next) ==
    /\ fs' = f
    /\ pc' = IF fs'.status = "ok" THEN next ELSE fs'.status

NoDisk == <<>>
Areas == FlattenSeq([k \in 1 .. fs.aux.groups |->
             IF HasSuper(k - 1) THEN <<<<"sb", k - 1>>, <<"body", k - 1>>>>
             ELSE <<<<"body", k - 1>>>>])
OldDisk == [i \in DOMAIN Areas |-> "old"]

Init ==
    /\ gen = 1 /\ pc = "start" /\ tree \in Trees /\ len \in Lens
    /\ device \in BOOLEAN
    /\ fs = <<>> /\ stack = <<>> /\ base = <<>> /\ disk = NoDisk /\ wrong = FALSE

\* make_ext4fs_internal up to ext4_fill_in_sb.
Start ==
    /\ pc = "start"
    /\ IF ext4_create_fs_aux_info.small
       THEN pc' = "failed" /\ fs' = fs
       ELSE Become(block_allocator_init(ext4_create_fs_aux_info), "extract")
    /\ UNCHANGED <<gen, tree, len, device, stack, base, disk, wrong>>

Extract ==
    /\ pc = "extract"
    /\ LET f == IF gen = 2 THEN extract_base_fs_allocations(fs) ELSE fs IN
       IF f.status = "ok" /\ f.bgs[0].free_inodes < RESERVED
       THEN Become(Fail(f), "failed")
       ELSE Become(reserve_inodes(f, 0, RESERVED), "journal")
    /\ UNCHANGED <<gen, tree, len, device, stack, base, disk, wrong>>

Journal ==
    /\ pc = "journal"
    /\ Become(ext4_create_journal_inode(fs), "resize")
    /\ UNCHANGED <<gen, tree, len, device, stack, base, disk, wrong>>

Resize ==
    /\ pc = "resize"
    /\ Become(ext4_create_resize_inode(fs), "root")
    /\ UNCHANGED <<gen, tree, len, device, stack, base, disk, wrong>>

\* Enters build_directory_structure for a directory.
Enter(parent, path, entries) ==
    /\ \E r \in {make_directory(fs, parent, entries)} :
           /\ Become(r.fs, "build")
           /\ stack' = Append(stack, [ino |-> r.ino, path |-> path, entries |-> entries, i |-> 1])
    /\ UNCHANGED <<gen, tree, len, device, base, disk, wrong>>

BuildRoot ==
    /\ pc = "root"
    /\ LET has == \E e \in ToSet(tree.entries) : e.name = LostAndFound.name
           lf  == [LostAndFound EXCEPT !.secon = tree.secon]
       IN  Enter(0, <<>>, IF has THEN tree.entries ELSE <<lf>> \o tree.entries)

Top == stack[Len(stack)]
InBuild == pc = "build" /\ stack # <<>>
MoreEntries == InBuild /\ Top.i <= Len(Top.entries)
Entry == Top.entries[Top.i]
EntryPath == Append(Top.path, Entry.name)

\* Scanning a directory or reading an entry of it fails on the host.
HostError ==
    /\ MoreEntries
    /\ Become(Fail(fs), "failed")
    /\ UNCHANGED <<gen, tree, len, device, stack, base, disk, wrong>>

MakeEntry ==
    /\ MoreEntries
    /\ Entry.kind # "dir"
    /\ \E r \in {CASE Entry.kind = "file" -> make_file(fs, EntryPath, Entry.size)
                   [] Entry.kind = "link" -> make_link(fs, Entry.size)
                   [] OTHER -> [fs |-> Fail(fs), ino |-> 0]} :
           Become(AttachEntry(r.fs, Top.ino, Top.i, r.ino, Entry), "build")
    /\ stack' = [stack EXCEPT ![Len(stack)].i = @ + 1]
    /\ UNCHANGED <<gen, tree, len, device, base, disk, wrong>>

MakeDirectory ==
    /\ MoreEntries
    /\ Entry.kind = "dir"
    /\ Enter(Top.ino, EntryPath, Entry.entries)

\* Returns from build_directory_structure to its caller.
FinishDirectory ==
    /\ InBuild /\ ~MoreEntries
    /\ LET n == Len(stack)
           up == stack[n - 1]
       IN  IF n = 1
           THEN /\ Become(xattr_add(fs, ROOT_INO, [name |-> "selinux", rank |-> 1,
                                                   words |-> tree.secon]), "free")
                /\ stack' = <<>>
           ELSE /\ Become(AttachEntry(fs, up.ino, up.i, Top.ino, up.entries[up.i]), "build")
                /\ stack' = [Front(stack) EXCEPT ![n - 1].i = @ + 1]
    /\ UNCHANGED <<gen, tree, len, device, base, disk, wrong>>

\* The counts are final, the block map is saved; the target is about to be
\* written.
UpdateFree ==
    /\ pc = "free"
    /\ Become(ext4_update_free(fs), "wipe")
    /\ disk' = OldDisk
    /\ UNCHANGED <<gen, tree, len, device, stack, base, wrong>>

\* wipe_block_device: discards a block device, if it can.
Wipe ==
    /\ pc = "wipe"
    /\ pc' = "image"
    /\ \E ok \in BOOLEAN :
         disk' = IF device /\ ok THEN [i \in DOMAIN disk |-> "wiped"] ELSE disk
    /\ UNCHANGED <<gen, tree, len, device, fs, stack, base, wrong>>

IsSuper(i) == Areas[i][1] = "sb"
\* Mutant: the device gets the final super blocks with the image.
QueuedFinal(i) == "new"

Queued(i) == IF IsSuper(i) /\ device THEN "zero" ELSE "new"
Unwritten == {i \in DOMAIN disk : disk[i] # Queued(i)}

\* sparse_file_write, area after area.
WriteArea ==
    /\ pc = "image"
    /\ IF Unwritten = {}
       THEN disk' = disk /\ pc' = "supers"
       ELSE /\ disk' = [disk EXCEPT ![CHOOSE i \in Unwritten : \A j \in Unwritten : i <= j]
                            = Queued(CHOOSE i \in Unwritten : \A j \in Unwritten : i <= j)]
            /\ pc' = pc
    /\ UNCHANGED <<gen, tree, len, device, fs, stack, base, wrong>>

\* sparse_file_write gives up; write_ext4_image does not look at its result.
WriteError ==
    /\ pc = "image" /\ Unwritten # {}
    /\ wrong' = TRUE /\ pc' = "supers"
    /\ UNCHANGED <<gen, tree, len, device, fs, stack, base, disk>>

\* block_device_write_sb: the backups, then the primary.
StaleSupers == {i \in DOMAIN disk : IsSuper(i) /\ disk[i] # "new"}
NextSuper(stale) ==
    IF stale = {1} THEN 1 ELSE CHOOSE i \in stale \ {1} : \A j \in stale \ {1} : i <= j

WriteSuper ==
    /\ pc = "supers"
    /\ IF device /\ StaleSupers # {}
       THEN disk' = [disk EXCEPT ![NextSuper(StaleSupers)] = "new"] /\ pc' = pc
       ELSE disk' = disk /\ pc' = "done"
    /\ UNCHANGED <<gen, tree, len, device, fs, stack, base, wrong>>

\* A new run of the program builds another tree on the map just saved.
BuildOnBase ==
    /\ pc = "done" /\ gen = 1 /\ ~device /\ ~wrong
    /\ gen' = 2 /\ pc' = "start" /\ tree' \in Trees
    /\ base' = fs.saved
    /\ fs' = <<>> /\ disk' = NoDisk
    /\ UNCHANGED <<len, device, stack, wrong>>

Next == \/ Start
        \/ Extract
        \/ Journal
        \/ Resize
        \/ BuildRoot
        \/ HostError
        \/ MakeEntry
        \/ MakeDirectory
        \/ FinishDirectory
        \/ UpdateFree
        \/ Wipe
        \/ WriteArea
        \/ WriteError
        \/ WriteSuper
        \/ BuildOnBase

Spec == Init /\ [][Next]_vars
----------------------------------------------------------------------------
(* Properties. *)

Built == pc \in {"journal", "resize", "root", "build", "free", "wipe", "image", "supers", "done"}

\* The blocks an inode owns: its extents, the block of its extent tree, its
\* attribute block.
Owned(ino) ==
    LET n == fs.inodes[ino] IN
    BlocksOf(n.extents) \cup ({n.leaf, n.xattr} \ {0})

GroupBlocks(g) == {FirstBlock(g) + b : b \in fs.bgs[g].bits}

\* No block is used twice and none is lost: at every step of the build the
\* block bitmaps mark exactly the headers, the blocks past the end, the
\* blocks kept for files of the base map and the blocks inodes own, each
\* owned once; free counts are the clear bits; and what the allocator would
\* hand out is clear (allocate.c, reserve_blocks and free_blocks).
BlocksAccounted ==
    Built =>
      LET header(g) == FirstBlock(g) .. FirstBlock(g) + Header(g, fs.aux.bg_desc_blocks) - 1
          past(g)   == fs.aux.len_blocks .. FirstBlock(g) + Opts.blocks_per_group - 1
          kept      == UNION {BlocksOf(fs.base[i].list) : i \in DOMAIN fs.base}
          owners    == UNION {Owned(i) : i \in DOMAIN fs.inodes}
      IN  /\ \A i, j \in DOMAIN fs.inodes : i # j => Owned(i) \cap Owned(j) = {}
          /\ owners \cap kept = {}
          /\ UNION {GroupBlocks(g) : g \in DOMAIN fs.bgs}
               = owners \cup kept \cup UNION {header(g) \cup past(g) : g \in DOMAIN fs.bgs}
          /\ \A g \in DOMAIN fs.bgs :
               fs.bgs[g].free_blocks = Opts.blocks_per_group - Cardinality(fs.bgs[g].bits)
          /\ \A h \in ToSet(Holes(fs)) :
               h.len >= 0 /\ (h.block .. h.block + h.len - 1) \cap fs.bgs[h.bg].bits = {}

\* What the finished image says is what the tree holds: reading an inode
\* through its extent tree gives its blocks in order, the header counts its
\* extents, i_blocks counts the blocks it owns, the entries of a directory
\* tile it without crossing a block and name used inodes, a directory has a
\* link per subdirectory, attributes are sorted (extent.c, contents.c).
ReadsBack(ino) ==
    LET n == fs.inodes[ino]
        d == n.dentries
    IN  /\ n.entries = Len(n.extents)
        /\ \A b \in BlocksOf(n.extents) :
             fs.image[b] = <<"data", ino, FileBlock(n.extents, b)>>
        /\ n.mode # "link" /\ ino # RESIZE_INO =>
             SumLen(n.extents) = DivUp(n.size, Opts.block_size)
        /\ ino # RESIZE_INO => n.blocks = Cardinality(Owned(ino))
        /\ ino = RESIZE_INO /\ PowMod(32, compute_bg_desc_reserve_blocks) = 0 =>
             {n.dind[i].block : i \in DOMAIN n.dind}
               = {FirstBlock(0) + 1 + fs.aux.bg_desc_blocks + i : i \in DOMAIN n.dind}
        /\ n.leaf # 0 => fs.image[n.leaf] = <<"leaf", ino, 0>>
        /\ n.xattr # 0 => fs.image[n.xattr] = <<"xattr", ino, 0>>
        /\ \A x \in {n.inbody, n.inblock} : \A i \in 1 .. Len(x) - 1 : x[i].rank < x[i + 1].rank
        /\ n.mode = "dir" =>
             /\ \A i \in DOMAIN d :
                  /\ d[i].at + d[i].rec_len = IF i = Len(d) THEN n.size ELSE d[i + 1].at
                  /\ d[i].at \div Opts.block_size
                       = (d[i].at + d[i].rec_len - 1) \div Opts.block_size
                  /\ d[i].ino \in DOMAIN fs.inodes
             /\ n.links = Cardinality({i \in DOMAIN d : fs.inodes[d[i].ino].mode = "dir"})

ImageReadsBack ==
    pc = "done" /\ ~wrong =>
        /\ \A ino \in DOMAIN fs.inodes : ReadsBack(ino)
        /\ fs.sb[1] = Cardinality(UNION {FirstBlock(g) .. FirstBlock(g) + Opts.blocks_per_group - 1
                                             : g \in DOMAIN fs.bgs})
                       - Cardinality(UNION {GroupBlocks(g) : g \in DOMAIN fs.bgs})
        /\ \A ino \in DOMAIN fs.inodes : fs.bgs[GroupOf(ino)].table
        /\ \A g \in DOMAIN fs.bgs :
             fs.bgs[g].used_dirs = Cardinality({i \in DOMAIN fs.inodes :
                                       GroupOf(i) = g /\ fs.inodes[i].mode = "dir"})

\* A file the base image had keeps its blocks, as far as it still needs
\* them, in the image built on the base map, one of them perhaps for its
\* extent tree (extract_base_fs_allocations).  A map that names the first
\* data block of a group is excepted: the bounds check skips that range.
KeepsBaseBlocks ==
    pc = "done" /\ gen = 2 =>
        \A i \in DOMAIN base : \A j \in DOMAIN fs.saved :
            base[i].name = fs.saved[j].name =>
                LET old == BlocksOf(base[i].list)
                    new == BlocksOf(fs.saved[j].list)
                    leaves == {fs.inodes[k].leaf : k \in DOMAIN fs.inodes}
                    skipped == {b \in old : \E g \in DOMAIN fs.bgs :
                                   b - FirstBlock(g) = Header(g, fs.aux.bg_desc_blocks)}
                IN  skipped # {} \/ old \subseteq new \cup leaves \/ new \subseteq old

\* The block device never shows a valid primary super block over a body
\* that is not all of one image: while it is being rewritten the super block
\* is zero (comment in ext4_fill_in_sb).
NeverHalfWritten ==
    device /\ disk # NoDisk =>
        /\ disk[1] = "old" => \A i \in DOMAIN disk : disk[i] = "old"
        /\ disk[1] = "new" => \A i \in DOMAIN disk : disk[i] = "new"

\* The same, for a device on which no write fails.
NeverHalfWrittenIfWritable == ~wrong => NeverHalfWritten

\* reserve_oob_blocks takes one block for the extent tree and leaves the
\* rest to the file (comment on split_allocation).
SplitsInTwo == fs # <<>> => SumLen(fs.oob) <= 1
=============================================================================
