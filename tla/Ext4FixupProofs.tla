--------------------------- MODULE Ext4FixupProofs ---------------------------
(***************************************************************************)
(* ext4fixup, for every image whose directories are a tree, and however    *)
(* often it is cut off and run again.                                      *)
(*                                                                         *)
(* The state in the boot sector says in which numbering an entry with or   *)
(* without the high bit is (PhaseInv).  A pass finishes a directory after  *)
(* its children (Closed), so a restarted update pass that skips a child    *)
(* because its entry is converted skips nothing that is not.  Every        *)
(* activation of recurse_dir has in its buffer what the pass made of the   *)
(* entries it has passed and what is on disk of the others (FrameOK).      *)
(***************************************************************************)
EXTENDS Ext4Fixup, TLAPS

\* An entry of a directory.
Entries == [name : STRING, type : STRING, inode : Int, high : BOOLEAN]

\* The entries of a directory are numbered from 1.
Ix(d) == 1 .. Len(Content[d])

\* Entry n of d is a directory that recurse_dir descends into.
Child(d, n) ==
    /\ Content[d][n].name \notin {".", ".."}
    /\ \/ Content[d][n].type = "dir"
       \/ Content[d][n].type = "unknown" /\ Target(d, n) \in Dirs

\* What ext4fixup is run on: groups numbered from 0, directories that are not
\* empty and form a tree below the root, in the old numbering.
ImageOK ==
    /\ OldInodesPerGroup \in Nat \ {0} /\ InodesPerBlock \in Nat \ {0}
    /\ 0 \in SuperGroups /\ \E last \in Nat : Groups = 0 .. last
    /\ StrayBits \subseteq Groups /\ ShortRecLen \subseteq Dirs
    /\ Content \in [Dirs -> Seq(Entries)] /\ Root \in Dirs
    /\ \A d \in Dirs :
        /\ Len(Content[d]) > 0
        /\ BlockOf[d] \in Seq(Nat) /\ Len(BlockOf[d]) = Len(Content[d])
        /\ \A n \in Ix(d) :
            /\ ~Content[d][n].high /\ Content[d][n].inode > 0
            /\ BlockOf[d][n] \in 1 .. NumBlocks(d)
            /\ Child(d, n) => Target(d, n) \in Dirs \ {Root}
    /\ \A d, e \in Dirs : \A n \in Ix(d), m \in Ix(e) :
        Child(d, n) /\ Child(e, m) /\ Target(d, n) = Target(e, m) => d = e /\ n = m
    /\ \A S \in SUBSET Dirs :
        Root \in S /\ (\A d \in S : \A n \in Ix(d) : Child(d, n) => Target(d, n) \in S) => S = Dirs

-----------------------------------------------------------------------------
(* The disk.                                                               *)

PerGroup == sbs[0].per_group

\* The number of the inode that entry n of d names, with p inodes per group.
Num(d, n, p) == InodeNumber(Target(d, n), p)

\* An entry keeps its name and its type.
Same(e, d, n) == e \in Entries /\ e.name = Content[d][n].name /\ e.type = Content[d][n].type

\* With the directories D, every entry of d has the high bit h.
All(D, d, h) == \A n \in Ix(d) : D[d][n].high = h

\* Every entry of every directory is unmarked and in the numbering of p.
Clean(D, p) == \A d \in Dirs : \A n \in Ix(d) : ~D[d][n].high /\ D[d][n].inode = Num(d, n, p)

\* A directory that a pass has written to has no child that the pass has yet to
\* write to.
Closed(D, h) ==
    \A d \in Dirs : \A n, m \in Ix(d) : D[d][n].high = h /\ Child(d, m) => All(D, Target(d, m), h)

\* What the fixup state in the boot sector says of the directories.
PhaseInv ==
    /\ magic = "unset" => Clean(dirs, PerGroup)
    /\ magic = "marking" =>
        /\ \A d \in Dirs : \A n \in Ix(d) : dirs[d][n].inode = Num(d, n, PerGroup)
        /\ Closed(dirs, TRUE)
    /\ magic = "updating_inums" =>
        /\ \A d \in Dirs : \A n \in Ix(d) :
            dirs[d][n].inode = Num(d, n, IF dirs[d][n].high THEN PerGroup ELSE NewPerGroup)
        /\ Closed(dirs, FALSE)
        /\ \A d \in Dirs : dirs[d][Len(Content[d])].high \/ d \notin short
    /\ magic = "updating_sb" => Clean(dirs, NewPerGroup) /\ short = {}

\* A super block is a record of these fields.
IsSb(s) ==
    /\ s = [per_group |-> s.per_group, count |-> s.count, free |-> s.free, unmountable |-> s.unmountable]
    /\ s.unmountable \in BOOLEAN

States == {"unset", "marking", "updating_inums", "updating_sb"}

\* The numbers of inodes per group that a super block can have.
PerGroups == {OldInodesPerGroup, NewPerGroup}

\* The directories have the entries of the image.
DirsOK(D) ==
    /\ D \in [Dirs -> Seq(Entries)]
    /\ \A d \in Dirs : Len(D[d]) = Len(Content[d]) /\ \A n \in Ix(d) : Same(D[d][n], d, n)

\* The disk: the primary super block has the old or the new number, and with the
\* new one the bitmaps are clean.
DiskInv ==
    /\ magic \in States
    /\ DirsOK(dirs)
    /\ short \subseteq Dirs /\ stray \subseteq Groups
    /\ sbs = [g \in SuperGroups |-> sbs[g]] /\ IsSb(sbs[0])
    /\ PerGroup \in PerGroups
    /\ sbs[0].count = PerGroup * NumGroups
    /\ PerGroup = NewPerGroup /\ NewPerGroup # OldInodesPerGroup => stray = {}

-----------------------------------------------------------------------------
(* The process.                                                            *)

Scanning == {"scan", "write_block"}

Updating == {"count", "write_sb", "write_bg_desc", "next_group"}

\* The pass that each state of the fixup calls for, and the state after it.
ModeOf == {<<"unset", "sanity">>, <<"marking", "mark">>, <<"updating_inums", "update">>}

NextState == {<<"unset", "marking">>, <<"marking", "updating_inums">>,
              <<"updating_inums", "updating_sb">>, <<"updating_sb", "unset">>}

\* Where the process works with the number in the primary super block.
InStep ==
    \/ pc \in {"dispatch", "scan", "write_block", "pass_done", "count"}
    \/ pc \in {"set_magic", "set_sb"} /\ state # "unset"
    \/ pc = "write_sb" /\ i = 0

\* Where the process is, and what it has in memory.
ProcInv ==
    /\ pc \in Labels \ {"failed"} /\ state \in States /\ i \in Nat
    /\ pc \notin {"stopped", "finished"} => info \in PerGroups
    /\ InStep => info = PerGroup
    /\ pc \in Scanning \cup {"pass_done"} => <<magic, mode>> \in ModeOf
    /\ pc = "pass_done" => /\ mode = "mark" => \A d \in Dirs : All(dirs, d, TRUE)
                           /\ mode = "update" => Clean(dirs, NewPerGroup) /\ short = {}
    /\ pc = "set_magic" => /\ <<magic, state>> \in NextState
                           /\ state = "updating_inums" => \A d \in Dirs : All(dirs, d, TRUE)
                           /\ state = "updating_sb" => Clean(dirs, NewPerGroup) /\ short = {}
                           /\ state = "unset" => PerGroup = NewPerGroup
    /\ pc = "set_sb" => /\ magic = state
                        /\ state = "marking" => Clean(dirs, PerGroup)
                        /\ state = "unset" => PerGroup = NewPerGroup /\ short = {}
    /\ pc = "finished" => magic = "unset" /\ PerGroup = NewPerGroup /\ short = {}

\* update_superblocks_and_bg_desc.
SbInv ==
    /\ pc \in Updating => magic = "updating_sb" /\ IsSb(sb)
    /\ pc = "count" => /\ sb = sbs[0] /\ i \in 0 .. NumGroups
                       /\ info < NewPerGroup => \A g \in 0 .. i - 1 : g \notin stray
    /\ pc \in Updating \ {"count"} =>
        /\ sb.per_group = NewPerGroup /\ sb.count = NewPerGroup * NumGroups
        /\ NewPerGroup # OldInodesPerGroup => stray = {}
    /\ pc = "write_sb" /\ i = 0 => sb.unmountable = sbs[0].unmountable
    /\ pc \in {"write_bg_desc", "next_group"} \/ (pc = "write_sb" /\ i > 0) => PerGroup = NewPerGroup

\* The primary super block is unmountable from the start of the marking pass on,
\* unless a run was cut off before it could say so.
MountInv ==
    "set_sb" \notin torn =>
        /\ magic # "unset" /\ pc # "set_sb" => sbs[0].unmountable
        /\ pc = "set_sb" /\ state \in {"updating_inums", "updating_sb"} => sbs[0].unmountable

-----------------------------------------------------------------------------
(* The recursion.                                                          *)

Frames == [dir : Dirs, buf : Seq(Entries), short : BOOLEAN, pos : Nat, recursed : BOOLEAN, block : Nat]

\* What pass m makes of entry n of d, with p inodes per group in the super block.
Made(m, p, e, d, n) ==
    /\ m = "mark" => e.high /\ e.inode = Num(d, n, p)
    /\ m = "update" => ~e.high /\ e.inode = Num(d, n, NewPerGroup)

\* Of directory f.dir an activation has in its buffer what it has made of the
\* entries before pos, and the others as they are on disk; the directories that
\* it has descended into are written.
FrameOK(D, m, p, f) ==
    /\ f \in Frames
    /\ Len(f.buf) = Len(Content[f.dir]) /\ f.pos \in 1 .. Len(Content[f.dir]) + 1
    /\ \A n \in Ix(f.dir) :
        /\ Same(f.buf[n], f.dir, n)
        /\ n >= f.pos => f.buf[n] = D[f.dir][n]
        /\ n < f.pos => Made(m, p, f.buf[n], f.dir, n)
        /\ m # "sanity" /\ (n < f.pos \/ (n = f.pos /\ f.recursed)) /\ Child(f.dir, n) =>
            All(D, Target(f.dir, n), m = "mark")

\* Activation g is the one that f waits for.
Waits(f, g) ==
    /\ f.pos \in Ix(f.dir) /\ ~f.recursed /\ f.block = 1
    /\ Child(f.dir, f.pos)
    /\ g.dir = Target(f.dir, f.pos)

\* The activations lead from the root to the directory that is read or written;
\* no directory is in two of them.
Path(S, D, m, p) ==
    /\ S \in Seq(Frames) /\ Len(S) > 0 /\ S[1].dir = Root
    /\ \A k \in 1 .. Len(S) : FrameOK(D, m, p, S[k])
    /\ \A k \in 1 .. Len(S) - 1 : Waits(S[k], S[k + 1])
    /\ \A j, k \in 1 .. Len(S) : S[j].dir = S[k].dir => j = k

StackInv ==
    /\ pc \notin Scanning => stack = <<>>
    /\ pc \in Scanning => Path(stack, dirs, mode, PerGroup)
    /\ pc = "scan" => Top.block = 1
    /\ pc = "write_block" =>
        /\ Top.pos = Len(Content[Top.dir]) + 1 /\ Top.block \in 1 .. NumBlocks(Top.dir)
        /\ mode = "update" => ~Top.short
        /\ mode # "sanity" =>
            \A n \in Ix(Top.dir) :
                BlockOf[Top.dir][n] < Top.block => dirs[Top.dir][n].high = (mode = "mark")

\* The inductive invariant.
FixInv == DiskInv /\ PhaseInv /\ ProcInv /\ SbInv /\ MountInv /\ StackInv

-----------------------------------------------------------------------------
(* Numbers.                                                                *)

\* A leaf is tried with SMT, then with Zenon, then with SMT for longer.
USE SMT, Zenon, SMTT(30)

\* Multiplying by a natural number keeps the order.
LEMMA Mono ==
    ASSUME NEW a \in Int, NEW b \in Int, NEW k \in Nat, a <= b
    PROVE  a * k <= b * k
<1>1. (b - a) * k >= 0
  OBVIOUS
<1> QED BY <1>1

\* A multiple of k and a remainder are found again by dividing by k.
LEMMA DivMod ==
    ASSUME NEW k \in Nat \ {0}, NEW m \in Nat, NEW r \in 0 .. k - 1
    PROVE  (m * k + r) \div k = m /\ (m * k + r) % k = r
<1> DEFINE a == m * k + r
           q == a \div k
<1>1. a \in Int /\ q \in Int /\ k * q <= a /\ a < k * (q + 1) /\ a % k = a - k * q
  OBVIOUS
<1>2. ~(q > m)
  <2> SUFFICES ASSUME q >= m + 1 PROVE FALSE
    BY <1>1
  <2>1. (m + 1) * k <= q * k
    BY <1>1, Mono
  <2> QED BY <2>1, <1>1
<1>3. ~(q < m)
  <2> SUFFICES ASSUME q + 1 <= m PROVE FALSE
    BY <1>1
  <2>1. (q + 1) * k <= m * k
    BY <1>1, Mono
  <2> QED BY <2>1, <1>1
<1>4. q = m
  BY <1>1, <1>2, <1>3
<1> QED BY <1>1, <1>4

\* A place has an offset within its group of p inodes.
Places(p) == Nat \X (0 .. p - 1)

\* The number of a place leads back to the place.
LEMMA PlaceOfNumber ==
    ASSUME NEW p \in Nat \ {0}, NEW x \in Places(p)
    PROVE  InodePlace(InodeNumber(x, p), p) = x
<1>1. x[1] \in Nat /\ x[2] \in 0 .. p - 1 /\ x = <<x[1], x[2]>>
  BY DEF Places
<1>2. InodeNumber(x, p) - 1 = x[1] * p + x[2]
  BY <1>1 DEF InodeNumber
<1> QED BY <1>1, <1>2, DivMod DEF InodePlace

\* The place of a number has that number.
LEMMA NumberOfPlace ==
    ASSUME NEW p \in Nat \ {0}, NEW n \in Nat \ {0}
    PROVE  InodePlace(n, p) \in Places(p) /\ InodeNumber(InodePlace(n, p), p) = n
<1> DEFINE q == (n - 1) \div p
           r == (n - 1) % p
<1>1. q \in Int /\ r \in 0 .. p - 1 /\ n - 1 = p * q + r /\ p * q <= n - 1 /\ n - 1 < p * (q + 1)
  OBVIOUS
<1>2. q >= 0
  <2> SUFFICES ASSUME q + 1 <= 0 PROVE FALSE
    BY <1>1
  <2>1. (q + 1) * p <= 0 * p
    BY <1>1, Mono
  <2> QED BY <2>1, <1>1
<1>3. InodePlace(n, p) = <<q, r>>
  BY DEF InodePlace
<1> HIDE DEF q, r
<1>4. InodePlace(n, p) \in Places(p)
  BY <1>1, <1>2, <1>3 DEF Places
<1>5. q * p = p * q
  BY <1>1
<1> QED BY <1>1, <1>3, <1>4, <1>5 DEF InodeNumber

\* Align rounds up to a multiple, and leaves a multiple alone.
LEMMA Aligned ==
    ASSUME ImageOK
    PROVE  /\ NewPerGroup \in Nat \ {0} /\ NewPerGroup >= OldInodesPerGroup
           /\ NewPerGroup % InodesPerBlock = 0 /\ Align(NewPerGroup) = NewPerGroup
<1> DEFINE k == InodesPerBlock
           a == OldInodesPerGroup + k - 1
           q == a \div k
<1>1. k \in Nat \ {0} /\ OldInodesPerGroup \in Nat \ {0} /\ a \in Nat
  BY DEF ImageOK
<1>2. q \in Int /\ k * q <= a /\ a < k * (q + 1)
  BY <1>1
<1>3. q \in Nat
  <2> SUFFICES ASSUME q + 1 <= 0 PROVE FALSE
    BY <1>2
  <2>1. (q + 1) * k <= 0 * k
    BY <1>1, <1>2, Mono
  <2> QED BY <2>1, <1>1, <1>2
<1>4. NewPerGroup = q * k
  BY DEF NewPerGroup, Align
<1>5. NewPerGroup \in Nat /\ NewPerGroup >= OldInodesPerGroup
  <2> HIDE DEF q, k
  <2>1. q * k \in Nat /\ k * (q + 1) = q * k + k
    BY <1>1, <1>3
  <2>2. a = OldInodesPerGroup + k - 1
    BY DEF k
  <2> HIDE DEF a
  <2> QED BY <1>1, <1>2, <1>4, <2>1, <2>2
<1>6. (q * k + 0) % k = 0 /\ (q * k + (k - 1)) \div k = q
  <2> HIDE DEF q, k
  <2>1. 0 \in 0 .. k - 1 /\ k - 1 \in 0 .. k - 1
    BY <1>1
  <2> QED BY <1>1, <1>3, <2>1, DivMod
<1>7. NewPerGroup % k = 0 /\ Align(NewPerGroup) = NewPerGroup
  <2>1. Align(NewPerGroup) = ((NewPerGroup + k - 1) \div k) * k
    BY DEF Align
  <2> HIDE DEF q, k
  <2>2. NewPerGroup + k - 1 = q * k + (k - 1) /\ q * k + 0 = q * k
    BY <1>1, <1>3, <1>4
  <2> QED BY <2>1, <2>2, <1>4, <1>6
<1> QED BY <1>1, <1>5, <1>7

\* The groups are counted right.
LEMMA GroupsCounted ==
    ASSUME ImageOK
    PROVE  NumGroups \in Nat \ {0} /\ Groups = 0 .. NumGroups - 1
           /\ OldInodesCount = OldInodesPerGroup * NumGroups
<1>1. PICK last \in Nat : Groups = 0 .. last
  BY DEF ImageOK
<1>2. (CHOOSE g \in Groups : \A h \in Groups : h <= g) = last
  <2>1. last \in Groups /\ \A h \in Groups : h <= last
    BY <1>1
  <2>2. \A g \in Groups : (\A h \in Groups : h <= g) => g = last
    BY <1>1
  <2> QED BY <2>1, <2>2
<1>3. OldInodesCount = OldInodesPerGroup * (1 + last)
  BY <1>2 DEF OldInodesCount
<1>4. OldInodesPerGroup \in Nat \ {0} /\ 0 \in 0 .. OldInodesPerGroup - 1
  BY DEF ImageOK
<1>5. ((1 + last) * OldInodesPerGroup + 0) \div OldInodesPerGroup = 1 + last
  BY <1>4, DivMod
<1>6. NumGroups = 1 + last
  BY <1>3, <1>4, <1>5 DEF NumGroups
<1> QED BY <1>1, <1>3, <1>6

\* The old and the new number of inodes per group are both aligned to the new
\* one, so a restart aims at the same number (ext4fixup.c 747).
LEMMA PerGroupsAlign ==
    ASSUME ImageOK, NEW p \in PerGroups
    PROVE  p \in Nat \ {0} /\ Align(p) = NewPerGroup
BY Aligned DEF PerGroups, NewPerGroup, ImageOK

\* What an entry names is found with either number, by the number that goes
\* with it.
LEMMA TargetFound ==
    ASSUME ImageOK, NEW d \in Dirs, NEW n \in Ix(d), NEW p \in PerGroups
    PROVE  Num(d, n, p) \in Int /\ InodePlace(Num(d, n, p), p) = Target(d, n)
<1>1. Content[d] \in Seq(Entries) /\ Content[d][n].inode \in Nat \ {0}
  <2>1. Content[d] \in Seq(Entries) /\ Content[d][n].inode > 0
    BY DEF ImageOK
  <2>2. Content[d][n] \in Entries
    BY <2>1 DEF Ix
  <2> QED BY <2>1, <2>2 DEF Entries
<1>2. OldInodesPerGroup \in Nat \ {0} /\ p \in Nat \ {0} /\ OldInodesPerGroup <= p
  BY Aligned DEF ImageOK, PerGroups
<1>3. Target(d, n) \in Places(OldInodesPerGroup)
  BY <1>1, <1>2, NumberOfPlace DEF Target
<1>4. Target(d, n) \in Places(p)
  BY <1>2, <1>3 DEF Places
<1>5. Num(d, n, p) \in Int
  BY <1>2, <1>4 DEF Num, InodeNumber, Places
<1> QED BY <1>2, <1>4, <1>5, PlaceOfNumber DEF Num

\* On the image to be fixed every entry has its number.
LEMMA OldNumber ==
    ASSUME ImageOK, NEW d \in Dirs, NEW n \in Ix(d)
    PROVE  Content[d][n].inode = Num(d, n, OldInodesPerGroup)
<1>1. Content[d] \in Seq(Entries) /\ Content[d][n].inode > 0
  BY DEF ImageOK
<1>2. Content[d][n] \in Entries
  BY <1>1 DEF Ix
<1>3. Content[d][n].inode \in Nat \ {0}
  BY <1>1, <1>2 DEF Entries
<1>4. OldInodesPerGroup \in Nat \ {0}
  BY DEF ImageOK
<1> QED BY <1>3, <1>4, NumberOfPlace DEF Target, Num
-----------------------------------------------------------------------------
(* The activations.                                                        *)

\* The buffer of the last activation may be changed.
LEMMA PathReplaced ==
    ASSUME NEW D, NEW m, NEW p, NEW S, Path(S, D, m, p),
           NEW f, FrameOK(D, m, p, f), f.dir = S[Len(S)].dir
    PROVE  /\ Path([S EXCEPT ![Len(S)] = f], D, m, p)
           /\ Len([S EXCEPT ![Len(S)] = f]) = Len(S)
           /\ [S EXCEPT ![Len(S)] = f][Len(S)] = f
<1> DEFINE T == [S EXCEPT ![Len(S)] = f]
<1>1. S \in Seq(Frames) /\ Len(S) \in Nat \ {0} /\ f \in Frames
  BY DEF Path, FrameOK
<1>2. T \in Seq(Frames) /\ Len(T) = Len(S) /\ T[Len(S)] = f
      /\ \A k \in 1 .. Len(S) : k # Len(S) => T[k] = S[k]
  BY <1>1
<1> HIDE DEF T
<1>3. \A k \in 1 .. Len(S) : T[k].dir = S[k].dir
  BY <1>1, <1>2
<1>4. T[1].dir = Root
  BY <1>1, <1>3 DEF Path
<1>5. \A k \in 1 .. Len(T) : FrameOK(D, m, p, T[k])
  BY <1>1, <1>2 DEF Path
<1>6. \A k \in 1 .. Len(T) - 1 : Waits(T[k], T[k + 1])
  <2> TAKE k \in 1 .. Len(T) - 1
  <2>1. k \in 1 .. Len(S) /\ k # Len(S) /\ k + 1 \in 1 .. Len(S) /\ Waits(S[k], S[k + 1])
    BY <1>1, <1>2 DEF Path
  <2>2. T[k] = S[k] /\ T[k + 1].dir = S[k + 1].dir
    BY <1>2, <1>3, <2>1
  <2> QED BY <2>1, <2>2 DEF Waits
<1>7. \A j, k \in 1 .. Len(T) : T[j].dir = T[k].dir => j = k
  BY <1>2, <1>3 DEF Path
<1>8. Path(T, D, m, p)
  BY <1>1, <1>2, <1>4, <1>5, <1>6, <1>7 DEF Path
<1> QED BY <1>2, <1>8 DEF T

\* A call adds an activation for a directory that has none.
LEMMA PathPushed ==
    ASSUME ImageOK, NEW D, NEW m, NEW p, NEW S, Path(S, D, m, p),
           NEW f, FrameOK(D, m, p, f), Waits(S[Len(S)], f)
    PROVE  Path(Append(S, f), D, m, p) /\ Append(S, f)[Len(Append(S, f))] = f
<1> DEFINE T == Append(S, f)
           t == S[Len(S)]
<1>1. S \in Seq(Frames) /\ Len(S) \in Nat \ {0} /\ f \in Frames
  BY DEF Path, FrameOK
<1>2. T \in Seq(Frames) /\ Len(T) = Len(S) + 1 /\ T[Len(S) + 1] = f
      /\ \A k \in 1 .. Len(S) : T[k] = S[k]
  BY <1>1
<1>3. \A k \in 1 .. Len(S) : S[k] \in Frames /\ S[k].dir \in Dirs
  <2>1. \A k \in 1 .. Len(S) : S[k] \in Frames
    BY <1>1
  <2>2. \A f1 \in Frames : f1.dir \in Dirs
    BY DEF Frames
  <2> QED BY <2>1, <2>2
<1> HIDE DEF T
<1>4. T[1].dir = Root
  BY <1>1, <1>2 DEF Path
<1>5. \A k \in 1 .. Len(T) : FrameOK(D, m, p, T[k])
  <2> TAKE k \in 1 .. Len(T)
  <2>1. k \in 1 .. Len(S) \/ k = Len(S) + 1
    BY <1>1, <1>2
  <2> QED BY <1>2, <2>1 DEF Path
<1>6. \A k \in 1 .. Len(T) - 1 : Waits(T[k], T[k + 1])
  <2> TAKE k \in 1 .. Len(T) - 1
  <2>1. CASE k = Len(S)
    BY <1>1, <1>2, <2>1
  <2>2. CASE k # Len(S)
    <3>1. k \in 1 .. Len(S) - 1 /\ k \in 1 .. Len(S) /\ k + 1 \in 1 .. Len(S)
      BY <1>1, <1>2, <2>2
    <3> QED BY <1>2, <3>1 DEF Path
  <2> QED BY <2>1, <2>2
<1>7. ASSUME NEW j \in 1 .. Len(S) PROVE S[j].dir # f.dir
  <2>1. t.pos \in Ix(t.dir) /\ Child(t.dir, t.pos) /\ f.dir = Target(t.dir, t.pos) /\ t.dir \in Dirs
    BY <1>1, <1>3 DEF Waits
  <2>2. CASE j = 1
    <3>1. f.dir # Root
      BY <2>1 DEF ImageOK
    <3> QED BY <2>2, <3>1 DEF Path
  <2>3. CASE j # 1
    <3> DEFINE b == S[j - 1]
    <3>1. j - 1 \in 1 .. Len(S) - 1 /\ j - 1 \in 1 .. Len(S) /\ (j - 1) + 1 = j /\ j - 1 # Len(S)
          /\ Len(S) \in 1 .. Len(S)
      BY <1>1, <1>7, <2>3
    <3>2. Waits(b, S[j])
      BY <3>1 DEF Path
    <3>3. b.pos \in Ix(b.dir) /\ Child(b.dir, b.pos) /\ S[j].dir = Target(b.dir, b.pos) /\ b.dir \in Dirs
      BY <1>3, <3>1, <3>2 DEF Waits
    <3>4. b.dir # t.dir
      BY <3>1 DEF Path
    <3> HIDE DEF b, t
    <3> QED BY <2>1, <3>3, <3>4 DEF ImageOK
  <2> QED BY <2>2, <2>3
<1>8. \A j, k \in 1 .. Len(T) : T[j].dir = T[k].dir => j = k
  <2> TAKE j, k \in 1 .. Len(T)
  <2>1. (j \in 1 .. Len(S) \/ j = Len(S) + 1) /\ (k \in 1 .. Len(S) \/ k = Len(S) + 1)
    BY <1>1, <1>2
  <2> QED BY <1>2, <1>7, <2>1 DEF Path
<1>9. Path(T, D, m, p)
  BY <1>1, <1>2, <1>4, <1>5, <1>6, <1>8 DEF Path
<1> QED BY <1>2, <1>9 DEF T

\* What is left of the activations when the last one returns.
Popped(S) ==
    [n \in 1 .. Len(S) - 1 |-> IF n = Len(S) - 1 THEN [S[n] EXCEPT !.recursed = TRUE] ELSE S[n]]

\* A return leaves the caller with a child that is written.
LEMMA PathPopped ==
    ASSUME NEW D, NEW m, NEW p, NEW S, Path(S, D, m, p), Len(S) > 1,
           m # "sanity" => All(D, S[Len(S)].dir, m = "mark")
    PROVE  /\ Path(Popped(S), D, m, p)
           /\ Popped(S)[Len(Popped(S))].block = 1
<1> DEFINE T == Popped(S)
           c == Len(S) - 1
           g == [S[c] EXCEPT !.recursed = TRUE]
<1>1. S \in Seq(Frames) /\ Len(S) \in Nat /\ c \in Nat \ {0} /\ c \in 1 .. Len(S) /\ c + 1 = Len(S)
  BY DEF Path
<1>2. S[c] \in Frames /\ FrameOK(D, m, p, S[c]) /\ Waits(S[c], S[Len(S)])
  <2>1. S[c] \in Frames /\ FrameOK(D, m, p, S[c])
    BY <1>1 DEF Path
  <2>2. Waits(S[c], S[c + 1])
    BY <1>1 DEF Path
  <2> QED BY <1>1, <2>1, <2>2
<1>3. g \in Frames /\ g.dir = S[c].dir /\ g.buf = S[c].buf /\ g.pos = S[c].pos /\ g.block = S[c].block
  BY <1>2 DEF Frames
<1>4. FrameOK(D, m, p, g)
  <2> HIDE DEF g, c
  <2>1. m # "sanity" /\ Child(g.dir, g.pos) => All(D, Target(g.dir, g.pos), m = "mark")
    BY <1>2, <1>3 DEF Waits
  <2> QED BY <1>2, <1>3, <2>1 DEF FrameOK
<1>5. T \in Seq(Frames) /\ Len(T) = c /\ T[c] = g /\ \A k \in 1 .. c : k # c => T[k] = S[k]
  <2>1. \A k \in 1 .. c : (IF k = c THEN g ELSE S[k]) \in Frames
    <3> TAKE k \in 1 .. c
    <3>1. S[k] \in Frames
      BY <1>1
    <3> QED BY <1>3, <3>1
  <2>2. T = [k \in 1 .. c |-> IF k = c THEN g ELSE S[k]]
    BY DEF Popped
  <2> HIDE DEF g, c, T
  <2> QED BY <1>1, <2>1, <2>2
<1> HIDE DEF T, g, c
<1>6. \A k \in 1 .. c : T[k].dir = S[k].dir /\ k \in 1 .. Len(S)
  BY <1>1, <1>3, <1>5
<1>7. T[1].dir = Root
  BY <1>1, <1>6 DEF Path
<1>8. \A k \in 1 .. Len(T) : FrameOK(D, m, p, T[k])
  BY <1>1, <1>4, <1>5, <1>6 DEF Path
<1>9. \A k \in 1 .. Len(T) - 1 : Waits(T[k], T[k + 1])
  <2> TAKE k \in 1 .. Len(T) - 1
  <2>1. k \in 1 .. Len(S) - 1 /\ k \in 1 .. c /\ k # c /\ k + 1 \in 1 .. c
    BY <1>1, <1>5
  <2>2. Waits(S[k], S[k + 1]) /\ T[k] = S[k] /\ T[k + 1].dir = S[k + 1].dir
    BY <1>5, <1>6, <2>1 DEF Path
  <2> QED BY <2>2 DEF Waits
<1>10. \A j, k \in 1 .. Len(T) : T[j].dir = T[k].dir => j = k
  BY <1>5, <1>6 DEF Path
<1>11. Path(T, D, m, p)
  BY <1>1, <1>5, <1>7, <1>8, <1>9, <1>10 DEF Path
<1> QED BY <1>2, <1>3, <1>5, <1>11 DEF T, Waits

\* Writing the directory of the last activation, once it is through with the
\* entries, disturbs no activation.
LEMMA PathWritten ==
    ASSUME ImageOK, NEW D, NEW E, NEW m, NEW p, NEW S, Path(S, D, m, p),
           S[Len(S)].pos = Len(Content[S[Len(S)].dir]) + 1,
           \A d \in Dirs : d # S[Len(S)].dir => E[d] = D[d],
           \A d \in Dirs : m # "sanity" /\ All(D, d, m = "mark") => All(E, d, m = "mark")
    PROVE  Path(S, E, m, p)
<1>1. S \in Seq(Frames) /\ Len(S) \in 1 .. Len(S)
  BY DEF Path
<1>2. \A k \in 1 .. Len(S) : FrameOK(E, m, p, S[k])
  <2> SUFFICES ASSUME NEW k \in 1 .. Len(S) PROVE FrameOK(E, m, p, S[k])
    OBVIOUS
  <2> DEFINE f == S[k]
  <2>1. FrameOK(D, m, p, f) /\ f.dir \in Dirs
    BY DEF Path, FrameOK, Frames
  <2>2. ASSUME NEW n \in Ix(f.dir), n >= f.pos PROVE E[f.dir][n] = D[f.dir][n]
    <3>1. CASE k = Len(S)
      <4>1. n <= Len(Content[f.dir]) /\ n \in Int /\ f.pos = Len(Content[f.dir]) + 1
        BY <3>1 DEF Ix
      <4>2. Len(Content[f.dir]) + 1 \in Nat
        BY <2>1, <4>1 DEF FrameOK, Frames
      <4>3. Len(Content[f.dir]) \in Nat
        BY <2>1 DEF FrameOK, Frames
      <4> QED BY <2>2, <4>1, <4>3
    <3>2. CASE k # Len(S)
      <4>1. f.dir # S[Len(S)].dir
        BY <1>1, <3>2 DEF Path
      <4> QED BY <2>1, <4>1
    <3> QED BY <3>1, <3>2
  <2> HIDE DEF f
  <2>3. \A n \in Ix(f.dir) : Child(f.dir, n) => Target(f.dir, n) \in Dirs
    BY <2>1 DEF ImageOK
  <2>4. FrameOK(E, m, p, f)
    BY <2>1, <2>2, <2>3 DEF FrameOK
  <2> QED BY <2>4 DEF f
<1> QED BY <1>2 DEF Path

-----------------------------------------------------------------------------
(* The start.                                                              *)

\* The image has the entries of the image, and no directory is empty.
LEMMA EntriesOfImage ==
    ASSUME ImageOK
    PROVE  DirsOK(Content) /\ \A d \in Dirs : Len(Content[d]) \in Nat \ {0}
<1>1. ASSUME NEW d \in Dirs, NEW n \in Ix(d) PROVE Content[d][n] \in Entries
  <2>1. Content[d] \in Seq(Entries)
    BY DEF ImageOK
  <2> QED BY <2>1 DEF Ix
<1>2. \A d \in Dirs : Len(Content[d]) \in Nat \ {0}
  <2> TAKE d \in Dirs
  <2>1. Content[d] \in Seq(Entries) /\ Len(Content[d]) > 0
    BY DEF ImageOK
  <2> QED BY <2>1
<1>3. DirsOK(Content)
  BY <1>1 DEF DirsOK, Same, ImageOK
<1> QED BY <1>2, <1>3

\* The image before the first run.
LEMMA FixStarts ==
    ASSUME ImageOK, Init
    PROVE  FixInv
<1>1. 0 \in SuperGroups /\ dirs = Content /\ OldInodesPerGroup \in Nat \ {0}
  BY DEF ImageOK, Init
<1>2. sbs[0] = [per_group |-> OldInodesPerGroup, count |-> OldInodesCount,
                free |-> TotalFree(FreeInodes), unmountable |-> FALSE]
      /\ sbs = [g \in SuperGroups |-> sbs[g]]
  BY <1>1 DEF Init
<1>3. PerGroup = OldInodesPerGroup /\ IsSb(sbs[0]) /\ sbs[0].count = PerGroup * NumGroups
  BY <1>2, GroupsCounted DEF PerGroup, IsSb
<1>4. DiskInv
  BY <1>1, <1>2, <1>3, EntriesOfImage DEF DiskInv, Init, ImageOK, States, PerGroups
<1>5. PhaseInv
  <2>1. Clean(Content, OldInodesPerGroup)
    BY OldNumber DEF Clean, ImageOK
  <2> QED BY <1>1, <1>3, <2>1 DEF PhaseInv, Init
<1>6. ProcInv
  BY DEF ProcInv, Init, Labels, States, InStep, Scanning
<1>7. SbInv /\ MountInv /\ StackInv
  BY DEF SbInv, MountInv, StackInv, Init, Updating, Scanning
<1> QED BY <1>4, <1>5, <1>6, <1>7 DEF FixInv

-----------------------------------------------------------------------------
(* recurse_dir.                                                            *)

\* The entry that the last activation has come to names its inode in the
\* numbering of the super block, unless the update pass has been here before; so
\* is_entry_dir and recurse_dir find what it named on the original image, and
\* the entry is made what the pass has to make of it.
LEMMA AtEntry ==
    ASSUME ImageOK, FixInv, pc = "scan", ~AtEnd(Top), NEW e, e = Top.buf[Top.pos]
    PROVE  /\ Top.dir \in Dirs /\ Top.pos \in Ix(Top.dir)
           /\ MustRecurse(e) <=> Child(Top.dir, Top.pos) /\ (mode = "update" => e.high)
           /\ MustRecurse(e) => InodeOf(e.inode) = Target(Top.dir, Top.pos)
           /\ e = dirs[Top.dir][Top.pos]
           /\ Same(Processed(e), Top.dir, Top.pos)
           /\ Made(mode, PerGroup, Processed(e), Top.dir, Top.pos)
<1> DEFINE f == Top
           d == f.dir
           n == f.pos
<1>1. stack \in Seq(Frames) /\ Len(stack) \in 1 .. Len(stack) /\ FrameOK(dirs, mode, PerGroup, f)
  BY DEF FixInv, StackInv, Scanning, Path, Top
<1>2. d \in Dirs /\ n \in Ix(d)
  BY <1>1 DEF FrameOK, Frames, AtEnd, Ix
<1>3. e = dirs[d][n] /\ Same(e, d, n)
  BY <1>1, <1>2 DEF FrameOK, Ix
<1>4. info = PerGroup /\ info \in PerGroups /\ <<magic, mode>> \in ModeOf
  BY DEF FixInv, ProcInv, DiskInv, InStep, Scanning
<1> HIDE DEF d, n
<1>5. mode = "update" => magic = "updating_inums"
  BY <1>4 DEF ModeOf
<1>6. (mode = "update" => e.high) => e.inode = Num(d, n, info)
  <2>1. CASE mode = "sanity"
    BY <1>2, <1>3, <1>4, <2>1 DEF FixInv, PhaseInv, ModeOf, Clean
  <2>2. CASE mode = "mark"
    BY <1>2, <1>3, <1>4, <2>2 DEF FixInv, PhaseInv, ModeOf
  <2>3. CASE mode = "update"
    BY <1>2, <1>3, <1>4, <2>3 DEF FixInv, PhaseInv, ModeOf
  <2> QED BY <1>4, <2>1, <2>2, <2>3 DEF ModeOf
<1>7. mode = "update" /\ ~e.high => e.inode = Num(d, n, NewPerGroup)
  BY <1>2, <1>3, <1>5 DEF FixInv, PhaseInv
<1>8. (mode = "update" => e.high) => InodeOf(e.inode) = Target(d, n)
  BY <1>2, <1>4, <1>6, TargetFound DEF InodeOf
<1>9. MustRecurse(e) <=> Child(d, n) /\ (mode = "update" => e.high)
  BY <1>3, <1>8 DEF MustRecurse, IsEntryDir, Child, Same
<1>10. MustRecurse(e) => InodeOf(e.inode) = Target(d, n)
  BY <1>8, <1>9
<1>11. new_inodes_per_group = NewPerGroup
  BY <1>4, PerGroupsAlign DEF new_inodes_per_group
<1>12. Same(Processed(e), d, n) /\ Made(mode, PerGroup, Processed(e), d, n)
  <2>1. e \in Entries
    BY <1>3 DEF Same
  <2>2. CASE mode = "sanity"
    BY <1>3, <2>2 DEF Processed, Made
  <2>3. CASE mode = "mark"
    <3>1. Processed(e) = [e EXCEPT !.high = TRUE]
      BY <2>3 DEF Processed
    <3>2. [e EXCEPT !.high = TRUE] \in Entries /\ [e EXCEPT !.high = TRUE].inode = e.inode
          /\ [e EXCEPT !.high = TRUE].high = TRUE /\ [e EXCEPT !.high = TRUE].name = e.name
          /\ [e EXCEPT !.high = TRUE].type = e.type
      BY <2>1 DEF Entries
    <3> QED BY <1>3, <1>4, <1>6, <2>3, <3>1, <3>2 DEF Same, Made
  <2>4. CASE mode = "update" /\ ~e.high
    <3>1. Processed(e) = e
      BY <2>4 DEF Processed
    <3> QED BY <1>3, <1>7, <2>4, <3>1 DEF Made
  <2>5. CASE mode = "update" /\ e.high
    <3> DEFINE u == [e EXCEPT !.inode = compute_new_inum(@), !.high = FALSE]
    <3>1. Processed(e) = u
      BY <2>5 DEF Processed
    <3>2. compute_new_inum(e.inode) = Num(d, n, NewPerGroup)
      <4>1. InodePlace(e.inode, info) = Target(d, n)
        BY <1>8, <2>5 DEF InodeOf
      <4> QED BY <1>11, <4>1 DEF compute_new_inum, Num
    <3>3. Num(d, n, NewPerGroup) \in Int
      BY <1>2, TargetFound DEF PerGroups
    <3>4. u \in Entries /\ u.inode = Num(d, n, NewPerGroup) /\ u.high = FALSE /\ u.name = e.name
          /\ u.type = e.type
      BY <2>1, <3>2, <3>3 DEF Entries
    <3> QED BY <1>3, <2>5, <3>1, <3>4 DEF Same, Made
  <2> QED BY <1>4, <2>2, <2>3, <2>4, <2>5 DEF ModeOf
<1> QED BY <1>2, <1>3, <1>9, <1>10, <1>12 DEF d, n

\* A step that only changes the activations keeps everything else.
LEMMA OthersKept ==
    ASSUME FixInv, UNCHANGED <<diskVars, pc, state, mode, info, sb, i, torn>>
    PROVE  PerGroup' = PerGroup /\ (DiskInv /\ PhaseInv /\ ProcInv /\ SbInv /\ MountInv)'
<1> USE DEF diskVars
<1>1. PerGroup' = PerGroup
  BY DEF PerGroup
<1>2. DiskInv'
  BY <1>1 DEF FixInv, DiskInv
<1>3. PhaseInv'
  BY <1>1 DEF FixInv, PhaseInv
<1>4. ProcInv'
  BY <1>1 DEF FixInv, ProcInv, InStep
<1>5. SbInv'
  BY <1>1 DEF FixInv, SbInv
<1>6. MountInv'
  BY DEF FixInv, MountInv
<1> QED BY <1>1, <1>2, <1>3, <1>4, <1>5, <1>6

\* A new activation has the directory as it is on disk.
LEMMA FrameStarts ==
    ASSUME ImageOK, DiskInv, NEW d \in Dirs, NEW m, NEW p
    PROVE  FrameOK(dirs, m, p, Frame(d)) /\ Frame(d).dir = d /\ Frame(d).block = 1
<1> DEFINE f == Frame(d)
<1>1. f.dir = d /\ f.buf = dirs[d] /\ f.pos = 1 /\ f.recursed = FALSE /\ f.block = 1
  BY DEF Frame
<1>2. Len(Content[d]) \in Nat /\ Len(dirs[d]) = Len(Content[d]) /\ dirs[d] \in Seq(Entries)
      /\ \A n \in Ix(d) : Same(dirs[d][n], d, n)
  BY EntriesOfImage DEF DiskInv, DirsOK
<1>3. f \in Frames
  BY <1>2 DEF Frame, Frames
<1> HIDE DEF f
<1>4. FrameOK(dirs, m, p, f)
  BY <1>1, <1>2, <1>3 DEF FrameOK, Ix
<1> QED BY <1>1, <1>4 DEF f

\* recurse_dir calls itself: the directory is the one that the entry named on the
\* original image, and no activation is at work on it.
LEMMA RecurseKeeps == ASSUME ImageOK, FixInv, Recurse PROVE FixInv'
<1> DEFINE e == Top.buf[Top.pos]
           c == Target(Top.dir, Top.pos)
<1>1. pc = "scan" /\ ~AtEnd(Top) /\ ~Top.recursed /\ MustRecurse(e)
  BY DEF Recurse
<1>2. Top.dir \in Dirs /\ Top.pos \in Ix(Top.dir) /\ Child(Top.dir, Top.pos)
      /\ InodeOf(e.inode) = c
  BY <1>1, AtEntry
<1>3. c \in Dirs
  BY <1>2 DEF ImageOK
<1>4. stack' = Append(stack, Frame(c)) /\ pc' = pc
  BY <1>2, <1>3 DEF Recurse
<1>5. UNCHANGED <<diskVars, pc, state, mode, info, sb, i, torn>>
  BY <1>4 DEF Recurse, runVars
<1>6. DiskInv /\ Path(stack, dirs, mode, PerGroup) /\ Top.block = 1
  BY <1>1 DEF FixInv, StackInv, Scanning
<1>7. FrameOK(dirs, mode, PerGroup, Frame(c)) /\ Waits(stack[Len(stack)], Frame(c))
      /\ Frame(c).block = 1
  BY <1>1, <1>2, <1>3, <1>6, FrameStarts DEF Waits, Top
<1> HIDE DEF e, c
<1>8. Path(stack', dirs, mode, PerGroup) /\ stack'[Len(stack')] = Frame(c)
  BY <1>4, <1>6, <1>7, PathPushed
<1>9. PerGroup' = PerGroup /\ dirs' = dirs /\ mode' = mode
  BY <1>5, OthersKept DEF diskVars
<1>10. StackInv'
  BY <1>1, <1>4, <1>7, <1>8, <1>9 DEF StackInv, Scanning, Top
<1> QED BY <1>5, <1>10, OthersKept DEF FixInv

\* An entry is passed: it is made what the pass has to make of it, and if it is a
\* directory that was not descended into, the directory is written already.
LEMMA ProcessEntryKeeps == ASSUME ImageOK, FixInv, ProcessEntry PROVE FixInv'
<1> DEFINE e == Top.buf[Top.pos]
           f == Top
           g == [Top EXCEPT !.buf[Top.pos] = Processed(e), !.pos = @ + 1, !.recursed = FALSE]
<1>1. pc = "scan" /\ ~AtEnd(f) /\ (f.recursed \/ ~MustRecurse(e))
  BY DEF ProcessEntry
<1>2. /\ f.dir \in Dirs /\ f.pos \in Ix(f.dir)
      /\ MustRecurse(e) <=> Child(f.dir, f.pos) /\ (mode = "update" => e.high)
      /\ e = dirs[f.dir][f.pos]
      /\ Same(Processed(e), f.dir, f.pos)
      /\ Made(mode, PerGroup, Processed(e), f.dir, f.pos)
  BY <1>1, AtEntry
<1>3. stack' = [stack EXCEPT ![Len(stack)] = g] /\ pc' = pc
  BY DEF ProcessEntry, SetTop
<1>4. UNCHANGED <<diskVars, pc, state, mode, info, sb, i, torn>>
  BY <1>3 DEF ProcessEntry, runVars
<1>5. Path(stack, dirs, mode, PerGroup) /\ f.block = 1 /\ <<magic, mode>> \in ModeOf
  BY <1>1 DEF FixInv, StackInv, Scanning, ProcInv
<1>6. FrameOK(dirs, mode, PerGroup, f)
  <2>1. Len(stack) \in 1 .. Len(stack)
    BY <1>5 DEF Path
  <2> QED BY <1>5, <2>1 DEF Path, Top
<1>7. f \in Frames /\ f.buf \in Seq(Entries) /\ f.pos \in 1 .. Len(f.buf) /\ Len(f.buf) = Len(Content[f.dir])
      /\ Processed(e) \in Entries
  BY <1>2, <1>6 DEF FrameOK, Frames, Ix, Same
<1>8. g = [dir |-> f.dir, buf |-> [f.buf EXCEPT ![f.pos] = Processed(e)], short |-> f.short,
           pos |-> f.pos + 1, recursed |-> FALSE, block |-> f.block]
  <2> HIDE DEF e, f
  <2>1. f = [dir |-> f.dir, buf |-> f.buf, short |-> f.short, pos |-> f.pos, recursed |-> f.recursed,
             block |-> f.block]
    BY <1>7 DEF Frames
  <2>2. g = [f EXCEPT !.buf[f.pos] = Processed(e), !.pos = @ + 1, !.recursed = FALSE]
    BY DEF f
  <2> HIDE DEF g
  <2> QED BY <2>1, <2>2
<1>9. g.dir = f.dir /\ g.pos = f.pos + 1 /\ g.recursed = FALSE /\ g.block = 1
      /\ g.buf = [f.buf EXCEPT ![f.pos] = Processed(e)]
  BY <1>5, <1>8
<1> HIDE DEF e, f, g
<1>10. g.buf \in Seq(Entries) /\ Len(g.buf) = Len(f.buf) /\ g.buf[f.pos] = Processed(e)
       /\ \A n \in 1 .. Len(f.buf) : n # f.pos => g.buf[n] = f.buf[n]
  BY <1>7, <1>9
<1>11. g \in Frames
  BY <1>7, <1>8, <1>10 DEF Frames
<1>12. mode # "sanity" /\ Child(f.dir, f.pos) => All(dirs, Target(f.dir, f.pos), mode = "mark")
  <2>1. CASE f.recursed
    BY <1>2, <1>6, <2>1 DEF FrameOK
  <2>2. CASE ~f.recursed /\ Child(f.dir, f.pos)
    <3>1. mode = "update" /\ ~e.high
      BY <1>1, <1>2, <2>2
    <3>2. magic = "updating_inums"
      BY <1>5, <3>1 DEF ModeOf
    <3>3. dirs[f.dir][f.pos] \in Entries
      BY <1>2 DEF FixInv, DiskInv, DirsOK, Same
    <3>4. dirs[f.dir][f.pos].high = FALSE
      BY <1>2, <3>1, <3>3 DEF Entries
    <3>5. Closed(dirs, FALSE)
      BY <3>2 DEF FixInv, PhaseInv
    <3>6. (mode = "mark") = FALSE
      BY <3>1
    <3> QED BY <1>2, <2>2, <3>4, <3>5, <3>6 DEF Closed
  <2> QED BY <2>1, <2>2
<1>13. FrameOK(dirs, mode, PerGroup, g)
  <2>1. ASSUME NEW n \in Ix(g.dir)
        PROVE  /\ Same(g.buf[n], g.dir, n)
               /\ n >= g.pos => g.buf[n] = dirs[g.dir][n]
               /\ n < g.pos => Made(mode, PerGroup, g.buf[n], g.dir, n)
               /\ mode # "sanity" /\ (n < g.pos \/ (n = g.pos /\ g.recursed)) /\ Child(g.dir, n) =>
                    All(dirs, Target(g.dir, n), mode = "mark")
    <3>1. n \in 1 .. Len(f.buf) /\ n \in Ix(f.dir) /\ n \in Nat /\ f.pos \in Nat
      BY <1>7, <1>9, <2>1 DEF Ix
    <3>2. CASE n = f.pos
      <4>1. Same(g.buf[n], g.dir, n) /\ Made(mode, PerGroup, g.buf[n], g.dir, n)
        BY <1>2, <1>9, <1>10, <3>2
      <4>2. ~(n >= g.pos)
        BY <1>9, <3>1, <3>2
      <4>3. mode # "sanity" /\ Child(g.dir, n) => All(dirs, Target(g.dir, n), mode = "mark")
        BY <1>9, <1>12, <3>2
      <4> QED BY <4>1, <4>2, <4>3
    <3>3. CASE n # f.pos
      <4>1. g.buf[n] = f.buf[n]
        BY <1>10, <3>1, <3>3
      <4>2. (n >= g.pos => n >= f.pos) /\ (n < g.pos => n < f.pos)
        BY <1>9, <3>1, <3>3
      <4> QED BY <1>6, <1>9, <3>1, <4>1, <4>2 DEF FrameOK
    <3> QED BY <3>2, <3>3
  <2>2. Len(g.buf) = Len(Content[g.dir]) /\ g.pos \in 1 .. Len(Content[g.dir]) + 1
    BY <1>7, <1>9, <1>10
  <2> QED BY <1>11, <2>1, <2>2 DEF FrameOK
<1>14. Path(stack', dirs, mode, PerGroup) /\ stack'[Len(stack')] = g
  <2>1. g.dir = stack[Len(stack)].dir
    BY <1>9 DEF f, Top
  <2>2. Path([stack EXCEPT ![Len(stack)] = g], dirs, mode, PerGroup)
        /\ Len([stack EXCEPT ![Len(stack)] = g]) = Len(stack)
        /\ [stack EXCEPT ![Len(stack)] = g][Len(stack)] = g
    BY <1>5, <1>13, <2>1, PathReplaced
  <2> QED BY <1>3, <2>2
<1>15. PerGroup' = PerGroup /\ dirs' = dirs /\ mode' = mode
  BY <1>4, OthersKept DEF diskVars
<1>16. StackInv'
  BY <1>1, <1>3, <1>9, <1>14, <1>15 DEF StackInv, Scanning, Top
<1> QED BY <1>4, <1>16, OthersKept DEF FixInv

\* A step that writes nothing keeps what is said of the disk.
LEMMA DiskKept ==
    ASSUME FixInv, UNCHANGED diskVars
    PROVE  PerGroup' = PerGroup /\ DiskInv' /\ PhaseInv'
<1> USE DEF diskVars
<1>1. PerGroup' = PerGroup
  BY DEF PerGroup
<1>2. DiskInv'
  BY <1>1 DEF FixInv, DiskInv
<1>3. PhaseInv'
  BY <1>1 DEF FixInv, PhaseInv
<1> QED BY <1>1, <1>2, <1>3

\* The last activation of a pass.
LEMMA TopFacts ==
    ASSUME FixInv, pc \in Scanning
    PROVE  /\ Path(stack, dirs, mode, PerGroup) /\ FrameOK(dirs, mode, PerGroup, Top)
           /\ Top \in Frames /\ Top.dir \in Dirs /\ Top.dir = stack[Len(stack)].dir
           /\ info = PerGroup /\ PerGroup \in PerGroups /\ <<magic, mode>> \in ModeOf
<1>1. Path(stack, dirs, mode, PerGroup) /\ Len(stack) \in 1 .. Len(stack)
  <2>1. Path(stack, dirs, mode, PerGroup)
    BY DEF FixInv, StackInv
  <2> QED BY <2>1 DEF Path
<1>2. FrameOK(dirs, mode, PerGroup, Top)
  BY <1>1 DEF Path, Top
<1>3. Top \in Frames /\ Top.dir \in Dirs
  BY <1>2 DEF FrameOK, Frames
<1>4. info = PerGroup /\ PerGroup \in PerGroups /\ <<magic, mode>> \in ModeOf
  BY DEF FixInv, ProcInv, DiskInv, InStep, Scanning
<1> QED BY <1>1, <1>2, <1>3, <1>4 DEF Top

\* The blocks of a directory are numbered from 1.
LEMMA BlocksOfDir ==
    ASSUME ImageOK, NEW d \in Dirs
    PROVE  /\ NumBlocks(d) \in Nat \ {0} /\ Len(Content[d]) \in Ix(d) /\ 1 \in Ix(d)
           /\ BlockOf[d][Len(Content[d])] = NumBlocks(d)
           /\ \A n \in Ix(d) : BlockOf[d][n] \in 1 .. NumBlocks(d)
<1>1. Len(Content[d]) \in Ix(d) /\ 1 \in Ix(d)
  BY EntriesOfImage DEF Ix
<1>2. BlockOf[d] \in Seq(Nat) /\ Len(BlockOf[d]) = Len(Content[d])
      /\ \A n \in Ix(d) : BlockOf[d][n] \in 1 .. NumBlocks(d)
  BY DEF ImageOK
<1>3. BlockOf[d][Len(Content[d])] = NumBlocks(d)
  BY <1>2 DEF NumBlocks
<1>4. NumBlocks(d) \in Nat
  BY <1>1, <1>2, <1>3 DEF Ix
<1>5. NumBlocks(d) \in 1 .. NumBlocks(d)
  BY <1>1, <1>2, <1>3
<1> QED BY <1>1, <1>2, <1>3, <1>4, <1>5

\* The entries of a directory are through.
LEMMA EndScanKeeps == ASSUME ImageOK, FixInv, EndScan PROVE FixInv'
<1> DEFINE f == Top
           g == [Top EXCEPT !.short = @ /\ mode = "mark"]
<1>1. pc = "scan" /\ AtEnd(f) /\ pc' = "write_block" /\ stack' = [stack EXCEPT ![Len(stack)] = g]
      /\ UNCHANGED <<diskVars, state, mode, info, bg_desc, sb, i, runVars>>
  BY DEF EndScan, SetTop, Goto
<1>2. /\ Path(stack, dirs, mode, PerGroup) /\ FrameOK(dirs, mode, PerGroup, f)
      /\ f \in Frames /\ f.dir \in Dirs /\ f.dir = stack[Len(stack)].dir
      /\ info = PerGroup /\ PerGroup \in PerGroups /\ <<magic, mode>> \in ModeOf
  BY <1>1, TopFacts DEF Scanning
<1>3. f.block = 1
  BY <1>1 DEF FixInv, StackInv
<1>4. g \in Frames /\ g.dir = f.dir /\ g.buf = f.buf /\ g.pos = f.pos /\ g.recursed = f.recursed
      /\ g.block = f.block /\ g.short = (f.short /\ mode = "mark")
  BY <1>2 DEF Frames
<1> HIDE DEF f, g
<1>5. FrameOK(dirs, mode, PerGroup, g)
  BY <1>2, <1>4 DEF FrameOK
<1>6. Path(stack', dirs, mode, PerGroup) /\ stack'[Len(stack')] = g
  <2>1. g.dir = stack[Len(stack)].dir
    BY <1>2, <1>4
  <2>2. Path([stack EXCEPT ![Len(stack)] = g], dirs, mode, PerGroup)
        /\ Len([stack EXCEPT ![Len(stack)] = g]) = Len(stack)
        /\ [stack EXCEPT ![Len(stack)] = g][Len(stack)] = g
    BY <1>2, <1>5, <2>1, PathReplaced
  <2> QED BY <1>1, <2>2
<1>7. g.pos = Len(Content[g.dir]) + 1
  <2>1. f.pos \in 1 .. Len(Content[f.dir]) + 1 /\ Len(f.buf) = Len(Content[f.dir]) /\ f.pos > Len(f.buf)
    BY <1>1, <1>2 DEF FrameOK, AtEnd
  <2>2. Len(Content[f.dir]) \in Nat
    BY <1>2, EntriesOfImage
  <2> QED BY <1>4, <2>1, <2>2
<1>8. g.block \in 1 .. NumBlocks(g.dir) /\ \A n \in Ix(g.dir) : ~(BlockOf[g.dir][n] < g.block)
  BY <1>2, <1>3, <1>4, BlocksOfDir
<1>9. PerGroup' = PerGroup /\ DiskInv' /\ PhaseInv' /\ dirs' = dirs /\ mode' = mode /\ magic' = magic
  BY <1>1, DiskKept DEF diskVars
<1>10. StackInv'
  BY <1>1, <1>4, <1>6, <1>7, <1>8, <1>9 DEF StackInv, Scanning, Top
<1>11. ProcInv'
  BY <1>1, <1>2, <1>9 DEF FixInv, ProcInv, InStep, Scanning, Labels
<1>12. SbInv' /\ MountInv'
  BY <1>1 DEF FixInv, SbInv, MountInv, Updating, diskVars, runVars
<1> QED BY <1>9, <1>10, <1>11, <1>12 DEF FixInv

\* A block of the directory of the last activation is written: what the pass has
\* to do is done to more entries and undone to none.
LEMMA BlockWritten ==
    ASSUME ImageOK, FixInv, pc = "write_block", mode # "sanity",
           NEW E, E = [dirs EXCEPT ![Top.dir] = WithBlock(Top, Top.block)]
    PROVE  /\ DirsOK(E) /\ \A d \in Dirs : d # Top.dir => E[d] = dirs[d]
           /\ \A d \in Dirs : \A n \in Ix(d) :
                E[d][n] = dirs[d][n]
                \/ (d = Top.dir /\ BlockOf[d][n] = Top.block /\ Made(mode, PerGroup, E[d][n], d, n))
           /\ \A n \in Ix(Top.dir) : BlockOf[Top.dir][n] <= Top.block =>
                E[Top.dir][n].high = (mode = "mark")
           /\ \A d \in Dirs : All(dirs, d, mode = "mark") => All(E, d, mode = "mark")
           /\ Closed(dirs, mode = "mark") => Closed(E, mode = "mark")
<1> DEFINE f == Top
           d0 == f.dir
           b == f.block
           W == WithBlock(f, b)
           h == (mode = "mark")
<1>1. /\ FrameOK(dirs, mode, PerGroup, f) /\ f \in Frames /\ d0 \in Dirs /\ <<magic, mode>> \in ModeOf
  BY TopFacts DEF Scanning
<1>2. f.pos = Len(Content[d0]) + 1 /\ b \in Nat
      /\ \A n \in Ix(d0) : BlockOf[d0][n] < b => dirs[d0][n].high = h
  BY <1>1 DEF FixInv, StackInv, Frames
<1>3. f.buf \in Seq(Entries) /\ DOMAIN f.buf = Ix(d0) /\ Len(Content[d0]) \in Nat
  BY <1>1, EntriesOfImage DEF FrameOK, Frames, Ix
<1>4. DirsOK(dirs)
  BY DEF FixInv, DiskInv
<1>5. E = [dirs EXCEPT ![d0] = W] /\ W = [n \in Ix(d0) |-> IF BlockOf[d0][n] = b THEN f.buf[n] ELSE dirs[d0][n]]
  BY <1>3 DEF WithBlock
<1> HIDE DEF f, d0, b, W, h
<1>6. \A n \in Ix(d0) : Same(f.buf[n], d0, n) /\ Made(mode, PerGroup, f.buf[n], d0, n)
      /\ (Child(d0, n) => All(dirs, Target(d0, n), h))
  <2> TAKE n \in Ix(d0)
  <2>1. n < f.pos
    BY <1>2, <1>3 DEF Ix
  <2> QED BY <1>1, <2>1 DEF FrameOK, d0, h
<1>7. \A n \in Ix(d0) : f.buf[n].high = h
  <2> TAKE n \in Ix(d0)
  <2>1. f.buf[n].high \in BOOLEAN
    BY <1>6 DEF Same, Entries
  <2> QED BY <1>1, <1>6, <2>1 DEF Made, ModeOf, h
<1>8. W \in Seq(Entries) /\ Len(W) = Len(Content[d0]) /\ \A n \in Ix(d0) : Same(W[n], d0, n)
  <2>1. \A n \in Ix(d0) : Same(W[n], d0, n)
    BY <1>1, <1>4, <1>5, <1>6 DEF DirsOK
  <2> DEFINE l == Len(Content[d0])
  <2>2. \A n \in 1 .. l : W[n] \in Entries
    BY <2>1 DEF Same, Ix
  <2>3. W = [n \in 1 .. l |-> W[n]] /\ l \in Nat
    BY <1>3, <1>5 DEF Ix
  <2> HIDE DEF l
  <2>4. W \in Seq(Entries) /\ Len(W) = l
    BY <2>2, <2>3
  <2> QED BY <2>1, <2>4 DEF l
<1>9. E[d0] = W /\ E \in [Dirs -> Seq(Entries)] /\ \A d \in Dirs : d # d0 => E[d] = dirs[d]
  BY <1>1, <1>4, <1>5, <1>8 DEF DirsOK
<1>10. DirsOK(E)
  BY <1>4, <1>8, <1>9 DEF DirsOK
<1>11. ASSUME NEW d \in Dirs, NEW n \in Ix(d)
       PROVE  E[d][n] = dirs[d][n] \/ (d = d0 /\ BlockOf[d][n] = b /\ E[d][n] = f.buf[n])
  BY <1>5, <1>9
<1>12. ASSUME NEW d \in Dirs, NEW n \in Ix(d), dirs[d][n].high = h PROVE E[d][n].high = h
  BY <1>7, <1>11, <1>12
<1>13. \A d \in Dirs : All(dirs, d, h) => All(E, d, h)
  BY <1>12 DEF All
<1>14. ASSUME NEW n \in Ix(d0), BlockOf[d0][n] <= b PROVE E[d0][n].high = h
  <2>1. BlockOf[d0][n] \in Nat
    BY <1>1, BlocksOfDir
  <2>2. CASE BlockOf[d0][n] = b
    BY <1>5, <1>7, <1>9, <2>2
  <2>3. CASE BlockOf[d0][n] < b
    BY <1>1, <1>2, <1>12, <2>3
  <2> QED BY <1>2, <1>14, <2>1, <2>2, <2>3
<1>15. ASSUME Closed(dirs, h) PROVE Closed(E, h)
  <2> SUFFICES ASSUME NEW d \in Dirs, NEW n \in Ix(d), NEW m \in Ix(d), E[d][n].high = h, Child(d, m)
               PROVE  All(E, Target(d, m), h)
    BY DEF Closed
  <2>1. Target(d, m) \in Dirs
    BY DEF ImageOK
  <2>2. CASE d = d0
    BY <1>6, <1>13, <2>1, <2>2
  <2>3. CASE d # d0
    BY <1>9, <1>13, <1>15, <2>1, <2>3 DEF Closed
  <2> QED BY <2>2, <2>3
<1>16. \A d \in Dirs : \A n \in Ix(d) :
         E[d][n] = dirs[d][n] \/ (d = d0 /\ BlockOf[d][n] = b /\ Made(mode, PerGroup, E[d][n], d, n))
  BY <1>6, <1>11
<1> QED BY <1>9, <1>10, <1>13, <1>14, <1>15, <1>16 DEF f, d0, b, h

\* A pass that has written the root has written every directory.
LEMMA PassComplete ==
    ASSUME ImageOK, NEW D, NEW h, Closed(D, h), All(D, Root, h)
    PROVE  \A d \in Dirs : All(D, d, h)
<1> DEFINE S == {d \in Dirs : All(D, d, h)}
<1>1. Root \in S
  BY DEF ImageOK
<1>2. ASSUME NEW d \in S, NEW n \in Ix(d), Child(d, n) PROVE Target(d, n) \in S
  <2>1. 1 \in Ix(d) /\ D[d][1].high = h
    BY BlocksOfDir DEF All
  <2>2. All(D, Target(d, n), h)
    BY <1>2, <2>1 DEF Closed
  <2>3. Target(d, n) \in Dirs
    BY <1>2 DEF ImageOK
  <2> QED BY <2>2, <2>3
<1>3. S \in SUBSET Dirs
  OBVIOUS
<1> HIDE DEF S
<1>4. S = Dirs
  BY <1>1, <1>2, <1>3 DEF ImageOK
<1> QED BY <1>4 DEF S

\* A block is written, and after the last one recurse_dir returns; when it returns
\* from the root the pass has reached every entry.
LEMMA WriteBlockKeeps == ASSUME ImageOK, FixInv, WriteBlock PROVE FixInv'
<1> DEFINE f == Top
           d == f.dir
           last == f.block = NumBlocks(d)
           h == (mode = "mark")
           g == [Top EXCEPT !.block = @ + 1]
<1>1. /\ pc = "write_block" /\ UNCHANGED <<magic, sbs, stray, state, mode, info, sb, i, torn>>
      /\ mode = "sanity" => dirs' = dirs /\ short' = short
      /\ mode # "sanity" => /\ dirs' = [dirs EXCEPT ![d] = WithBlock(f, f.block)]
                            /\ short' = IF last /\ ~f.short THEN short \ {d} ELSE short
      /\ last => Return
      /\ ~last => stack' = [stack EXCEPT ![Len(stack)] = g] /\ pc' = pc
  BY DEF WriteBlock, runVars, SetTop
<1>2. /\ Path(stack, dirs, mode, PerGroup) /\ FrameOK(dirs, mode, PerGroup, f)
      /\ f \in Frames /\ d \in Dirs /\ d = stack[Len(stack)].dir
      /\ info = PerGroup /\ PerGroup \in PerGroups /\ <<magic, mode>> \in ModeOf
  BY <1>1, TopFacts DEF Scanning
<1>3. /\ f.pos = Len(Content[d]) + 1 /\ f.block \in 1 .. NumBlocks(d)
      /\ mode = "update" => ~f.short
  BY <1>1 DEF FixInv, StackInv
<1>4. PerGroup' = PerGroup
  BY <1>1 DEF PerGroup
<1>5. /\ DirsOK(dirs') /\ \A x \in Dirs : x # d => dirs'[x] = dirs[x]
      /\ \A x \in Dirs : \A n \in Ix(x) :
           dirs'[x][n] = dirs[x][n]
           \/ (mode # "sanity" /\ x = d /\ BlockOf[x][n] = f.block /\ Made(mode, PerGroup, dirs'[x][n], x, n))
      /\ mode # "sanity" =>
           /\ \A n \in Ix(d) : BlockOf[d][n] <= f.block => dirs'[d][n].high = h
           /\ \A x \in Dirs : All(dirs, x, h) => All(dirs', x, h)
           /\ Closed(dirs, h) => Closed(dirs', h)
  <2>1. CASE mode = "sanity"
    BY <1>1, <2>1 DEF FixInv, DiskInv
  <2>2. CASE mode # "sanity"
    BY <1>1, <2>2, BlockWritten
  <2> QED BY <2>1, <2>2
<1>6. mode = "mark" => magic = "marking" /\ h = TRUE
  BY <1>2 DEF ModeOf
<1>7. mode = "update" => magic = "updating_inums" /\ h = FALSE
  BY <1>2 DEF ModeOf
<1>8. mode = "sanity" => magic = "unset"
  BY <1>2 DEF ModeOf
<1>9. mode \in {"sanity", "mark", "update"}
  BY <1>2 DEF ModeOf
<1>10. short' \subseteq short
  BY <1>1, <1>9
<1>11. DiskInv'
  BY <1>1, <1>4, <1>5, <1>10 DEF FixInv, DiskInv
<1> HIDE DEF f, d, last, h, g
<1>12. Closed(dirs', h) \/ mode = "sanity"
  BY <1>5, <1>6, <1>7, <1>9 DEF FixInv, PhaseInv
<1>13. PhaseInv'
  <2>1. CASE mode = "sanity"
    BY <1>1, <1>4, <1>8, <2>1 DEF FixInv, PhaseInv
  <2>2. CASE mode = "mark"
    <3>0. \A x \in Dirs : \A n \in Ix(x) : dirs[x][n].inode = Num(x, n, PerGroup)
      BY <1>6, <2>2 DEF FixInv, PhaseInv
    <3>1. ASSUME NEW x \in Dirs, NEW n \in Ix(x) PROVE dirs'[x][n].inode = Num(x, n, PerGroup)
      <4>1. dirs'[x][n] = dirs[x][n] \/ Made(mode, PerGroup, dirs'[x][n], x, n)
        BY <1>5
      <4> QED BY <2>2, <3>0, <4>1 DEF Made
    <3> QED BY <1>1, <1>4, <1>6, <1>12, <2>2, <3>1 DEF PhaseInv
  <2>3. CASE mode = "update"
    <3>1. \A x \in Dirs : \A n \in Ix(x) :
            dirs'[x][n].inode = Num(x, n, IF dirs'[x][n].high THEN PerGroup ELSE NewPerGroup)
      BY <1>5, <1>7, <2>3 DEF FixInv, PhaseInv, Made
    <3>2. ASSUME NEW x \in Dirs PROVE dirs'[x][Len(Content[x])].high \/ x \notin short'
      <4>1. Len(Content[x]) \in Ix(x) /\ BlockOf[x][Len(Content[x])] = NumBlocks(x)
        BY BlocksOfDir
      <4>2. CASE dirs'[x][Len(Content[x])] = dirs[x][Len(Content[x])]
        BY <1>7, <1>10, <2>3, <4>2 DEF FixInv, PhaseInv
      <4>3. CASE x = d /\ BlockOf[x][Len(Content[x])] = f.block
        BY <1>1, <1>3, <2>3, <4>1, <4>3 DEF last
      <4> QED BY <1>5, <4>1, <4>2, <4>3
    <3> QED BY <1>1, <1>4, <1>7, <1>12, <2>3, <3>1, <3>2 DEF PhaseInv
  <2> QED BY <1>9, <2>1, <2>2, <2>3
<1>14. Path(stack, dirs', mode, PerGroup)
  BY <1>2, <1>3, <1>5, PathWritten DEF d, f, Top, h
<1>15. last /\ mode # "sanity" => All(dirs', d, h)
  <2> SUFFICES ASSUME last, mode # "sanity", NEW n \in Ix(d) PROVE dirs'[d][n].high = h
    BY DEF All
  <2>1. BlockOf[d][n] <= f.block
    BY <1>2, BlocksOfDir DEF last
  <2>2. \A m \in Ix(d) : BlockOf[d][m] <= f.block => dirs'[d][m].high = h
    BY <1>5
  <2> QED BY <2>1, <2>2
<1>16. CASE ~last
  <2>1. stack' = [stack EXCEPT ![Len(stack)] = g] /\ pc' = "write_block"
    BY <1>1, <1>16
  <2>2. g \in Frames /\ g.dir = f.dir /\ g.buf = f.buf /\ g.pos = f.pos /\ g.recursed = f.recursed
        /\ g.block = f.block + 1 /\ g.short = f.short
    BY <1>2 DEF Frames, g, f
  <2>3. Len(stack) \in 1 .. Len(stack) /\ FrameOK(dirs', mode, PerGroup, f)
    BY <1>14 DEF Path, f, Top
  <2>4. FrameOK(dirs', mode, PerGroup, g) /\ g.dir = stack[Len(stack)].dir
    BY <1>2, <2>2, <2>3 DEF FrameOK, d
  <2>5. Path(stack', dirs', mode, PerGroup) /\ stack'[Len(stack')] = g
    <3>1. Path([stack EXCEPT ![Len(stack)] = g], dirs', mode, PerGroup)
          /\ Len([stack EXCEPT ![Len(stack)] = g]) = Len(stack)
          /\ [stack EXCEPT ![Len(stack)] = g][Len(stack)] = g
      BY <1>14, <2>4, PathReplaced
    <3> QED BY <2>1, <3>1
  <2>6. g.block \in 1 .. NumBlocks(g.dir)
    BY <1>2, <1>3, <1>16, <2>2, BlocksOfDir DEF last, d
  <2>7. mode # "sanity" =>
          \A n \in Ix(g.dir) : BlockOf[g.dir][n] < g.block => dirs'[g.dir][n].high = (mode = "mark")
    <3> SUFFICES ASSUME mode # "sanity", NEW n \in Ix(d), BlockOf[d][n] < f.block + 1
                 PROVE  dirs'[d][n].high = h
      BY <2>2 DEF d, h
    <3>1. BlockOf[d][n] <= f.block
      BY <1>2, <1>3, BlocksOfDir
    <3> QED BY <1>5, <3>1
  <2>8. StackInv'
    BY <1>1, <1>3, <1>4, <2>1, <2>2, <2>5, <2>6, <2>7 DEF StackInv, Scanning, Top, d
  <2>9. ProcInv'
    BY <1>1, <1>2, <1>4, <2>1 DEF FixInv, ProcInv, InStep, Scanning, Labels
  <2>10. SbInv' /\ MountInv'
    BY <1>1, <2>1 DEF FixInv, SbInv, MountInv, Updating
  <2> QED BY <1>11, <1>13, <2>8, <2>9, <2>10 DEF FixInv
<1>17. CASE last /\ Len(stack) # 1
  <2>1. stack' = Popped(stack) /\ pc' = "scan"
    BY <1>1, <1>17 DEF Return, Popped, Goto
  <2>2. Len(stack) > 1
    <3>1. stack \in Seq(Frames) /\ Len(stack) > 0
      BY <1>2 DEF Path
    <3>2. Len(stack) \in Nat
      BY <3>1
    <3>3. Len(stack) # 1
      BY <1>17, Zenon
    <3> QED BY <3>1, <3>2, <3>3
  <2>3. Path(stack', dirs', mode, PerGroup) /\ stack'[Len(stack')].block = 1
    BY <1>2, <1>14, <1>15, <1>17, <2>1, <2>2, PathPopped DEF h
  <2>4. StackInv'
    BY <1>1, <1>4, <2>1, <2>3 DEF StackInv, Scanning, Top
  <2>5. ProcInv'
    BY <1>1, <1>2, <1>4, <2>1 DEF FixInv, ProcInv, InStep, Scanning, Labels
  <2>6. SbInv' /\ MountInv'
    BY <1>1, <2>1 DEF FixInv, SbInv, MountInv, Updating
  <2> QED BY <1>11, <1>13, <2>4, <2>5, <2>6 DEF FixInv
<1>18. CASE last /\ Len(stack) = 1
  <2>1. stack' = <<>> /\ pc' = "pass_done"
    BY <1>1, <1>18 DEF Return, Goto
  <2>2. d = Root
    BY <1>2, <1>18 DEF Path
  <2>3. mode # "sanity" => \A x \in Dirs : All(dirs', x, h)
    BY <1>12, <1>15, <1>18, <2>2, PassComplete
  <2>4. mode = "mark" => \A x \in Dirs : All(dirs', x, TRUE)
    BY <1>6, <2>3
  <2>5. mode = "update" => Clean(dirs', NewPerGroup) /\ short' = {}
    <3> SUFFICES ASSUME mode = "update" PROVE Clean(dirs', NewPerGroup) /\ short' = {}
      OBVIOUS
    <3>1. \A x \in Dirs : \A n \in Ix(x) : dirs'[x][n].high = FALSE
      BY <1>7, <2>3 DEF All
    <3>2. Clean(dirs', NewPerGroup)
      BY <1>1, <1>7, <1>13, <3>1 DEF PhaseInv, Clean
    <3>3. \A x \in Dirs : x \notin short'
      BY <1>1, <1>7, <1>13, <3>1, BlocksOfDir DEF PhaseInv
    <3> QED BY <1>11, <3>2, <3>3 DEF DiskInv
  <2>6. StackInv'
    BY <2>1 DEF StackInv, Scanning
  <2>7. ProcInv'
    BY <1>1, <1>2, <1>4, <2>1, <2>4, <2>5 DEF FixInv, ProcInv, InStep, Scanning, Labels
  <2>8. SbInv' /\ MountInv'
    BY <1>1, <2>1 DEF FixInv, SbInv, MountInv, Updating
  <2> QED BY <1>11, <1>13, <2>6, <2>7, <2>8 DEF FixInv
<1> QED BY <1>16, <1>17, <1>18

-----------------------------------------------------------------------------
(* Between the passes.                                                     *)

\* A run starts with what the disk says.
LEMMA StartKeeps == ASSUME ImageOK, FixInv, Start PROVE FixInv'
<1>1. pc = "stopped" /\ pc' = "dispatch" /\ info' = PerGroup
      /\ UNCHANGED <<diskVars, state, stack, sb, i, torn>>
  BY DEF Start, Goto, PerGroup
<1>2. PerGroup' = PerGroup /\ DiskInv' /\ PhaseInv'
  BY <1>1, DiskKept
<1>3. ProcInv'
  BY <1>1, <1>2 DEF FixInv, ProcInv, DiskInv, InStep, Scanning, Labels
<1>4. SbInv' /\ MountInv' /\ StackInv'
  BY <1>1 DEF FixInv, SbInv, MountInv, StackInv, Updating, Scanning, diskVars
<1> QED BY <1>2, <1>3, <1>4 DEF FixInv

\* The state in the boot sector decides which pass is made.
LEMMA DispatchKeeps == ASSUME ImageOK, FixInv, Dispatch PROVE FixInv'
<1>1. pc = "dispatch" /\ UNCHANGED <<diskVars, state, info, torn>> /\ stack = <<>>
  BY DEF Dispatch, runVars, FixInv, StackInv, Scanning
<1>2. PerGroup' = PerGroup /\ DiskInv' /\ PhaseInv' /\ magic' = magic /\ dirs' = dirs /\ sbs' = sbs /\ DiskInv
  BY <1>1, DiskKept DEF diskVars, FixInv
<1>3. info = PerGroup /\ info \in PerGroups /\ state \in States /\ i \in Nat
  BY <1>1 DEF FixInv, ProcInv, InStep
<1>4. ASSUME NEW m, StartPass(m), <<magic, m>> \in ModeOf, UNCHANGED <<sb, i>> PROVE FixInv'
  <2>1. mode' = m /\ stack' = <<Frame(Root)>> /\ pc' = "scan" /\ Root \in Dirs
    BY <1>4 DEF StartPass, Goto, ImageOK
  <2>2. FrameOK(dirs, m, PerGroup, Frame(Root)) /\ Frame(Root).dir = Root
        /\ Frame(Root).block = 1
    BY <1>2, <2>1, FrameStarts
  <2> DEFINE f == Frame(Root)
  <2>3. f \in Frames
    BY <2>2 DEF FrameOK
  <2> HIDE DEF f
  <2>4. <<f>> \in Seq(Frames) /\ Len(<<f>>) = 1 /\ <<f>>[1] = f
    BY <2>3
  <2>5. Path(<<f>>, dirs, m, PerGroup)
    <3>1. \A k \in 1 .. Len(<<f>>) : FrameOK(dirs, m, PerGroup, <<f>>[k])
      BY <2>2, <2>4 DEF f
    <3>2. \A j, k \in 1 .. Len(<<f>>) : j = k
      BY <2>4
    <3>3. 1 .. Len(<<f>>) - 1 = {}
      BY <2>4
    <3>4. <<f>>[1].dir = Root
      BY <2>2, <2>4 DEF f
    <3> QED BY <2>4, <3>1, <3>2, <3>3, <3>4 DEF Path
  <2>6. StackInv'
    <3>1. stack' = <<f>>
      BY <2>1 DEF f
    <3>2. f.block = 1
      BY <2>2 DEF f
    <3> QED BY <1>2, <2>1, <2>4, <2>5, <3>1, <3>2 DEF StackInv, Scanning, Top
  <2>7. ProcInv'
    BY <1>1, <1>2, <1>3, <1>4, <2>1 DEF ProcInv, InStep, Scanning, Labels
  <2>8. SbInv' /\ MountInv'
    BY <1>1, <1>2, <2>1 DEF FixInv, SbInv, MountInv, Updating
  <2> QED BY <1>2, <2>6, <2>7, <2>8 DEF FixInv
<1>5. ASSUME magic = "updating_sb", sb' = sbs[0], i' = 0, pc' = "count", UNCHANGED <<mode, stack>> PROVE FixInv'
  <2>1. IsSb(sbs[0]) /\ 0 \in 0 .. NumGroups /\ 0 .. 0 - 1 = {}
    BY GroupsCounted DEF FixInv, DiskInv
  <2>2. SbInv'
    BY <1>2, <1>5, <2>1 DEF SbInv, Updating
  <2>3. ProcInv'
    BY <1>1, <1>2, <1>3, <1>5 DEF ProcInv, InStep, Scanning, Labels
  <2>4. StackInv' /\ MountInv'
    BY <1>1, <1>2, <1>5 DEF FixInv, StackInv, MountInv, Scanning
  <2> QED BY <1>2, <2>2, <2>3, <2>4 DEF FixInv
<1>6. \/ magic = "unset" /\ StartPass("sanity") /\ UNCHANGED <<sb, i>>
      \/ magic = "marking" /\ StartPass("mark") /\ UNCHANGED <<sb, i>>
      \/ magic = "updating_inums" /\ StartPass("update") /\ UNCHANGED <<sb, i>>
      \/ magic = "updating_sb" /\ sb' = sbs[0] /\ i' = 0 /\ pc' = "count" /\ UNCHANGED <<mode, stack>>
  BY DEF Dispatch, Goto
<1> QED BY <1>4, <1>5, <1>6 DEF ModeOf

\* The counts of a super block with the old or the new number pass the check.
LEMMA CountsPass ==
    ASSUME ImageOK, info \in PerGroups, NEW s, s.per_group \in PerGroups, s.count = s.per_group * NumGroups
    PROVE  /\ new_inodes_per_group = NewPerGroup /\ CountsAreSane(s)
           /\ s.count + NumGroups * InodesAdded(s) = NewPerGroup * NumGroups
<1> DEFINE q == s.per_group
<1>1. new_inodes_per_group = NewPerGroup
  BY PerGroupsAlign DEF new_inodes_per_group
<1>2. q \in Nat /\ NewPerGroup \in Nat /\ NumGroups \in Nat /\ NewPerGroup % InodesPerBlock = 0
  BY PerGroupsAlign, Aligned, GroupsCounted
<1>3. InodesAdded(s) = NewPerGroup - q
  BY <1>1 DEF InodesAdded
<1> HIDE DEF q
<1>4. NumGroups * (NewPerGroup - q) = NewPerGroup * NumGroups - q * NumGroups
      /\ q * NumGroups \in Int /\ NewPerGroup * NumGroups \in Int
  BY <1>2
<1>5. s.count + NumGroups * InodesAdded(s) = NewPerGroup * NumGroups
  BY <1>3, <1>4 DEF q
<1> QED BY <1>1, <1>2, <1>5 DEF CountsAreSane

\* After a pass the next state is chosen.
LEMMA PassDoneKeeps == ASSUME ImageOK, FixInv, PassDone PROVE FixInv'
<1>1. pc = "pass_done" /\ UNCHANGED <<diskVars, mode, stack, info, sb, i, torn>>
  BY DEF PassDone, runVars
<1>2. PerGroup' = PerGroup /\ DiskInv' /\ PhaseInv' /\ magic' = magic /\ dirs' = dirs /\ sbs' = sbs
      /\ short' = short
  BY <1>1, DiskKept DEF diskVars
<1>3. info = PerGroup /\ info \in PerGroups /\ <<magic, mode>> \in ModeOf /\ i \in Nat
      /\ (mode = "mark" => \A d \in Dirs : All(dirs, d, TRUE))
      /\ (mode = "update" => Clean(dirs, NewPerGroup) /\ short = {})
  BY <1>1 DEF FixInv, ProcInv, InStep
<1>4. CountsAreSane(sbs[0])
  BY <1>3, CountsPass DEF FixInv, DiskInv, PerGroup
<1>5. pc' = "set_magic" /\ state' = CASE mode = "sanity" -> "marking"
                                      [] mode = "mark" -> "updating_inums"
                                      [] mode = "update" -> "updating_sb"
  BY <1>4 DEF PassDone, Goto
<1>6. \/ mode = "sanity" /\ magic = "unset" /\ state' = "marking"
      \/ mode = "mark" /\ magic = "marking" /\ state' = "updating_inums"
      \/ mode = "update" /\ magic = "updating_inums" /\ state' = "updating_sb"
  BY <1>3, <1>5 DEF ModeOf
<1>7. <<magic, state'>> \in NextState /\ state' \in States /\ state' # "unset"
      /\ (state' = "updating_inums" => mode = "mark") /\ (state' = "updating_sb" => mode = "update")
  BY <1>6 DEF NextState, States
<1>8. ProcInv'
  BY <1>1, <1>2, <1>3, <1>5, <1>7 DEF ProcInv, InStep, Scanning, Labels
<1>9. SbInv' /\ MountInv' /\ StackInv'
  BY <1>1, <1>2, <1>5 DEF FixInv, SbInv, MountInv, StackInv, Updating, Scanning
<1> QED BY <1>2, <1>8, <1>9 DEF FixInv

-----------------------------------------------------------------------------
(* update_superblocks_and_bg_desc.                                         *)

\* What holds at every step of it.
LEMMA UpdatingFacts ==
    ASSUME FixInv, pc \in Updating
    PROVE  /\ magic = "updating_sb" /\ IsSb(sb) /\ stack = <<>>
           /\ info \in PerGroups /\ state \in States /\ i \in Nat
<1>1. magic = "updating_sb" /\ IsSb(sb)
  BY DEF FixInv, SbInv
<1>2. stack = <<>>
  BY DEF FixInv, StackInv, Updating, Scanning
<1>3. info \in PerGroups /\ state \in States /\ i \in Nat
  BY DEF FixInv, ProcInv, Updating
<1> QED BY <1>1, <1>2, <1>3

\* The bitmap of one group is cleared past its end.
LEMMA CountGroupKeeps == ASSUME ImageOK, FixInv, CountGroup PROVE FixInv'
<1>1. /\ pc = "count" /\ i < NumGroups /\ i' = i + 1
      /\ stray' = IF info < new_inodes_per_group THEN stray \ {i} ELSE stray
      /\ UNCHANGED <<magic, sbs, dirs, short, pc, state, stack, info, sb, torn, mode>>
  BY DEF CountGroup, runVars
<1>2. info \in PerGroups /\ i \in Nat /\ NumGroups \in Nat /\ info = PerGroup
  BY <1>1, UpdatingFacts, GroupsCounted DEF Updating, FixInv, ProcInv, InStep
<1>3. new_inodes_per_group = NewPerGroup
  BY <1>2, PerGroupsAlign DEF new_inodes_per_group
<1>4. PerGroup' = PerGroup
  BY <1>1 DEF PerGroup
<1>5. stray' \subseteq stray
  BY <1>1
<1>6. DiskInv' /\ PhaseInv'
  BY <1>1, <1>4, <1>5 DEF FixInv, DiskInv, PhaseInv
<1>7. ProcInv'
  BY <1>1, <1>2, <1>4 DEF FixInv, ProcInv, InStep
<1>8. SbInv'
  <2>1. i' \in 0 .. NumGroups
    BY <1>1, <1>2
  <2>2. info < NewPerGroup => \A g \in 0 .. i' - 1 : g \notin stray'
    <3> SUFFICES ASSUME info < NewPerGroup, NEW g \in 0 .. i' - 1 PROVE g \notin stray'
      OBVIOUS
    <3>1. g = i \/ g \in 0 .. i - 1
      BY <1>1, <1>2
    <3>2. stray' = stray \ {i}
      BY <1>1, <1>3
    <3> QED BY <1>1, <3>1, <3>2 DEF FixInv, SbInv
  <2> QED BY <1>1, <2>1, <2>2 DEF FixInv, SbInv, Updating
<1>9. MountInv' /\ StackInv'
  BY <1>1 DEF FixInv, MountInv, StackInv, Scanning
<1> QED BY <1>6, <1>7, <1>8, <1>9 DEF FixInv

\* The super block gets the new number once every bitmap is clean.
LEMMA UpdateSbKeeps == ASSUME ImageOK, FixInv, UpdateSb PROVE FixInv'
<1>1. pc = "count" /\ i = NumGroups /\ i' = 0 /\ UNCHANGED <<diskVars, state, mode, stack, info, torn>>
  BY DEF UpdateSb, runVars
<1>2. /\ magic = "updating_sb" /\ IsSb(sb) /\ stack = <<>> /\ sb = sbs[0] /\ info = PerGroup
      /\ info \in PerGroups /\ state \in States
      /\ info < NewPerGroup => \A g \in 0 .. i - 1 : g \notin stray
  <2>1. sb = sbs[0] /\ (info < NewPerGroup => \A g \in 0 .. i - 1 : g \notin stray)
    BY <1>1 DEF FixInv, SbInv
  <2>2. info = PerGroup
    BY <1>1 DEF FixInv, ProcInv, InStep
  <2> QED BY <1>1, <2>1, <2>2, UpdatingFacts DEF Updating
<1>3. /\ sb.per_group = PerGroup /\ sb.count = PerGroup * NumGroups /\ PerGroup \in PerGroups
      /\ stray \subseteq Groups
      /\ PerGroup = NewPerGroup /\ NewPerGroup # OldInodesPerGroup => stray = {}
  BY <1>2 DEF FixInv, DiskInv, PerGroup
<1>4. /\ new_inodes_per_group = NewPerGroup /\ CountsAreSane(sb)
      /\ sb.count + NumGroups * InodesAdded(sb) = NewPerGroup * NumGroups
  BY <1>2, <1>3, CountsPass
<1> DEFINE t == NumGroups * InodesAdded(sb)
<1>5. pc' = "write_sb" /\ sb' = [sb EXCEPT !.count = @ + t, !.free = @ + t, !.per_group = new_inodes_per_group]
  BY <1>4 DEF UpdateSb, Goto
<1>6. sb.count + t = NewPerGroup * NumGroups
  BY <1>4
<1> HIDE DEF t
<1>7. sb = [per_group |-> sb.per_group, count |-> sb.count, free |-> sb.free, unmountable |-> sb.unmountable]
      /\ sb.unmountable \in BOOLEAN
  BY <1>2 DEF IsSb
<1>8. sb' = [per_group |-> NewPerGroup, count |-> NewPerGroup * NumGroups, free |-> sb.free + t,
             unmountable |-> sb.unmountable]
  BY <1>4, <1>5, <1>6, <1>7
<1>9. IsSb(sb') /\ sb'.per_group = NewPerGroup /\ sb'.count = NewPerGroup * NumGroups
      /\ sb'.unmountable = sb.unmountable
  BY <1>7, <1>8 DEF IsSb
<1>10. NewPerGroup # OldInodesPerGroup => stray = {}
  <2>1. CASE info < NewPerGroup
    <3>1. \A g \in Groups : g \notin stray
      BY <1>1, <1>2, <2>1, GroupsCounted
    <3> QED BY <1>3, <3>1
  <2>2. CASE ~(info < NewPerGroup)
    <3>1. NewPerGroup \in Nat /\ OldInodesPerGroup \in Nat /\ NewPerGroup >= OldInodesPerGroup
      BY Aligned DEF ImageOK
    <3>2. info = OldInodesPerGroup \/ info = NewPerGroup
      BY <1>2 DEF PerGroups
    <3>3. info = NewPerGroup
      BY <2>2, <3>1, <3>2
    <3> QED BY <1>2, <1>3, <3>3
  <2> QED BY <2>1, <2>2
<1>11. /\ PerGroup' = PerGroup /\ DiskInv' /\ PhaseInv' /\ magic' = magic /\ sbs' = sbs /\ stray' = stray
  BY <1>1, DiskKept DEF diskVars
<1>12. ProcInv'
  BY <1>1, <1>2, <1>5, <1>11 DEF ProcInv, InStep, Scanning, Labels
<1>13. SbInv'
  BY <1>1, <1>2, <1>5, <1>9, <1>10, <1>11 DEF SbInv, Updating
<1>14. MountInv' /\ StackInv'
  BY <1>1, <1>2, <1>5, <1>11 DEF FixInv, MountInv, StackInv, Scanning
<1> QED BY <1>11, <1>12, <1>13, <1>14 DEF FixInv

\* A copy of the super block is written, the primary one first.
LEMMA WriteSbKeeps == ASSUME ImageOK, FixInv, WriteSb PROVE FixInv'
<1> DEFINE copy == [sb EXCEPT !.unmountable = @ /\ i = 0]
<1>1. /\ pc = "write_sb" /\ UNCHANGED <<magic, dirs, short, stray, state, stack, info, i, torn>>
      /\ \/ i \in SuperGroups /\ sb' = copy /\ sbs' = [sbs EXCEPT ![i] = copy] /\ pc' = "write_bg_desc"
         \/ i \notin SuperGroups /\ pc' = "next_group" /\ UNCHANGED <<sb, sbs>>
  BY DEF WriteSb, runVars, Goto
<1>2. /\ magic = "updating_sb" /\ IsSb(sb) /\ stack = <<>>
      /\ info \in PerGroups /\ state \in States /\ i \in Nat
  BY <1>1, UpdatingFacts DEF Updating
<1>3. /\ sb.per_group = NewPerGroup /\ sb.count = NewPerGroup * NumGroups
      /\ NewPerGroup # OldInodesPerGroup => stray = {}
      /\ i = 0 => sb.unmountable = sbs[0].unmountable
      /\ i > 0 => PerGroup = NewPerGroup
  BY <1>1 DEF FixInv, SbInv, Updating
<1>4. 0 \in SuperGroups /\ sbs = [g \in SuperGroups |-> sbs[g]] /\ IsSb(sbs[0])
      /\ sbs[0].count = PerGroup * NumGroups
  BY DEF ImageOK, FixInv, DiskInv
<1>5. sb = [per_group |-> sb.per_group, count |-> sb.count, free |-> sb.free, unmountable |-> sb.unmountable]
      /\ sb.unmountable \in BOOLEAN
  BY <1>2 DEF IsSb
<1>6. copy = [per_group |-> sb.per_group, count |-> sb.count, free |-> sb.free,
              unmountable |-> sb.unmountable /\ i = 0]
  BY <1>5
<1>7. IsSb(copy) /\ copy.per_group = NewPerGroup /\ copy.count = NewPerGroup * NumGroups
      /\ (i = 0 => copy.unmountable = sb.unmountable)
  BY <1>3, <1>5, <1>6 DEF IsSb
<1> HIDE DEF copy
<1>8. /\ IsSb(sb') /\ sb'.per_group = NewPerGroup /\ sb'.count = NewPerGroup * NumGroups
  BY <1>1, <1>2, <1>3, <1>7
<1>9. /\ sbs' = [g \in SuperGroups |-> sbs'[g]] /\ IsSb(sbs'[0]) /\ sbs'[0].per_group = NewPerGroup
      /\ sbs'[0].count = NewPerGroup * NumGroups /\ sbs'[0].unmountable = sbs[0].unmountable
  <2>1. CASE i = 0
    BY <1>1, <1>3, <1>4, <1>7, <2>1
  <2>2. CASE i # 0
    <3>1. PerGroup = NewPerGroup
      BY <1>2, <1>3, <2>2
    <3>2. sbs'[0] = sbs[0] /\ sbs' = [g \in SuperGroups |-> sbs'[g]]
      BY <1>1, <1>4, <2>2
    <3> QED BY <1>4, <3>1, <3>2 DEF PerGroup
  <2> QED BY <2>1, <2>2
<1>10. PerGroup' = NewPerGroup
  BY <1>9 DEF PerGroup
<1>11. DiskInv'
  BY <1>1, <1>3, <1>9, <1>10 DEF FixInv, DiskInv, PerGroups
<1>12. PhaseInv'
  BY <1>1, <1>2 DEF FixInv, PhaseInv
<1>13. ProcInv'
  BY <1>1, <1>2 DEF ProcInv, InStep, Scanning, Labels
<1>14. SbInv'
  BY <1>1, <1>2, <1>3, <1>8, <1>10 DEF SbInv, Updating
<1>15. MountInv' /\ StackInv'
  BY <1>1, <1>2, <1>9 DEF FixInv, MountInv, StackInv, Scanning
<1> QED BY <1>11, <1>12, <1>13, <1>14, <1>15 DEF FixInv

\* The descriptors are written, and the next group has its turn.
LEMMA BgDescKeeps == ASSUME ImageOK, FixInv, WriteBgDesc \/ NextGroup PROVE FixInv'
<1>1. /\ pc \in {"write_bg_desc", "next_group"}
      /\ UNCHANGED <<magic, sbs, dirs, short, stray, stack, info, sb, torn>>
      /\ \/ pc' = "next_group" /\ i' = i /\ state' = state
         \/ pc' = "set_magic" /\ i' = i + 1 /\ state' = "unset"
         \/ pc' = "write_sb" /\ i' = i + 1 /\ state' = state
  BY DEF WriteBgDesc, NextGroup, memVars, runVars, diskVars, Goto
<1>2. /\ magic = "updating_sb" /\ IsSb(sb) /\ stack = <<>>
      /\ info \in PerGroups /\ state \in States /\ i \in Nat
  BY <1>1, UpdatingFacts DEF Updating
<1>3. PerGroup' = PerGroup /\ PerGroup = NewPerGroup
  BY <1>1 DEF PerGroup, FixInv, SbInv
<1>4. DiskInv' /\ PhaseInv'
  BY <1>1, <1>3 DEF FixInv, DiskInv, PhaseInv
<1>5. i' \in Nat /\ (pc' = "write_sb" => i' # 0)
  BY <1>1, <1>2
<1>6. ProcInv'
  BY <1>1, <1>2, <1>3, <1>5 DEF ProcInv, InStep, Scanning, Labels, NextState, States
<1>7. SbInv'
  BY <1>1, <1>2, <1>3, <1>5 DEF FixInv, SbInv, Updating
<1>8. MountInv' /\ StackInv'
  BY <1>1, <1>2 DEF FixInv, MountInv, StackInv, Scanning
<1> QED BY <1>4, <1>6, <1>7, <1>8 DEF FixInv

-----------------------------------------------------------------------------
(* set_fs_fixup_state, and the end of a run.                               *)

\* The new state goes to the boot sector when the directories are as it says.
LEMMA SetMagicKeeps == ASSUME ImageOK, FixInv, SetMagic PROVE FixInv'
<1>1. pc = "set_magic" /\ magic' = state /\ pc' = "set_sb"
      /\ UNCHANGED <<sbs, dirs, short, stray, state, stack, info, i, torn>>
  BY DEF SetMagic, memVars, runVars, Goto
<1>2. /\ <<magic, state>> \in NextState /\ state \in States /\ i \in Nat /\ info \in PerGroups
      /\ state = "updating_inums" => \A d \in Dirs : All(dirs, d, TRUE)
      /\ state = "updating_sb" => Clean(dirs, NewPerGroup) /\ short = {}
      /\ state = "unset" => PerGroup = NewPerGroup
      /\ state # "unset" => info = PerGroup
  BY <1>1 DEF FixInv, ProcInv, InStep
<1>3. PerGroup' = PerGroup
  BY <1>1 DEF PerGroup
<1>4. /\ state = "marking" => magic = "unset"
      /\ state = "updating_inums" => magic = "marking"
      /\ state = "updating_sb" => magic = "updating_inums"
      /\ state = "unset" => magic = "updating_sb"
  BY <1>2 DEF NextState
<1>5. DiskInv'
  BY <1>1, <1>2, <1>3 DEF FixInv, DiskInv
<1>6. state = "marking" => Clean(dirs, PerGroup)
  BY <1>4 DEF FixInv, PhaseInv
<1>7. PhaseInv'
  <2>1. CASE state = "unset"
    BY <1>1, <1>2, <1>3, <1>4, <2>1 DEF FixInv, PhaseInv
  <2>2. CASE state = "marking"
    <3>1. \A d \in Dirs : \A n \in Ix(d) : dirs[d][n].inode = Num(d, n, PerGroup)
      BY <1>6, <2>2 DEF Clean
    <3>2. Closed(dirs, TRUE)
      BY <1>6, <2>2 DEF Clean, Closed
    <3> QED BY <1>1, <1>3, <2>2, <3>1, <3>2 DEF PhaseInv
  <2>3. CASE state = "updating_inums"
    <3>1. \A d \in Dirs : \A n \in Ix(d) : dirs[d][n].high = TRUE
      BY <1>2, <2>3 DEF All
    <3>2. \A d \in Dirs : \A n \in Ix(d) : dirs[d][n].inode = Num(d, n, PerGroup)
      BY <1>4, <2>3 DEF FixInv, PhaseInv
    <3>3. Closed(dirs, FALSE)
      BY <3>1 DEF Closed
    <3>4. \A d \in Dirs : dirs[d][Len(Content[d])].high
      BY <3>1, BlocksOfDir
    <3>5. \A d \in Dirs : \A n \in Ix(d) :
            dirs[d][n].inode = Num(d, n, IF dirs[d][n].high THEN PerGroup ELSE NewPerGroup)
      BY <3>1, <3>2
    <3> QED BY <1>1, <1>3, <2>3, <3>3, <3>4, <3>5 DEF PhaseInv
  <2>4. CASE state = "updating_sb"
    BY <1>1, <1>2, <2>4 DEF PhaseInv
  <2> QED BY <1>2, <2>1, <2>2, <2>3, <2>4 DEF States
<1>8. state = "unset" => short = {}
  BY <1>4 DEF FixInv, PhaseInv
<1>9. ProcInv'
  BY <1>1, <1>2, <1>3, <1>6, <1>8 DEF ProcInv, InStep, Scanning, Labels
<1>10. SbInv' /\ StackInv'
  BY <1>1 DEF FixInv, SbInv, StackInv, Updating, Scanning
<1>11. MountInv'
  BY <1>1, <1>4 DEF FixInv, MountInv
<1> QED BY <1>5, <1>7, <1>9, <1>10, <1>11 DEF FixInv

\* The second write of set_fs_fixup_state.
LEMMA SetSbKeeps == ASSUME ImageOK, FixInv, SetSb PROVE FixInv'
<1>1. pc = "set_sb" /\ sbs' = [sbs EXCEPT ![0].unmountable = state # "unset"]
      /\ pc' = (IF state = "unset" THEN "finished" ELSE "dispatch")
      /\ UNCHANGED <<magic, dirs, short, stray, state, stack, info, i, torn>>
  BY DEF SetSb, memVars, runVars, Goto
<1>2. /\ magic = state /\ state \in States /\ i \in Nat /\ info \in PerGroups
      /\ state = "unset" => PerGroup = NewPerGroup /\ short = {}
      /\ state # "unset" => info = PerGroup
  BY <1>1 DEF FixInv, ProcInv, InStep
<1>3. 0 \in SuperGroups /\ sbs = [g \in SuperGroups |-> sbs[g]] /\ IsSb(sbs[0])
  BY DEF ImageOK, FixInv, DiskInv
<1> DEFINE s == sbs[0]
<1>4. sbs'[0] = [s EXCEPT !.unmountable = state # "unset"] /\ sbs' = [g \in SuperGroups |-> sbs'[g]]
  BY <1>1, <1>3
<1>5. s = [per_group |-> s.per_group, count |-> s.count, free |-> s.free, unmountable |-> s.unmountable]
  BY <1>3 DEF IsSb
<1> HIDE DEF s
<1>6. sbs'[0] = [per_group |-> s.per_group, count |-> s.count, free |-> s.free, unmountable |-> state # "unset"]
  BY <1>4, <1>5
<1>7. IsSb(sbs'[0]) /\ sbs'[0].per_group = s.per_group /\ sbs'[0].count = s.count
      /\ sbs'[0].unmountable = (state # "unset")
  BY <1>6 DEF IsSb
<1>8. PerGroup' = PerGroup /\ sbs'[0].count = sbs[0].count
  BY <1>7 DEF PerGroup, s
<1>9. DiskInv' /\ PhaseInv'
  BY <1>1, <1>4, <1>7, <1>8 DEF FixInv, DiskInv, PhaseInv
<1>10. ProcInv'
  BY <1>1, <1>2, <1>8 DEF ProcInv, InStep, Scanning, Labels
<1>11. SbInv' /\ StackInv'
  BY <1>1 DEF FixInv, SbInv, StackInv, Updating, Scanning
<1>12. MountInv'
  BY <1>1, <1>2, <1>7 DEF MountInv
<1> QED BY <1>9, <1>10, <1>11, <1>12 DEF FixInv

\* A run is cut off, or a finished image is given to another run.
LEMMA EndKeeps == ASSUME ImageOK, FixInv, Crash \/ RunAgain PROVE FixInv'
<1>1. pc' = "stopped" /\ state' = "unset" /\ stack' = <<>> /\ i' = 0 /\ UNCHANGED diskVars
      /\ torn \subseteq torn' /\ (pc = "set_sb" => "set_sb" \in torn')
  BY DEF Crash, RunAgain, Stop, Goto, SecondWrites
<1>2. PerGroup' = PerGroup /\ DiskInv' /\ PhaseInv'
  BY <1>1, DiskKept
<1>3. ProcInv'
  BY <1>1 DEF ProcInv, InStep, Scanning, Labels, States
<1>4. SbInv' /\ StackInv'
  BY <1>1 DEF SbInv, StackInv, Updating, Scanning
<1>5. MountInv'
  BY <1>1 DEF FixInv, MountInv, diskVars
<1> QED BY <1>2, <1>3, <1>4, <1>5 DEF FixInv

\* Every step keeps the inductive invariant.
LEMMA FixKept == ASSUME ImageOK, FixInv, [Next]_vars PROVE FixInv'
<1>1. CASE \/ Start \/ Dispatch \/ Recurse \/ ProcessEntry
           \/ EndScan \/ WriteBlock \/ PassDone
  BY <1>1, StartKeeps, DispatchKeeps, RecurseKeeps, ProcessEntryKeeps, EndScanKeeps, WriteBlockKeeps,
     PassDoneKeeps
<1>2. CASE CountGroup \/ UpdateSb \/ WriteSb \/ WriteBgDesc \/ NextGroup
  BY <1>2, CountGroupKeeps, UpdateSbKeeps, WriteSbKeeps, BgDescKeeps
<1>3. CASE SetMagic \/ SetSb \/ Crash \/ RunAgain
  BY <1>3, SetMagicKeeps, SetSbKeeps, EndKeeps
<1>4. CASE UNCHANGED vars
  <2>1. UNCHANGED <<diskVars, pc, state, mode, info, sb, i, torn>> /\ stack' = stack
    BY <1>4 DEF vars, memVars, runVars
  <2>2. PerGroup' = PerGroup /\ dirs' = dirs /\ mode' = mode /\ pc' = pc
    BY <2>1, OthersKept DEF diskVars
  <2>3. StackInv'
    BY <2>1, <2>2 DEF FixInv, StackInv, Top
  <2> QED BY <2>1, <2>3, OthersKept DEF FixInv
<1> QED BY <1>1, <1>2, <1>3, <1>4 DEF Next, Proceed

\* For every image: a run that reports success leaves every entry with the new
\* number of the inode it always named, wherever the runs before it were cut off
\* (EntriesRenumbered, ext4fixup.c 779-811); the file system cannot be mounted
\* while its entries and its super block disagree, unless a run was cut off
\* between the two writes of set_fs_fixup_state (UnmountableWhileUpdating,
\* ext4fixup.c 150-163); and recurse_dir only descends into what the entry named
\* on the original image, so that no restart ends in a critical_error
\* (DescendsRight, ext4fixup.c 606-618).
THEOREM FixupSurvivesRestarts ==
    ASSUME ImageOK
    PROVE  Spec => [](EntriesRenumbered /\ UnmountableWhileUpdating /\ DescendsRight)
<1>1. Init => FixInv
  BY FixStarts
<1>2. FixInv /\ [Next]_vars => FixInv'
  BY FixKept
<1>3. ASSUME FixInv PROVE EntriesRenumbered /\ UnmountableWhileUpdating /\ DescendsRight
  <2>1. \A d \in Dirs : DOMAIN dirs[d] = Ix(d)
    BY <1>3 DEF FixInv, DiskInv, DirsOK, Ix
  <2>2. \A p : Clean(dirs, p) => \A d \in Dirs : \A n \in DOMAIN dirs[d] :
                                    ~dirs[d][n].high /\ NamesItsInode(d, n, p)
    BY <2>1 DEF Clean, NamesItsInode, Num
  <2>3. EntriesRenumbered
    <3> SUFFICES ASSUME pc = "finished" PROVE EntriesRenumbered
      BY DEF EntriesRenumbered
    <3>1. magic = "unset" /\ PerGroup = NewPerGroup /\ short = {}
      BY <1>3 DEF FixInv, ProcInv
    <3>2. Clean(dirs, NewPerGroup) /\ (NewPerGroup # OldInodesPerGroup => stray = {})
      BY <1>3, <3>1 DEF FixInv, PhaseInv, DiskInv
    <3> QED BY <2>2, <3>1, <3>2 DEF EntriesRenumbered
  <2>4. UnmountableWhileUpdating
    <3> SUFFICES ASSUME "set_sb" \notin torn, ~sbs[0].unmountable PROVE Clean(dirs, PerGroup)
      BY <2>2 DEF UnmountableWhileUpdating, PerGroup
    <3>1. CASE pc # "set_sb"
      BY <1>3, <3>1 DEF FixInv, MountInv, PhaseInv
    <3>2. CASE pc = "set_sb"
      <4>1. magic = state /\ state \in {"unset", "marking"} /\ (state = "marking" => Clean(dirs, PerGroup))
        BY <1>3, <3>2 DEF FixInv, MountInv, ProcInv, States
      <4> QED BY <1>3, <4>1 DEF FixInv, PhaseInv
    <3> QED BY <3>1, <3>2
  <2>5. DescendsRight
    <3>1. pc # "failed"
      BY <1>3 DEF FixInv, ProcInv
    <3>2. ASSUME NEW n \in 1 .. Len(stack) - 1 PROVE stack[n + 1].dir = Target(stack[n].dir, stack[n].pos)
      <4>1. CASE pc \in Scanning
        BY <1>3, <4>1 DEF FixInv, StackInv, Path, Waits
      <4>2. CASE pc \notin Scanning
        <5>1. stack = <<>>
          BY <1>3, <4>2 DEF FixInv, StackInv
        <5> QED BY <3>2, <5>1
      <4> QED BY <4>1, <4>2
    <3> QED BY <3>1, <3>2 DEF DescendsRight
  <2> QED BY <2>3, <2>4, <2>5
<1> QED BY <1>1, <1>2, <1>3, PTL DEF Spec

-----------------------------------------------------------------------------
(* The counts.                                                             *)

\* The super blocks are in groups of the image, and so are the free inodes, which
\* the primary super block counts.
CountsOK ==
    /\ SuperGroups \subseteq Groups
    /\ FreeInodes \in [Groups -> Nat] /\ TotalFree(FreeInodes) \in Nat

\* The descriptors and the super block with p inodes per group.
BgOf(p) == [h \in Groups |-> FreeInodes[h] + (p - OldInodesPerGroup)]

SbOf(p, u) ==
    [per_group |-> p, count |-> p * NumGroups,
     free |-> TotalFree(FreeInodes) + (p - OldInodesPerGroup) * NumGroups, unmountable |-> u]

\* The descriptors in memory when j groups have been counted.
BgCounted(j, p) ==
    [h \in Groups |-> FreeInodes[h] + ((IF h < j THEN NewPerGroup ELSE p) - OldInodesPerGroup)]

\* The copies in group g are those of the fixed image.
CopyWritten(g) == sbs[g] = SbOf(NewPerGroup, FALSE) /\ bg_descs[g] = BgOf(NewPerGroup)

\* Where the descriptors in memory are those on disk.
AsRead ==
    \/ pc \in {"dispatch", "scan", "write_block", "pass_done"}
    \/ pc \in {"set_magic", "set_sb"} /\ state # "unset"

\* Where all of update_superblocks_and_bg_desc is done.
AllWritten == (pc \in {"set_magic", "set_sb"} /\ state = "unset") \/ pc = "finished"

\* The counts in the primary super block always go with its inodes per group, and
\* so do its descriptors unless a run was cut off before it wrote them; the
\* copies are written in the order of the groups.
CountsInv ==
    /\ bg_descs = [g \in SuperGroups |-> bg_descs[g]]
    /\ sbs[0] = SbOf(PerGroup, sbs[0].unmountable)
    /\ pc \in Updating \ {"count"} => sb = SbOf(NewPerGroup, sb.unmountable) /\ i < NumGroups
    /\ pc = "write_bg_desc" => i \in SuperGroups
    /\ pc = "finished" => ~sbs[0].unmountable
    /\ "write_bg_desc" \notin torn =>
        /\ ~(pc = "write_bg_desc" /\ i = 0) => bg_descs[0] = BgOf(PerGroup)
        /\ AsRead => bg_desc = BgOf(PerGroup)
        /\ pc = "count" => bg_desc = BgCounted(i, PerGroup)
        /\ pc \in Updating \ {"count"} => bg_desc = BgOf(NewPerGroup)
        /\ pc \in Updating \ {"count"} =>
            \A g \in SuperGroups \ {0} : g < i \/ (g = i /\ pc = "next_group") => CopyWritten(g)
        /\ pc = "write_bg_desc" /\ i # 0 => sbs[i] = SbOf(NewPerGroup, FALSE)
        /\ AllWritten => \A g \in SuperGroups \ {0} : CopyWritten(g)

\* The fields of a super block, and its free inodes when the number is raised.
LEMMA RaisedSb ==
    ASSUME ImageOK, CountsOK, NEW p \in PerGroups, NEW u
    PROVE  /\ SbOf(p, u).per_group = p /\ SbOf(p, u).count = p * NumGroups /\ SbOf(p, u).unmountable = u
           /\ SbOf(p, u).free + NumGroups * (NewPerGroup - p) = SbOf(NewPerGroup, u).free
           /\ \A v : [SbOf(p, u) EXCEPT !.unmountable = v] = SbOf(p, v)
<1> DEFINE F == TotalFree(FreeInodes)
           O == OldInodesPerGroup
<1>1. F \in Nat /\ O \in Nat /\ p \in Nat /\ NewPerGroup \in Nat /\ NumGroups \in Nat
  BY PerGroupsAlign, Aligned, GroupsCounted DEF CountsOK, ImageOK
<1>2. SbOf(p, u).free = F + (p - O) * NumGroups
      /\ SbOf(NewPerGroup, u).free = F + (NewPerGroup - O) * NumGroups
  BY DEF SbOf
<1> HIDE DEF F, O
<1>3. (p - O) * NumGroups + NumGroups * (NewPerGroup - p) = (NewPerGroup - O) * NumGroups
  BY <1>1
<1>4. (p - O) * NumGroups \in Int /\ NumGroups * (NewPerGroup - p) \in Int
  BY <1>1
<1>5. SbOf(p, u).free + NumGroups * (NewPerGroup - p) = SbOf(NewPerGroup, u).free
  BY <1>1, <1>2, <1>3, <1>4
<1>6. SbOf(p, u).per_group = p /\ SbOf(p, u).count = p * NumGroups /\ SbOf(p, u).unmountable = u
      /\ \A v : [SbOf(p, u) EXCEPT !.unmountable = v] = SbOf(p, v)
  BY DEF SbOf
<1> QED BY <1>5, <1>6

\* The counts of the image go with the old number.
LEMMA CountsStart == ASSUME ImageOK, CountsOK, Init PROVE CountsInv
<1> DEFINE F == TotalFree(FreeInodes)
           O == OldInodesPerGroup
<1>1. 0 \in SuperGroups /\ F \in Nat /\ O \in Nat /\ NumGroups \in Nat /\ OldInodesCount = O * NumGroups
  BY GroupsCounted DEF CountsOK, ImageOK
<1>2. sbs[0] = [per_group |-> O, count |-> OldInodesCount, free |-> F, unmountable |-> FALSE]
      /\ bg_descs = [g \in SuperGroups |-> FreeInodes] /\ bg_descs[0] = FreeInodes
  BY <1>1 DEF Init
<1> HIDE DEF F
<1>3. F + (O - O) * NumGroups = F
  BY <1>1
<1>4. SbOf(O, FALSE) = [per_group |-> O, count |-> OldInodesCount, free |-> F, unmountable |-> FALSE]
  BY <1>1, <1>3 DEF SbOf, F
<1>5. BgOf(O) = FreeInodes
  <2>1. \A h \in Groups : FreeInodes[h] + (O - O) = FreeInodes[h]
    BY <1>1 DEF CountsOK
  <2> QED BY <2>1 DEF BgOf, CountsOK
<1>6. PerGroup = O /\ sbs[0].unmountable = FALSE
  BY <1>2 DEF PerGroup
<1> HIDE DEF O
<1>7. pc = "stopped" /\ bg_descs[0] = BgOf(PerGroup) /\ sbs[0] = SbOf(PerGroup, sbs[0].unmountable)
  BY <1>2, <1>4, <1>5, <1>6 DEF Init
<1>8. bg_descs = [g \in SuperGroups |-> bg_descs[g]]
  BY <1>2
<1>9. ~AsRead /\ ~AllWritten /\ pc \notin Updating
  BY <1>7 DEF AsRead, AllWritten, Updating
<1> QED BY <1>7, <1>8, <1>9 DEF CountsInv, Updating

\* A step between two places where the descriptors are as they were read.
LEMMA AsReadKeeps ==
    ASSUME FixInv, CountsInv, AsRead, AsRead', UNCHANGED <<sbs, bg_descs, bg_desc, torn>>
    PROVE  CountsInv'
<1>1. PerGroup' = PerGroup
  BY DEF PerGroup
<1>2. pc' \notin Updating /\ pc' # "finished" /\ ~AllWritten'
  BY DEF AsRead, AllWritten, Updating
<1>3. ~(pc = "write_bg_desc")
  BY DEF AsRead
<1>4. pc' # "count" /\ pc' # "write_bg_desc"
  BY <1>2 DEF Updating
<1> QED BY <1>1, <1>2, <1>3, <1>4 DEF CountsInv

\* The passes over the directories leave the counts alone.
LEMMA PassKeepsCounts ==
    ASSUME ImageOK, FixInv, CountsInv, FixInv',
           Recurse \/ ProcessEntry \/ EndScan \/ WriteBlock \/ PassDone
    PROVE  CountsInv'
<1>1. UNCHANGED <<sbs, bg_descs, bg_desc, torn>>
  BY DEF Recurse, ProcessEntry, EndScan, WriteBlock, PassDone, diskVars, runVars
<1>2. AsRead
  BY DEF Recurse, ProcessEntry, EndScan, WriteBlock, PassDone, AsRead
<1>3. pc' # "failed"
  BY DEF FixInv, ProcInv
<1>4. AsRead'
  <2>1. CASE Recurse
    BY <1>3, <2>1 DEF Recurse, Goto, AsRead
  <2>2. CASE ProcessEntry \/ EndScan
    BY <2>2 DEF ProcessEntry, EndScan, Goto, AsRead
  <2>3. CASE WriteBlock
    BY <2>3 DEF WriteBlock, Return, Goto, AsRead
  <2>4. CASE PassDone
    <3>1. mode \in {"sanity", "mark", "update"}
      BY <2>4 DEF PassDone, FixInv, ProcInv, ModeOf
    <3>2. pc' = "set_magic" /\ state' # "unset"
      BY <1>3, <2>4, <3>1 DEF PassDone, Goto
    <3> QED BY <3>2 DEF AsRead
  <2> QED BY <2>1, <2>2, <2>3, <2>4
<1> QED BY <1>1, <1>2, <1>4, AsReadKeeps

\* A run reads the descriptors of the primary super block, and counts from them.
LEMMA StepsKeepCounts ==
    ASSUME ImageOK, CountsOK, FixInv, CountsInv, Start \/ Dispatch \/ SetMagic
    PROVE  CountsInv'
<1>1. sbs' = sbs /\ bg_descs' = bg_descs /\ torn' = torn /\ PerGroup' = PerGroup
  BY DEF Start, Dispatch, SetMagic, diskVars, runVars, PerGroup
<1>2. CASE Start
  <2>1. pc = "stopped" /\ pc' = "dispatch" /\ bg_desc' = bg_descs[0]
    BY <1>2 DEF Start, Goto
  <2> QED BY <1>1, <2>1 DEF CountsInv, Updating, AsRead, AllWritten
<1>3. CASE Dispatch /\ pc' # "count"
  <2>1. AsRead /\ AsRead' /\ bg_desc' = bg_desc
    BY <1>3 DEF Dispatch, StartPass, Goto, AsRead
  <2> QED BY <1>1, <2>1, AsReadKeeps
<1>4. CASE Dispatch /\ pc' = "count"
  <2>1. pc = "dispatch" /\ i' = 0 /\ bg_desc' = bg_desc
    BY <1>4 DEF Dispatch, StartPass, Goto
  <2>2. \A h \in Groups : ~(h < 0)
    BY GroupsCounted
  <2>3. BgOf(PerGroup) = BgCounted(0, PerGroup)
    BY <2>2 DEF BgOf, BgCounted
  <2>4. "write_bg_desc" \notin torn => bg_desc = BgOf(PerGroup) /\ bg_descs[0] = BgOf(PerGroup)
    BY <2>1 DEF CountsInv, AsRead
  <2> QED BY <1>1, <1>4, <2>1, <2>3, <2>4 DEF CountsInv, Updating, AsRead, AllWritten
<1>5. CASE SetMagic
  <2>1. pc = "set_magic" /\ pc' = "set_sb" /\ state' = state /\ bg_desc' = bg_desc
    BY <1>5 DEF SetMagic, Goto, memVars
  <2>2. CASE state # "unset"
    <3>1. AsRead /\ AsRead'
      BY <2>1, <2>2 DEF AsRead
    <3> QED BY <1>1, <2>1, <3>1, AsReadKeeps
  <2>3. CASE state = "unset"
    <3>1. AllWritten /\ ~AsRead' /\ pc' \notin Updating /\ pc' # "finished" /\ pc # "write_bg_desc"
          /\ pc' # "count" /\ pc' # "write_bg_desc"
      BY <2>1, <2>3 DEF AllWritten, AsRead, Updating
    <3> QED BY <1>1, <3>1 DEF CountsInv, CopyWritten
  <2> QED BY <2>2, <2>3
<1> QED BY <1>2, <1>3, <1>4, <1>5

\* The inodes added to a group are free.
LEMMA CountGroupKeepsCounts ==
    ASSUME ImageOK, CountsOK, FixInv, CountsInv, CountGroup
    PROVE  CountsInv'
<1>1. /\ pc = "count" /\ pc' = pc /\ i < NumGroups /\ i' = i + 1
      /\ bg_desc' = [bg_desc EXCEPT ![i] = @ + InodesAdded(sb)]
      /\ UNCHANGED <<sbs, bg_descs, torn>>
  BY DEF CountGroup, runVars
<1>2. sb = sbs[0] /\ i \in Nat /\ info \in PerGroups /\ PerGroup \in PerGroups
  BY <1>1 DEF FixInv, SbInv, ProcInv, DiskInv
<1>3. InodesAdded(sb) = NewPerGroup - PerGroup
  BY <1>2, PerGroupsAlign DEF InodesAdded, new_inodes_per_group, PerGroup
<1>4. PerGroup \in Nat /\ NewPerGroup \in Nat /\ OldInodesPerGroup \in Nat
  BY <1>2, PerGroupsAlign, Aligned DEF ImageOK
<1>5. i \in Groups /\ \A h \in Groups : h \in Int /\ FreeInodes[h] \in Nat
  BY <1>1, <1>2, GroupsCounted DEF CountsOK
<1>6. PerGroup' = PerGroup
  BY <1>1 DEF PerGroup
<1> DEFINE B(j) == BgCounted(j, PerGroup)
<1>7. bg_desc = B(i) => bg_desc' = B(i + 1)
  <2> SUFFICES ASSUME bg_desc = B(i) PROVE bg_desc' = B(i + 1)
    OBVIOUS
  <2> USE DEF BgCounted
  <2>1. bg_desc' = [h \in Groups |-> IF h = i THEN B(i)[i] + (NewPerGroup - PerGroup) ELSE B(i)[h]]
    BY <1>1, <1>3
  <2>2. B(i)[i] + (NewPerGroup - PerGroup) = B(i + 1)[i]
    BY <1>2, <1>4, <1>5
  <2>3. ASSUME NEW h \in Groups, h # i PROVE B(i)[h] = B(i + 1)[h]
    <3>1. h < i <=> h < i + 1
      BY <1>2, <1>5, <2>3
    <3> QED BY <3>1
  <2> QED BY <2>1, <2>2, <2>3
<1>8. "write_bg_desc" \notin torn => bg_desc = B(i) /\ bg_descs[0] = BgOf(PerGroup)
  BY <1>1 DEF CountsInv
<1>9. "write_bg_desc" \notin torn => bg_desc' = B(i') /\ bg_descs[0] = BgOf(PerGroup)
  BY <1>1, <1>7, <1>8
<1>10. pc' \notin Updating \ {"count"} /\ ~AsRead' /\ ~AllWritten' /\ pc' # "finished" /\ pc' # "write_bg_desc"
  BY <1>1 DEF AsRead, AllWritten
<1> QED BY <1>1, <1>6, <1>9, <1>10 DEF CountsInv

\* The inodes added to the super block are those added to its groups.
LEMMA UpdateSbKeepsCounts ==
    ASSUME ImageOK, CountsOK, FixInv, CountsInv, UpdateSb, pc' # "failed"
    PROVE  CountsInv'
<1> DEFINE t == NumGroups * InodesAdded(sb)
<1>1. /\ pc = "count" /\ pc' = "write_sb" /\ i = NumGroups /\ i' = 0
      /\ sb' = [sb EXCEPT !.count = @ + t, !.free = @ + t, !.per_group = new_inodes_per_group]
      /\ UNCHANGED <<sbs, bg_descs, bg_desc, torn>>
  BY DEF UpdateSb, Goto, diskVars, runVars
<1>2. sb = sbs[0] /\ info \in PerGroups /\ PerGroup \in PerGroups
  BY <1>1 DEF FixInv, SbInv, ProcInv, DiskInv
<1>3. PerGroup' = PerGroup
  BY <1>1 DEF PerGroup
<1>4. new_inodes_per_group = NewPerGroup /\ t = NumGroups * (NewPerGroup - PerGroup)
  BY <1>2, PerGroupsAlign DEF InodesAdded, new_inodes_per_group, PerGroup
<1> DEFINE u == sbs[0].unmountable
<1>5. sb = SbOf(PerGroup, u)
  BY <1>2 DEF CountsInv
<1>6. sb.count = PerGroup * NumGroups /\ sb.per_group = PerGroup
  BY <1>2, <1>5, RaisedSb
<1>7. sb.count + t = NewPerGroup * NumGroups
  BY <1>2, <1>6, CountsPass
<1>8. sb.free + t = SbOf(NewPerGroup, u).free
  BY <1>2, <1>4, <1>5, RaisedSb
<1> HIDE DEF t, u
<1>9. sb' = SbOf(NewPerGroup, u)
  <2>1. sb = [per_group |-> sb.per_group, count |-> sb.count, free |-> sb.free, unmountable |-> sb.unmountable]
        /\ sb.unmountable = u
    BY <1>5 DEF SbOf
  <2>2. sb' = [per_group |-> NewPerGroup, count |-> sb.count + t, free |-> sb.free + t,
               unmountable |-> sb.unmountable]
    BY <1>1, <1>4, <2>1
  <2>3. SbOf(NewPerGroup, u) = [per_group |-> NewPerGroup, count |-> NewPerGroup * NumGroups,
                                free |-> SbOf(NewPerGroup, u).free, unmountable |-> u]
    BY DEF SbOf
  <2> QED BY <1>7, <1>8, <2>1, <2>2, <2>3
<1>10. sb'.unmountable = u
  BY <1>9 DEF SbOf
<1>11. /\ i' < NumGroups /\ \A g \in SuperGroups : ~(g < i')
  BY <1>1, GroupsCounted DEF CountsOK
<1>12. "write_bg_desc" \notin torn => bg_desc = BgOf(NewPerGroup) /\ bg_descs[0] = BgOf(PerGroup)
  <2>1. \A h \in Groups : h < i
    BY <1>1, GroupsCounted
  <2>2. "write_bg_desc" \notin torn => bg_desc = BgCounted(i, PerGroup)
    BY <1>1 DEF CountsInv
  <2>3. BgCounted(i, PerGroup) = BgOf(NewPerGroup)
    BY <2>1 DEF BgOf, BgCounted
  <2> QED BY <1>1, <2>2, <2>3 DEF CountsInv
<1>13. ~AsRead' /\ ~AllWritten'
  BY <1>1 DEF AsRead, AllWritten
<1> QED BY <1>1, <1>3, <1>9, <1>10, <1>11, <1>12, <1>13 DEF CountsInv

\* The copies of the super block are written in the order of the groups.
LEMMA WriteSbKeepsCounts ==
    ASSUME ImageOK, CountsOK, FixInv, CountsInv, WriteSb
    PROVE  CountsInv'
<1> DEFINE copy == [sb EXCEPT !.unmountable = @ /\ i = 0]
           u == sb.unmountable
<1>1. /\ pc = "write_sb" /\ UNCHANGED <<bg_descs, bg_desc, torn, i>>
      /\ \/ i \in SuperGroups /\ sb' = copy /\ sbs' = [sbs EXCEPT ![i] = copy] /\ pc' = "write_bg_desc"
         \/ i \notin SuperGroups /\ pc' = "next_group" /\ UNCHANGED <<sb, sbs>>
  BY DEF WriteSb, runVars, Goto
<1>2. i \in Nat /\ (i > 0 => PerGroup = NewPerGroup) /\ 0 \in SuperGroups /\ sbs = [g \in SuperGroups |-> sbs[g]]
      /\ NewPerGroup \in PerGroups
  BY <1>1 DEF FixInv, ProcInv, SbInv, DiskInv, ImageOK, PerGroups
<1>3. sb = SbOf(NewPerGroup, u) /\ i < NumGroups
  BY <1>1 DEF CountsInv, Updating
<1>4. copy = SbOf(NewPerGroup, u /\ i = 0)
  BY <1>2, <1>3, RaisedSb
<1>5. copy.unmountable = (u /\ i = 0) /\ copy.per_group = NewPerGroup
  BY <1>4 DEF SbOf
<1> HIDE DEF copy, u
<1>6. sb' = SbOf(NewPerGroup, sb'.unmountable)
  BY <1>1, <1>3, <1>4, <1>5 DEF u
<1>7. ASSUME "write_bg_desc" \notin torn
      PROVE  /\ bg_desc = BgOf(NewPerGroup) /\ bg_descs[0] = BgOf(PerGroup)
             /\ \A g \in SuperGroups \ {0} : g < i => CopyWritten(g)
  BY <1>1, <1>7 DEF CountsInv, Updating
<1>8. ~AsRead' /\ ~AllWritten' /\ pc' \in Updating \ {"count"} /\ pc' # "finished" /\ pc' # "count"
  BY <1>1 DEF AsRead, AllWritten, Updating
<1>9. CASE i \in SuperGroups
  <2>1. sb' = copy /\ sbs' = [sbs EXCEPT ![i] = copy] /\ pc' = "write_bg_desc"
    BY <1>1, <1>9
  <2>2. sbs'[i] = copy /\ \A g \in SuperGroups : g # i => sbs'[g] = sbs[g]
    BY <1>2, <1>9, <2>1
  <2>3. sbs'[0] = SbOf(PerGroup', sbs'[0].unmountable) /\ (i # 0 => PerGroup' = PerGroup)
    <3>1. CASE i = 0
      BY <1>4, <1>5, <2>2, <3>1 DEF PerGroup
    <3>2. CASE i # 0
      BY <1>2, <2>2, <3>2 DEF PerGroup, CountsInv
    <3> QED BY <3>1, <3>2
  <2>4. i # 0 => sbs'[i] = SbOf(NewPerGroup, FALSE)
    BY <1>4, <2>2
  <2>5. "write_bg_desc" \notin torn => \A g \in SuperGroups \ {0} : g < i => CopyWritten(g)'
    <3> SUFFICES ASSUME "write_bg_desc" \notin torn, NEW g \in SuperGroups \ {0}, g < i PROVE CopyWritten(g)'
      OBVIOUS
    <3>1. g # i
      BY <1>2
    <3> QED BY <1>1, <1>7, <2>2, <3>1 DEF CopyWritten
  <2>6. pc' # "next_group"
    BY <2>1
  <2> QED BY <1>1, <1>3, <1>6, <1>7, <1>8, <1>9, <2>1, <2>3, <2>4, <2>5, <2>6 DEF CountsInv
<1>10. CASE i \notin SuperGroups
  <2>1. pc' = "next_group" /\ sbs' = sbs /\ i # 0 /\ PerGroup' = PerGroup
    BY <1>1, <1>2, <1>10 DEF PerGroup
  <2>2. "write_bg_desc" \notin torn => \A g \in SuperGroups \ {0} : g < i => CopyWritten(g)'
    BY <1>1, <1>7, <2>1 DEF CopyWritten
  <2>3. \A g \in SuperGroups : g # i
    BY <1>10
  <2> QED BY <1>1, <1>3, <1>6, <1>7, <1>8, <2>1, <2>2, <2>3 DEF CountsInv
<1> QED BY <1>9, <1>10

\* The descriptors follow their super block.
LEMMA WriteBgDescKeepsCounts ==
    ASSUME ImageOK, CountsOK, FixInv, CountsInv, WriteBgDesc
    PROVE  CountsInv'
<1>1. /\ pc = "write_bg_desc" /\ pc' = "next_group" /\ bg_descs' = [bg_descs EXCEPT ![i] = bg_desc]
      /\ UNCHANGED <<sbs, bg_desc, sb, i, torn>>
  BY DEF WriteBgDesc, Goto, memVars, runVars
<1>2. i \in SuperGroups /\ i \in Nat /\ bg_descs = [g \in SuperGroups |-> bg_descs[g]]
      /\ PerGroup = NewPerGroup /\ PerGroup' = PerGroup
  BY <1>1 DEF CountsInv, FixInv, ProcInv, SbInv, PerGroup
<1>3. bg_descs' = [g \in SuperGroups |-> bg_descs'[g]] /\ bg_descs'[i] = bg_desc
      /\ \A g \in SuperGroups : g # i => bg_descs'[g] = bg_descs[g]
  BY <1>1, <1>2
<1>4. ASSUME "write_bg_desc" \notin torn
      PROVE  /\ bg_desc = BgOf(NewPerGroup) /\ (i # 0 => bg_descs[0] = BgOf(PerGroup))
             /\ \A g \in SuperGroups \ {0} : g < i => CopyWritten(g)
             /\ i # 0 => sbs[i] = SbOf(NewPerGroup, FALSE)
  BY <1>1, <1>4 DEF CountsInv, Updating
<1>5. "write_bg_desc" \notin torn => bg_descs'[0] = BgOf(PerGroup)
  BY <1>2, <1>3, <1>4 DEF ImageOK
<1>6. "write_bg_desc" \notin torn => \A g \in SuperGroups \ {0} : g < i \/ g = i => CopyWritten(g)'
  <2> SUFFICES ASSUME "write_bg_desc" \notin torn, NEW g \in SuperGroups \ {0}, g < i \/ g = i
               PROVE  CopyWritten(g)'
    OBVIOUS
  <2>1. CASE g = i
    BY <1>1, <1>3, <1>4, <2>1 DEF CopyWritten
  <2>2. CASE g # i
    BY <1>1, <1>3, <1>4, <2>2 DEF CopyWritten
  <2> QED BY <2>1, <2>2
<1>7. ~AsRead' /\ ~AllWritten' /\ pc' # "finished" /\ pc' # "count" /\ pc' # "write_bg_desc"
  BY <1>1 DEF AsRead, AllWritten
<1>8. sbs[0] = SbOf(PerGroup, sbs[0].unmountable) /\ sb = SbOf(NewPerGroup, sb.unmountable) /\ i < NumGroups
  BY <1>1 DEF CountsInv, Updating
<1> QED BY <1>1, <1>2, <1>3, <1>4, <1>5, <1>6, <1>7, <1>8 DEF CountsInv

\* After the last group every copy is written.
LEMMA NextGroupKeepsCounts ==
    ASSUME ImageOK, CountsOK, FixInv, CountsInv, NextGroup
    PROVE  CountsInv'
<1>1. /\ pc = "next_group" /\ i' = i + 1 /\ UNCHANGED <<sbs, bg_descs, bg_desc, sb, torn>>
      /\ \/ i + 1 = NumGroups /\ pc' = "set_magic" /\ state' = "unset"
         \/ i + 1 # NumGroups /\ pc' = "write_sb"
  BY DEF NextGroup, Goto, diskVars, runVars
<1>2. i \in Nat /\ i < NumGroups /\ NumGroups \in Nat /\ PerGroup' = PerGroup
      /\ \A g \in SuperGroups : g \in 0 .. NumGroups - 1
  BY <1>1, GroupsCounted DEF CountsInv, FixInv, ProcInv, PerGroup, CountsOK, Updating
<1>3. ASSUME "write_bg_desc" \notin torn
      PROVE  /\ bg_desc = BgOf(NewPerGroup) /\ bg_descs[0] = BgOf(PerGroup)
             /\ \A g \in SuperGroups \ {0} : g < i + 1 => CopyWritten(g)'
  <2>1. bg_desc = BgOf(NewPerGroup) /\ bg_descs[0] = BgOf(PerGroup)
        /\ \A g \in SuperGroups \ {0} : g < i \/ g = i => CopyWritten(g)
    BY <1>1, <1>3 DEF CountsInv, Updating
  <2>2. \A g \in SuperGroups : g < i + 1 => g < i \/ g = i
    BY <1>2
  <2> QED BY <1>1, <2>1, <2>2 DEF CopyWritten
<1>4. sbs[0] = SbOf(PerGroup, sbs[0].unmountable) /\ sb = SbOf(NewPerGroup, sb.unmountable)
      /\ bg_descs = [g \in SuperGroups |-> bg_descs[g]]
  BY <1>1 DEF CountsInv, Updating
<1>5. CASE pc' = "write_sb"
  <2>1. i + 1 < NumGroups /\ ~AsRead' /\ ~AllWritten' /\ pc' # "finished"
    BY <1>1, <1>2, <1>5 DEF AsRead, AllWritten
  <2> QED BY <1>1, <1>2, <1>3, <1>4, <1>5, <2>1 DEF CountsInv
<1>6. CASE pc' = "set_magic"
  <2>1. i + 1 = NumGroups /\ ~AsRead' /\ pc' \notin Updating
    BY <1>1, <1>6 DEF AsRead, Updating
  <2>2. \A g \in SuperGroups : g < i + 1
    BY <1>2, <2>1
  <2> QED BY <1>1, <1>2, <1>3, <1>4, <1>6, <2>1, <2>2 DEF CountsInv
<1> QED BY <1>1, <1>5, <1>6

\* The change of state touches only the mark in the primary super block.
LEMMA SetSbKeepsCounts ==
    ASSUME ImageOK, CountsOK, FixInv, CountsInv, SetSb
    PROVE  CountsInv'
<1>1. pc = "set_sb" /\ sbs' = [sbs EXCEPT ![0].unmountable = state # "unset"]
      /\ pc' = (IF state = "unset" THEN "finished" ELSE "dispatch")
      /\ UNCHANGED <<bg_descs, bg_desc, torn>>
  BY DEF SetSb, memVars, runVars, Goto
<1>2. 0 \in SuperGroups /\ sbs = [g \in SuperGroups |-> sbs[g]] /\ PerGroup \in PerGroups
      /\ sbs[0] = SbOf(PerGroup, sbs[0].unmountable) /\ bg_descs = [g \in SuperGroups |-> bg_descs[g]]
  BY DEF ImageOK, FixInv, DiskInv, CountsInv
<1>3. sbs'[0] = [sbs[0] EXCEPT !.unmountable = state # "unset"]
      /\ \A g \in SuperGroups \ {0} : sbs'[g] = sbs[g]
  BY <1>1, <1>2
<1>4. sbs'[0] = SbOf(PerGroup, state # "unset")
  BY <1>2, <1>3, RaisedSb
<1>5. sbs'[0].unmountable = (state # "unset") /\ PerGroup' = PerGroup
  BY <1>2, <1>4, RaisedSb DEF PerGroup
<1>6. ASSUME "write_bg_desc" \notin torn
      PROVE  /\ bg_descs[0] = BgOf(PerGroup) /\ (state # "unset" => bg_desc = BgOf(PerGroup))
             /\ state = "unset" => \A g \in SuperGroups \ {0} : CopyWritten(g)'
  <2>1. bg_descs[0] = BgOf(PerGroup) /\ (state # "unset" => bg_desc = BgOf(PerGroup))
        /\ (state = "unset" => \A g \in SuperGroups \ {0} : CopyWritten(g))
    BY <1>1, <1>6 DEF CountsInv, AsRead, AllWritten
  <2> QED BY <1>1, <1>3, <2>1 DEF CopyWritten
<1>7. /\ pc' \notin Updating /\ pc' # "count" /\ pc' # "write_bg_desc"
      /\ AsRead' => state # "unset"
      /\ AllWritten' \/ pc' = "finished" => state = "unset"
  BY <1>1 DEF Updating, AsRead, AllWritten
<1> QED BY <1>1, <1>2, <1>4, <1>5, <1>6, <1>7 DEF CountsInv

\* A run that is cut off before it wrote the descriptors is in torn.
LEMMA EndKeepsCounts ==
    ASSUME ImageOK, FixInv, CountsInv, Crash \/ RunAgain \/ UNCHANGED vars
    PROVE  CountsInv'
<1>1. CASE Crash \/ RunAgain
  <2>1. pc' = "stopped" /\ UNCHANGED <<sbs, bg_descs>> /\ torn \subseteq torn'
        /\ (pc = "write_bg_desc" => "write_bg_desc" \in torn')
    BY <1>1 DEF Crash, RunAgain, Stop, Goto, SecondWrites, diskVars
  <2>2. PerGroup' = PerGroup /\ ~AsRead' /\ ~AllWritten' /\ pc' \notin Updating
    BY <2>1 DEF PerGroup, AsRead, AllWritten, Updating
  <2> QED BY <2>1, <2>2 DEF CountsInv
<1>2. CASE UNCHANGED vars
  <2>1. UNCHANGED <<sbs, bg_descs, bg_desc, sb, i, pc, state, torn>>
    BY <1>2 DEF vars, diskVars, memVars, runVars
  <2>2. PerGroup' = PerGroup /\ AsRead' = AsRead /\ AllWritten' = AllWritten
    BY <2>1 DEF PerGroup, AsRead, AllWritten
  <2>3. \A g : CopyWritten(g)' <=> CopyWritten(g)
    BY <2>1 DEF CopyWritten
  <2> QED BY <2>1, <2>2, <2>3 DEF CountsInv
<1> QED BY <1>1, <1>2

\* For every image: a run that reports success leaves in every group that has
\* them the super block and the descriptors that an uninterrupted run leaves,
\* unless a run was cut off between the write of a super block and that of its
\* descriptors (CountsUpdatedUnlessTorn, ext4fixup.c 328-341).
THEOREM FixupCounts ==
    ASSUME ImageOK, CountsOK
    PROVE  Spec => []CountsUpdatedUnlessTorn
<1> DEFINE I == FixInv /\ CountsInv
<1>1. Init => I
  BY FixStarts, CountsStart
<1>2. I /\ [Next]_vars => I'
  <2> SUFFICES ASSUME FixInv, CountsInv, [Next]_vars PROVE FixInv' /\ CountsInv'
    OBVIOUS
  <2>1. FixInv'
    BY FixKept
  <2>2. pc' # "failed"
    BY <2>1 DEF FixInv, ProcInv
  <2>3. CASE Start \/ Dispatch \/ SetMagic
    BY <2>1, <2>3, StepsKeepCounts
  <2>4. CASE Recurse \/ ProcessEntry \/ EndScan \/ WriteBlock \/ PassDone
    BY <2>1, <2>4, PassKeepsCounts
  <2>5. CASE CountGroup \/ UpdateSb \/ WriteSb
    BY <2>1, <2>2, <2>5, CountGroupKeepsCounts, UpdateSbKeepsCounts, WriteSbKeepsCounts
  <2>6. CASE WriteBgDesc \/ NextGroup \/ SetSb
    BY <2>1, <2>6, WriteBgDescKeepsCounts, NextGroupKeepsCounts, SetSbKeepsCounts
  <2>7. CASE Crash \/ RunAgain \/ UNCHANGED vars
    BY <2>1, <2>7, EndKeepsCounts
  <2> QED BY <2>3, <2>4, <2>5, <2>6, <2>7 DEF Next, Proceed
<1>3. ASSUME I PROVE CountsUpdatedUnlessTorn
  <2> SUFFICES ASSUME "write_bg_desc" \notin torn, pc = "finished", NEW g \in SuperGroups
               PROVE  sbs[g] = SbOf(NewPerGroup, FALSE) /\ bg_descs[g] = BgOf(NewPerGroup)
    BY DEF CountsUpdatedUnlessTorn, CountsUpdated, SbOf, BgOf
  <2>1. PerGroup = NewPerGroup /\ IsSb(sbs[0])
    BY <1>3 DEF FixInv, ProcInv, DiskInv
  <2>2. sbs[0].unmountable = FALSE
    BY <1>3, <2>1 DEF CountsInv, IsSb
  <2>3. sbs[0] = SbOf(NewPerGroup, FALSE) /\ bg_descs[0] = BgOf(NewPerGroup)
    BY <1>3, <2>1, <2>2 DEF CountsInv
  <2>4. g # 0 => CopyWritten(g)
    BY <1>3 DEF CountsInv, AllWritten
  <2> QED BY <2>3, <2>4 DEF CopyWritten
<1> QED BY <1>1, <1>2, <1>3, PTL DEF Spec
=============================================================================
