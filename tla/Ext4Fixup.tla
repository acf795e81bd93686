------------------------------- MODULE Ext4Fixup -------------------------------
(***************************************************************************)
(* ext4fixup: raise the number of inodes per block group to a whole number *)
(* of inode-table blocks, on a file system image that is changed in place, *)
(* and survive being stopped and restarted.  Every inode number in every   *)
(* directory has to become the number of the same inode under the new      *)
(* inodes per group; the high bit of an entry tells the numbers still to   *)
(* be converted from the ones already converted.                           *)
(*                                                                         *)
(* The disk is what a crash leaves; every write to it is a step, and they  *)
(* reach it in program order.  An inode is named by its place              *)
(* <<group, offset>>, which never changes; a directory's content is a flat *)
(* sequence of entries, and BlockOf says which block holds each of them.   *)
(***************************************************************************)
EXTENDS Integers, Sequences

CONSTANTS
    Groups,           \* block groups, 0 to the last
    SuperGroups,      \* groups with a copy of super block and descriptors
    OldInodesPerGroup,
    InodesPerBlock,   \* block_size / inode_size
    Content,          \* directory -> its entries on the image to be fixed
    BlockOf,          \* directory -> the block of each of its entries
    ShortRecLen,      \* directories whose last rec_len is too short
    StrayBits,        \* groups with bits set past the end of the inode bitmap
    FreeInodes,       \* group -> free inodes
    MaxRuns           \* bound: how often the tool is started

Dirs == DOMAIN Content

\* EXT4_ROOT_INO is 2.
Root == <<0, 1>>

\* sb.s_inodes_count of the image to be fixed.
OldInodesCount == OldInodesPerGroup * (1 + CHOOSE g \in Groups : \A h \in Groups : h <= g)

VARIABLES
    \* the disk
    magic,     \* the fixup state in the boot sector
    sbs,       \* the super block in every group that has one
    bg_descs,  \* the descriptors (free inodes) next to every super block
    dirs,      \* directory -> its entries
    short,     \* directories with a short rec_len
    stray,     \* groups with stray bits in the inode bitmap
    \* the process
    pc,
    state,     \* the argument of set_fs_fixup_state
    mode,      \* the mode of recurse_dir
    stack,     \* its activations, the root's first
    info,      \* inodes_per_group as read at the start
    bg_desc,   \* aux_info.bg_desc
    sb,        \* sb of update_superblocks_and_bg_desc
    i,         \* its loop variable
    runs,      \* how often the tool was started
    torn       \* history: the pairs of writes that a run was cut off in

diskVars == <<magic, sbs, bg_descs, dirs, short, stray>>
memVars == <<state, mode, stack, info, bg_desc, sb, i>>
runVars == <<runs, torn>>
vars == <<diskVars, pc, memVars, runVars>>

Align(n) == ((n + InodesPerBlock - 1) \div InodesPerBlock) * InodesPerBlock

new_inodes_per_group == Align(info)

NumGroups == OldInodesCount \div OldInodesPerGroup

InodePlace(inum, per_group) == <<(inum - 1) \div per_group, (inum - 1) % per_group>>

InodeNumber(place, per_group) == place[1] * per_group + place[2] + 1

compute_new_inum(old) == InodeNumber(InodePlace(old, info), new_inodes_per_group)

\* read_inode finds an inode by the inodes per group of the super block.
InodeOf(inum) == InodePlace(inum, info)

-----------------------------------------------------------------------------
NoSb == [per_group |-> 0, count |-> 0, free |-> 0, unmountable |-> FALSE]

TotalFree(f) ==
    LET Sum[g \in Groups] == f[g] + (IF g = 0 THEN 0 ELSE Sum[g - 1])
    IN  Sum[NumGroups - 1]

Init ==
    /\ magic = "unset"
    /\ sbs = [g \in SuperGroups |->
                [per_group |-> OldInodesPerGroup, count |-> OldInodesCount,
                 free |-> TotalFree(FreeInodes), unmountable |-> FALSE]]
    /\ bg_descs = [g \in SuperGroups |-> FreeInodes]
    /\ dirs = Content
    /\ short = ShortRecLen
    /\ stray = StrayBits
    /\ pc = "stopped"
    /\ state = "unset"
    /\ mode = "sanity"
    /\ stack = <<>>
    /\ info = 0
    /\ bg_desc = FreeInodes
    /\ sb = NoSb
    /\ i = 0
    /\ runs = 0
    /\ torn = {}

Labels ==
    {"stopped", "dispatch", "scan", "write_block", "pass_done", "count", "write_sb",
     "write_bg_desc", "next_group", "set_magic", "set_sb", "finished", "failed"}

Goto(label) == pc' = label

\* An activation of recurse_dir that has read its directory d.
Frame(d) ==
    [dir |-> d, buf |-> dirs[d], short |-> d \in short, pos |-> 1,
     recursed |-> FALSE, block |-> 1]

Top == stack[Len(stack)]

SetTop(f) == stack' = [stack EXCEPT ![Len(stack)] = f]

NumBlocks(d) == BlockOf[d][Len(BlockOf[d])]

StartPass(m) ==
    /\ mode' = m
    /\ stack' = <<Frame(Root)>>
    /\ Goto("scan")

\* ext4fixup_internal up to the first look at the fixup state: read_ext reads
\* the primary super block and its descriptors.
Start ==
    /\ pc = "stopped"
    /\ runs < MaxRuns
    /\ runs' = runs + 1
    /\ info' = sbs[0].per_group
    /\ bg_desc' = bg_descs[0]
    /\ Goto("dispatch")
    /\ UNCHANGED <<diskVars, state, mode, stack, sb, i, torn>>

\* The if statements on get_fs_fixup_state, in the order of the states.
Dispatch ==
    /\ pc = "dispatch"
    /\ \/ magic = "unset" /\ StartPass("sanity") /\ UNCHANGED <<sb, i>>
       \/ magic = "marking" /\ StartPass("mark") /\ UNCHANGED <<sb, i>>
       \/ magic = "updating_inums" /\ StartPass("update") /\ UNCHANGED <<sb, i>>
       \/ /\ magic = "updating_sb"
          /\ sb' = sbs[0]
          /\ i' = 0
          /\ Goto("count")
          /\ UNCHANGED <<mode, stack>>
    /\ UNCHANGED <<diskVars, state, info, bg_desc, runVars>>

-----------------------------------------------------------------------------
(* recurse_dir.                                                            *)

AtEnd(f) == f.pos > Len(f.buf)

\* is_entry_dir: the type of the entry, or of the inode if it is unknown.
IsEntryDir(e) ==
    \/ e.type = "dir"
    \/ /\ e.type = "unknown"
       /\ mode = "update" => e.high
       /\ InodeOf(e.inode) \in Dirs

MustRecurse(e) ==
    /\ IsEntryDir(e)
    /\ e.name \notin {".", ".."}
    /\ mode = "update" => e.high

\* Mutant: the update does not look at the high bit.
ProcessedAgain(e) ==
    CASE mode = "mark" -> [e EXCEPT !.high = TRUE]
      [] mode = "update" -> [e EXCEPT !.inode = compute_new_inum(@), !.high = FALSE]
      [] OTHER -> e

\* Process entry: mark it or give it its new number.
Processed(e) ==
    CASE mode = "mark" -> [e EXCEPT !.high = TRUE]
      [] mode = "update" /\ e.high -> [e EXCEPT !.inode = compute_new_inum(@), !.high = FALSE]
      [] OTHER -> e

Recurse ==
    /\ pc = "scan"
    /\ ~AtEnd(Top)
    /\ ~Top.recursed
    /\ LET e == Top.buf[Top.pos]
       IN  /\ MustRecurse(e)
           /\ IF InodeOf(e.inode) \in Dirs
              THEN /\ stack' = Append(stack, Frame(InodeOf(e.inode)))
                   /\ UNCHANGED pc
              ELSE Goto("failed") /\ UNCHANGED stack
    /\ UNCHANGED <<diskVars, state, mode, info, bg_desc, sb, i, runVars>>

ProcessEntry ==
    /\ pc = "scan"
    /\ ~AtEnd(Top)
    /\ LET e == Top.buf[Top.pos]
       IN  /\ Top.recursed \/ ~MustRecurse(e)
           /\ SetTop([Top EXCEPT !.buf[Top.pos] = Processed(e), !.pos = @ + 1,
                                 !.recursed = FALSE])
    /\ UNCHANGED <<diskVars, pc, state, mode, info, bg_desc, sb, i, runVars>>

\* After the last entry: repair a short rec_len, except in the marking pass.
EndScan ==
    /\ pc = "scan"
    /\ AtEnd(Top)
    /\ SetTop([Top EXCEPT !.short = @ /\ mode = "mark"])
    /\ Goto("write_block")
    /\ UNCHANGED <<diskVars, state, mode, info, bg_desc, sb, i, runVars>>

\* The entries of d on disk once the block of f has been written.
WithBlock(f, k) ==
    [n \in DOMAIN f.buf |-> IF BlockOf[f.dir][n] = k THEN f.buf[n] ELSE dirs[f.dir][n]]

\* recurse_dir returns to the activation below.
Return ==
    IF Len(stack) = 1
    THEN stack' = <<>> /\ Goto("pass_done")
    ELSE /\ stack' = [n \in 1 .. Len(stack) - 1 |->
                        IF n = Len(stack) - 1 THEN [stack[n] EXCEPT !.recursed = TRUE]
                                              ELSE stack[n]]
         /\ Goto("scan")

WriteBlock ==
    /\ pc = "write_block"
    /\ LET d == Top.dir
           last == Top.block = NumBlocks(d)
       IN  /\ IF mode = "sanity"     \* no_write
              THEN UNCHANGED <<dirs, short>>
              ELSE /\ dirs' = [dirs EXCEPT ![d] = WithBlock(Top, Top.block)]
                   /\ short' = IF last /\ ~Top.short THEN short \ {d} ELSE short
           /\ IF last THEN Return ELSE SetTop([Top EXCEPT !.block = @ + 1]) /\ UNCHANGED pc
    /\ UNCHANGED <<magic, sbs, bg_descs, stray, state, mode, info, bg_desc, sb, i, runVars>>

-----------------------------------------------------------------------------
(* update_superblocks_and_bg_desc.                                         *)

InodesAdded(s) == new_inodes_per_group - s.per_group

CountsAreSane(s) ==
    /\ s.count + NumGroups * InodesAdded(s) = new_inodes_per_group * NumGroups
    /\ new_inodes_per_group % InodesPerBlock = 0

\* Mutant: the state after the marking pass is not set.
PassDoneStaysMarking ==
    /\ pc = "pass_done"
    /\ state' = IF mode = "update" THEN "updating_sb" ELSE "marking"
    /\ Goto("set_magic")
    /\ UNCHANGED <<diskVars, mode, stack, info, bg_desc, sb, i, runVars>>

\* After a pass, recurse_dir has returned 0 and the next state is set; the
\* sanity check also tries the update of the super block without writing.
PassDone ==
    /\ pc = "pass_done"
    /\ IF mode = "sanity" /\ ~CountsAreSane(sbs[0])
       THEN Goto("failed") /\ UNCHANGED state
       ELSE /\ state' = CASE mode = "sanity" -> "marking"
                          [] mode = "mark" -> "updating_inums"
                          [] mode = "update" -> "updating_sb"
            /\ Goto("set_magic")
    /\ UNCHANGED <<diskVars, mode, stack, info, bg_desc, sb, i, runVars>>

\* One group: add to its free inodes and clear the padding of its bitmap,
\* which is empty if the super block has the new number already.
CountGroup ==
    /\ pc = "count"
    /\ i < NumGroups
    /\ bg_desc' = [bg_desc EXCEPT ![i] = @ + InodesAdded(sb)]
    /\ stray' = IF info < new_inodes_per_group THEN stray \ {i} ELSE stray
    /\ i' = i + 1
    /\ UNCHANGED <<magic, sbs, bg_descs, dirs, short, pc, state, mode, stack, info, sb, runVars>>

UpdateSb ==
    /\ pc = "count"
    /\ i = NumGroups
    /\ LET total_new_inodes == NumGroups * InodesAdded(sb)
       IN  IF CountsAreSane(sb)
           THEN /\ sb' = [sb EXCEPT !.count = @ + total_new_inodes,
                                    !.free = @ + total_new_inodes,
                                    !.per_group = new_inodes_per_group]
                /\ Goto("write_sb")
           ELSE Goto("failed") /\ UNCHANGED sb
    /\ i' = 0
    /\ UNCHANGED <<diskVars, state, mode, stack, info, bg_desc, runVars>>

WriteSb ==
    /\ pc = "write_sb"
    /\ IF i \in SuperGroups
       THEN LET copy == [sb EXCEPT !.unmountable = @ /\ i = 0]
            IN  /\ sb' = copy
                /\ sbs' = [sbs EXCEPT ![i] = copy]
                /\ Goto("write_bg_desc")
       ELSE Goto("next_group") /\ UNCHANGED <<sb, sbs>>
    /\ UNCHANGED <<magic, bg_descs, dirs, short, stray, state, mode, stack, info, bg_desc,
                   i, runVars>>

\* Mutant: only the primary descriptors are written.
WritePrimaryBgDesc ==
    /\ pc = "write_bg_desc"
    /\ bg_descs' = IF i = 0 THEN [bg_descs EXCEPT ![i] = bg_desc] ELSE bg_descs
    /\ Goto("next_group")
    /\ UNCHANGED <<magic, sbs, dirs, short, stray, memVars, runVars>>

WriteBgDesc ==
    /\ pc = "write_bg_desc"
    /\ bg_descs' = [bg_descs EXCEPT ![i] = bg_desc]
    /\ Goto("next_group")
    /\ UNCHANGED <<magic, sbs, dirs, short, stray, memVars, runVars>>

NextGroup ==
    /\ pc = "next_group"
    /\ i' = i + 1
    /\ IF i + 1 = NumGroups
       THEN Goto("set_magic") /\ state' = "unset"
       ELSE Goto("write_sb") /\ UNCHANGED state
    /\ UNCHANGED <<diskVars, mode, stack, info, bg_desc, sb, runVars>>

-----------------------------------------------------------------------------
(* set_fs_fixup_state: two writes.                                         *)

SetMagic ==
    /\ pc = "set_magic"
    /\ magic' = state
    /\ Goto("set_sb")
    /\ UNCHANGED <<sbs, bg_descs, dirs, short, stray, memVars, runVars>>

\* Mutant: the marking pass leaves the file system mountable.
SetSbAfterMarking ==
    /\ pc = "set_sb"
    /\ sbs' = [sbs EXCEPT ![0].unmountable = state \notin {"unset", "marking"}]
    /\ Goto(IF state = "unset" THEN "finished" ELSE "dispatch")
    /\ UNCHANGED <<magic, bg_descs, dirs, short, stray, memVars, runVars>>

SetSb ==
    /\ pc = "set_sb"
    /\ sbs' = [sbs EXCEPT ![0].unmountable = state # "unset"]
    /\ Goto(IF state = "unset" THEN "finished" ELSE "dispatch")
    /\ UNCHANGED <<magic, bg_descs, dirs, short, stray, memVars, runVars>>

-----------------------------------------------------------------------------
\* What a process that is gone has in memory.
Stop ==
    /\ Goto("stopped")
    /\ state' = "unset"
    /\ mode' = "sanity"
    /\ stack' = <<>>
    /\ info' = 0
    /\ bg_desc' = FreeInodes
    /\ sb' = NoSb
    /\ i' = 0
    /\ UNCHANGED <<diskVars, runs>>

\* The second writes of set_fs_fixup_state and of a super block with its
\* descriptors.
SecondWrites == {"set_sb", "write_bg_desc"}

\* The run is cut off; there is a run left to finish the work.
Crash ==
    /\ pc \in Labels \ {"stopped", "finished", "failed"}
    /\ runs < MaxRuns
    /\ Stop
    /\ torn' = torn \cup ({pc} \cap SecondWrites)

\* The tool is run again on an image it has finished.
RunAgain ==
    /\ pc = "finished"
    /\ runs < MaxRuns
    /\ Stop
    /\ UNCHANGED torn

Proceed ==
    \/ Start
    \/ Dispatch
    \/ Recurse
    \/ ProcessEntry
    \/ EndScan
    \/ WriteBlock
    \/ PassDone
    \/ CountGroup
    \/ UpdateSb
    \/ WriteSb
    \/ WriteBgDesc
    \/ NextGroup
    \/ SetMagic
    \/ SetSb

Next == Proceed \/ Crash \/ RunAgain

\* Started again after a crash, the tool runs; nobody has to crash it.
Spec == Init /\ [][Next]_vars /\ WF_vars(Proceed)

-----------------------------------------------------------------------------
\* The inode an entry of the original image names.
Target(d, n) == InodePlace(Content[d][n].inode, OldInodesPerGroup)

NewPerGroup == Align(OldInodesPerGroup)

\* An entry names its inode, under the numbering its high bit and the state of
\* the update say it is in.
NamesItsInode(d, n, per_group) ==
    dirs[d][n].inode = InodeNumber(Target(d, n), per_group)

\* A run that reports success leaves every directory entry with the new number
\* of the inode it always named, the rec_len repaired and no stray bit, however
\* often and wherever the runs before it were cut off (ext4fixup.c 779-811).
EntriesRenumbered ==
    pc = "finished" =>
        /\ \A d \in Dirs : \A n \in DOMAIN dirs[d] :
            /\ ~dirs[d][n].high
            /\ NamesItsInode(d, n, NewPerGroup)
        /\ short = {}
        /\ (NewPerGroup # OldInodesPerGroup => stray = {})

\* "ability to stop and be restarted wthout error" (ext4fixup.c 67): a run that
\* reports success leaves the super blocks and the descriptors of the image an
\* uninterrupted run leaves; test_ext4fixup compares the two images.
CountsUpdated ==
    pc = "finished" =>
        LET added == NewPerGroup - OldInodesPerGroup
        IN  \A g \in SuperGroups :
                /\ sbs[g] = [per_group |-> NewPerGroup,
                             count |-> NewPerGroup * NumGroups,
                             free |-> TotalFree(FreeInodes) + added * NumGroups,
                             unmountable |-> FALSE]
                /\ bg_descs[g] = [h \in Groups |-> FreeInodes[h] + added]

\* The same for runs that were not cut off between the write of a super block
\* and that of its descriptors (ext4fixup.c 328-341).
CountsUpdatedUnlessTorn == "write_bg_desc" \notin torn => CountsUpdated

\* "If we are in the process of updating the filesystem, make it unmountable"
\* (ext4fixup.c 157): while an entry is marked, or some are renumbered and some
\* are not, or the super block does not match them, the primary super block
\* cannot be mounted, unless a run was cut off between the write of the state
\* and that of the super block (ext4fixup.c 150-163).
UnmountableWhileUpdating ==
    "set_sb" \notin torn /\ ~sbs[0].unmountable =>
        \A d \in Dirs : \A n \in DOMAIN dirs[d] :
            ~dirs[d][n].high /\ NamesItsInode(d, n, sbs[0].per_group)

\* recurse_dir only ever descends into the directory that the entry named on
\* the original image: a number already converted is never looked up with the
\* old inodes per group (ext4fixup.c 606-618, 508-513).  So no restart runs into
\* a critical_error.
DescendsRight ==
    /\ \A n \in 1 .. Len(stack) - 1 : stack[n + 1].dir = Target(stack[n].dir, stack[n].pos)
    /\ pc # "failed"
=============================================================================
