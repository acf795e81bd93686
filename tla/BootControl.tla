----------------------------- MODULE BootControl -----------------------------
(***************************************************************************)
(* The boot_control HAL that emulates A/B slots by copying boot_a or       *)
(* boot_b to the boot partition, and bootctl, the command that calls it.   *)
(* The active slot and its suffix are kept in the misc partition.  A call  *)
(* may fail or be cut short by a crash at every access to a partition.     *)
(***************************************************************************)
EXTENDS Integers, Sequences

CONSTANTS
    Blocks,        \* the number of blocks of a boot partition
    Silent,        \* whether a failing call may leave errno at 0
    MaxUpdates, MaxCalls

VARIABLES
    misc,          \* BrilloBootInfo on the misc partition
    boot, image,   \* the contents of boot, and of boot_a and boot_b
    running,       \* the slot whose system partition is mounted
    pc, op, info, copied,   \* the command that runs and its local state
    exit,          \* the exit status of bootctl: "none" while it runs
    updates, calls

call == <<pc, op, info, copied, exit>>
vars == <<misc, boot, image, running, call, updates, calls>>

Slot == 0 .. 1
NoSlot == 2
Commands == {"set-active-boot-slot", "set-slot-as-unbootable", "is-slot-bootable", "get-current-slot",
             "mark-boot-successful", "get-number-slots", "get-suffix"}
----------------------------------------------------------------------------
(* BrilloBootInfo. *)

boot_info_reset == [magic |-> TRUE, suffix |-> NoSlot, active_slot |-> 0, bootable |-> [s \in Slot |-> FALSE]]

boot_info_validate(i) == i.magic /\ i.active_slot \in Slot

\* What the module works on: the information on the partition, if it could be
\* read and is valid.
Loaded(reads) == IF reads /\ boot_info_validate(misc) THEN misc ELSE boot_info_reset
----------------------------------------------------------------------------
(* handle_return: the HAL reports success for 0 and bootctl exits with EX_OK. *)

Return(ok) == pc' = "idle" /\ exit' = IF ok THEN "ok" ELSE "failed"

\* -errno is 0, a success, when the failed call has not set errno.
ReturnErrno == \E errno \in (IF Silent THEN {0, 1} ELSE {1}) : Return(errno = 0)

\* The calls that change nothing.
Answer(c, slot, reads) ==
    c = "is-slot-bootable" => slot \in Slot /\ Loaded(reads).bootable[slot]

Command(c, slot, reads) ==
    /\ pc = "idle" /\ calls < MaxCalls /\ calls' = calls + 1
    /\ op' = [command |-> c, slot |-> slot]
    /\ IF c \in {"set-active-boot-slot", "set-slot-as-unbootable"} /\ slot \in Slot
       THEN pc' = "save" /\ info' = Loaded(reads) /\ exit' = "none"
       ELSE Return(c \notin {"set-active-boot-slot", "set-slot-as-unbootable"} /\ Answer(c, slot, reads))
            /\ UNCHANGED info
    /\ copied' = 0
    /\ UNCHANGED <<misc, boot, image, running, updates>>

\* The changes to the information: of module_setActiveBootSlot and of
\* module_setSlotAsUnbootable.
Changed ==
    IF op.command = "set-active-boot-slot"
    THEN [info EXCEPT !.active_slot = op.slot, !.bootable[op.slot] = TRUE, !.suffix = op.slot]
    ELSE [info EXCEPT !.bootable[op.slot] = FALSE]

\* boot_info_save; 32 bytes are written whole or not at all.
Save(saves) ==
    /\ pc = "save"
    /\ info' = Changed
    /\ IF saves THEN /\ misc' = info'
                     /\ IF op.command = "set-active-boot-slot" THEN pc' = "open" /\ UNCHANGED exit ELSE Return(TRUE)
                ELSE ReturnErrno /\ UNCHANGED misc
    /\ UNCHANGED <<boot, image, running, op, copied, updates, calls>>

\* boot_info_open_partition of both partitions; that their sizes differ is an
\* error of its own.
Open(how) ==
    /\ pc = "open"
    /\ CASE how = "opened" -> pc' = "copy" /\ UNCHANGED exit
         [] how = "failed" -> ReturnErrno
         [] how = "sizes differ" -> Return(FALSE)
    /\ UNCHANGED <<misc, boot, image, running, op, info, copied, updates, calls>>

\* Mutant: the last, partial buffer is not copied.
WholeBuffers == Blocks - 1

Size == Blocks

\* copy_data, a block at a time, and fsync.
Copy(works) ==
    /\ pc = "copy"
    /\ IF works /\ copied < Size
       THEN /\ boot' = [boot EXCEPT ![copied + 1] = image[op.slot][copied + 1]]
            /\ copied' = copied + 1
            /\ UNCHANGED <<pc, exit>>
       ELSE /\ IF works THEN Return(TRUE) ELSE ReturnErrno
            /\ UNCHANGED <<boot, copied>>
    /\ UNCHANGED <<misc, image, running, op, info, updates, calls>>
----------------------------------------------------------------------------
(* Around the HAL. *)

\* The power fails while the command runs, or the device is rebooted after it.
Reboot ==
    /\ running' = IF misc.suffix \in Slot THEN misc.suffix ELSE running
    /\ pc' = "idle" /\ exit' = "none"
    /\ op' = [command |-> "none", slot |-> NoSlot]
    /\ UNCHANGED <<misc, boot, image, info, copied, updates, calls>>

\* An update is written to the slot that is not running.
Update ==
    /\ pc = "idle" /\ updates < MaxUpdates /\ updates' = updates + 1
    /\ image' = [image EXCEPT ![1 - running] = [b \in 1 .. Blocks |-> 10 + updates]]
    /\ exit' = "none"
    /\ UNCHANGED <<misc, boot, running, pc, op, info, copied, calls>>

Init ==
    /\ image = [s \in Slot |-> [b \in 1 .. Blocks |-> s]]
    /\ running = 0 /\ boot = image[0]
    /\ misc \in {[boot_info_reset EXCEPT !.magic = m, !.suffix = 0, !.bootable[0] = TRUE] : m \in BOOLEAN}
    /\ pc = "idle" /\ op = [command |-> "none", slot |-> NoSlot] /\ info = boot_info_reset /\ copied = 0
    /\ exit = "none" /\ updates = 0 /\ calls = 0

Next ==
    \/ \E c \in Commands, s \in 0 .. NoSlot, b \in BOOLEAN : Command(c, s, b)
    \/ \E b \in BOOLEAN : Save(b) \/ Copy(b)
    \/ \E how \in {"opened", "failed", "sizes differ"} : Open(how)
    \/ Reboot \/ Update

Spec == Init /\ [][Next]_vars
----------------------------------------------------------------------------
\* "set-active-boot-slot SLOT - On next boot, load and execute SLOT.": when
\* bootctl exits with EX_OK, the boot partition holds the whole image of the
\* slot, and the information on misc names it, whatever a crash or a failure
\* of an earlier call left on both.
SwitchedWhenOk ==
    exit = "ok" /\ op.command = "set-active-boot-slot" =>
        /\ boot = image[op.slot]
        /\ misc.magic /\ misc.suffix = op.slot /\ misc.active_slot = op.slot /\ misc.bootable[op.slot]
============================================================================
