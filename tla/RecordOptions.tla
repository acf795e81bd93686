---------------------------- MODULE RecordOptions ----------------------------
(***************************************************************************)
(* The options of simpleperf record and stat, and the event attributes     *)
(* they lead to (cmd_record.cpp, cmd_stat.cpp, event_selection_set.cpp,    *)
(* event_type.cpp).                                                        *)
(*                                                                         *)
(* An option is a record [opt, arg]; the words of a name, a file or a pid  *)
(* are abstracted to whether the code accepts them. An event is            *)
(* [type, modifier], its name the two together; the modifier is a sequence *)
(* of characters.                                                          *)
(***************************************************************************)
EXTENDS Integers, Sequences, FiniteSets, SequencesExt, FiniteSetsExt, TLC

CONSTANTS
    Alphabet,     \* the options that may be given, a sequence
    MaxOptions,   \* how many of them
    EventTypes,   \* [name -> kind] of the event types of the device
    Supported     \* what the kernel supports: "branch", "dwarf", "clockid", "regs"

VARIABLES
    cmd,       \* "record" or "stat"
    args,      \* the options parsed so far
    o,         \* the settings of the command
    groups,    \* the event selections: a sequence of sequences of attributes
    waiting,   \* wait_setting_speed_event_groups_
    pc

vars == <<cmd, args, o, groups, waiting, pc>>

NoSpeed == <<>>

\* RecordCommand's and StatCommand's constructors.
Init ==
    /\ cmd \in {"record", "stat"}
    /\ args = <<>> /\ groups = <<>> /\ waiting = <<>> /\ pc = "parse"
    /\ o = [system_wide |-> FALSE, app |-> FALSE, branch |-> {}, speed |-> NoSpeed, fp |-> FALSE, dwarf |-> FALSE,
            stack |-> 65528, clockid |-> "perf", inherit |-> TRUE, unwind |-> TRUE, post_unwind |-> FALSE,
            joiner |-> TRUE, targets |-> FALSE, offcpu |-> FALSE, symbols |-> TRUE, kernel_symbols |-> TRUE,
            pages |-> 0, workload |-> FALSE, exclude_kernel_callchain |-> FALSE]
----------------------------------------------------------------------------
(* EventSelectionSet::AddEventGroup *)

\* ParseEventType: any of u, k and h excludes the other modes.
Excluded(modifier) ==
    IF ToSet(modifier) \cap {"u", "k", "h"} = {} THEN {} ELSE {"u", "k", "h"} \ ToSet(modifier)

DefaultSpeed(type) ==
    IF cmd = "stat" THEN NoSpeed
    ELSE IF EventTypes[type] = "tracepoint" THEN <<"-c", 1>> ELSE <<"-f", 4000>>

\* CreateDefaultPerfEventAttr
Attr(e) ==
    [event |-> e, exclude |-> Excluded(e.modifier), speed |-> DefaultSpeed(e.type),
     sample_type |-> {"IP", "TID", "TIME", "PERIOD", "CPU", "ID"}
                     \cup IF EventTypes[e.type] = "tracepoint" THEN {"RAW"} ELSE {},
     sample_id_all |-> FALSE, branch |-> {}, exclude_callchain_user |-> FALSE, stack |-> 0, inherit |-> FALSE,
     clockid |-> "perf", enable_on_exec |-> FALSE, mmap_data |-> FALSE]

EachAttr(Change(_), gs) == [g \in DOMAIN gs |-> [i \in DOMAIN gs[g] |-> Change(gs[g][i])]]

Attrs(gs) == UNION {ToSet(gs[g]) : g \in DOMAIN gs}

\* BuildAndCheckEventSelection compares with the groups added before, not with the
\* events of the same group.
Refused(e) ==
    \/ e.type \notin DOMAIN EventTypes
    \/ cmd = "stat" /\ EventTypes[e.type] = "clock" /\ Excluded(e.modifier) # {}
    \/ \E a \in Attrs(groups) : a.event = e

UnionSampleType(gs) ==
    EachAttr(LAMBDA a : [a EXCEPT !.sample_type = UNION {b.sample_type : b \in Attrs(gs)}], gs)

WithGroup(gs, events) == UnionSampleType(Append(gs, [i \in DOMAIN events |-> Attr(events[i])]))

SetSampleSpeed(gs, ids, speed) ==
    [g \in DOMAIN gs |-> IF g \in ids THEN [i \in DOMAIN gs[g] |-> [gs[g][i] EXCEPT !.speed = speed]] ELSE gs[g]]
----------------------------------------------------------------------------
(* ParseOptions *)

Fail == pc' = "error" /\ UNCHANGED <<o, groups, waiting>>
Set(settings) == o' = settings @@ o /\ UNCHANGED <<groups, waiting, pc>>

\* Mutant: the groups that waited for a speed go on waiting.
StillWaiting == waiting

AfterSpeed == <<>>

\* -c and -f set the speed of the groups that have none yet, and of those that follow.
SpeedOption(opt, value) ==
    IF value < 1 \/ cmd = "stat" THEN Fail
    ELSE /\ o' = [o EXCEPT !.speed = <<opt, value>>]
         /\ groups' = SetSampleSpeed(groups, ToSet(waiting), <<opt, value>>)
         /\ waiting' = AfterSpeed
         /\ UNCHANGED pc

\* --group adds one group; -e one group for each event, up to the first refused.
RECURSIVE Added(_, _)
Added(gs, lists) ==
    IF lists = <<>> THEN gs
    ELSE Added(SetSampleSpeed(WithGroup(gs, lists[1]), IF o.speed = NoSpeed THEN {} ELSE {Len(gs) + 1}, o.speed), Tail(lists))

AddEvents(lists) ==
    LET events == FlattenSeq(lists)
        twice  == \E i, j \in DOMAIN lists : i < j /\ ToSet(lists[i]) \cap ToSet(lists[j]) # {}
    IN  IF twice \/ \E i \in DOMAIN events : Refused(events[i]) THEN Fail
        ELSE /\ groups' = Added(groups, lists)
             /\ waiting' = IF o.speed # NoSpeed \/ cmd = "stat" THEN waiting
                           ELSE waiting \o [i \in DOMAIN lists |-> Len(groups) + i]
             /\ UNCHANGED <<o, pc>>

\* fp, or dwarf with the size of the stack to dump if one is given.
CallGraph(arg) ==
    CASE arg[1] = "fp" -> Set([fp |-> TRUE, dwarf |-> FALSE])
      [] arg[1] = "dwarf" /\ Len(arg) = 1 -> Set([fp |-> FALSE, dwarf |-> TRUE])
      [] arg[1] = "dwarf" /\ Len(arg) = 2 ->
            IF arg[2] % 8 # 0 \/ arg[2] >= 65528 THEN Fail
            ELSE Set([fp |-> FALSE, dwarf |-> TRUE, stack |-> arg[2]])
      [] OTHER -> Fail

\* The options that set a field, or fail on an argument that is not accepted.
RecordOnly(opt, arg) ==
    CASE opt = "-b"             -> Set([branch |-> {"any"}])
      [] opt = "-j"             -> IF arg \subseteq {"any", "any_call", "any_ret", "ind_call", "u", "k"}
                                   THEN Set([branch |-> o.branch \cup arg]) ELSE Fail
      [] opt = "-g"             -> Set([fp |-> FALSE, dwarf |-> TRUE])
      [] opt = "--clockid"      -> IF arg # "perf" /\ ("clockid" \notin Supported \/ arg # "monotonic") THEN Fail
                                   ELSE Set([clockid |-> arg])
      [] opt = "-m"             -> IF \E k \in 0 .. 10 : arg = 2 ^ k THEN Set([pages |-> arg]) ELSE Fail
      [] opt = "--no-unwind"    -> Set([unwind |-> FALSE])
      [] opt = "--post-unwind"  -> Set([post_unwind |-> arg])
      [] opt = "--no-callchain-joiner"      -> Set([joiner |-> FALSE])
      [] opt = "--no-dump-symbols"          -> Set([symbols |-> FALSE])
      [] opt = "--no-dump-kernel-symbols"   -> Set([kernel_symbols |-> FALSE])
      [] opt = "--trace-offcpu" -> Set([offcpu |-> TRUE])
      [] OTHER                  -> Fail

Both == {"-a", "--app", "-p", "-t", "--no-inherit"}

Flag(opt) ==
    CASE opt = "-a"           -> Set([system_wide |-> TRUE])
      [] opt = "--app"        -> Set([app |-> TRUE])
      [] opt = "--no-inherit" -> Set([inherit |-> FALSE])
      [] opt \in {"-p", "-t"} -> Set([targets |-> TRUE])

ParseOption(a) ==
    /\ pc = "parse" /\ Len(args) < MaxOptions
    /\ args' = Append(args, a)
    /\ CASE a.opt \in {"-c", "-f"}   -> SpeedOption(a.opt, a.arg)
         [] a.opt = "-e"             -> AddEvents([i \in DOMAIN a.arg |-> <<a.arg[i]>>])
         [] a.opt = "--group"        -> AddEvents(<<a.arg>>)
         [] a.opt = "--call-graph" /\ cmd = "record" -> CallGraph(a.arg)
         [] a.opt \in Both           -> Flag(a.opt)
         [] OTHER                    -> IF cmd = "record" THEN RecordOnly(a.opt, a.arg) ELSE Fail
    /\ UNCHANGED cmd

\* The checks after the last option; a command may follow it.
EndOfOptions(workload) ==
    /\ pc = "parse"
    /\ IF \/ cmd = "record" /\ ~o.dwarf /\ ~o.unwind
          \/ o.system_wide /\ o.targets
       THEN Fail
       ELSE /\ o' = [o EXCEPT !.unwind = @ /\ o.dwarf,
                              !.post_unwind = @ /\ o.dwarf /\ o.unwind,
                              !.kernel_symbols = @ /\ ~o.symbols,
                              !.workload = workload]
            /\ pc' = "prepare"
            /\ UNCHANGED <<groups, waiting>>
    /\ UNCHANGED <<cmd, args>>
----------------------------------------------------------------------------
(* PrepareRecording and StatCommand::Run, up to the opening of event files *)

DefaultEvents ==
    IF cmd = "record" THEN <<[type |-> "cpu-cycles", modifier |-> <<>>]>>
    ELSE SetToSeq({[type |-> t, modifier |-> <<>>] : t \in {"cpu-cycles", "task-clock"} \cap DOMAIN EventTypes})

Switch == [type |-> "sched:sched_switch", modifier |-> <<>>]

\* The default event types; TraceOffCpu, which refuses the event it adds itself.
AddDefaults ==
    /\ pc = "prepare"
    /\ LET gs == IF groups # <<>> THEN groups
                 ELSE Added(<<>>, [i \in DOMAIN DefaultEvents |-> <<DefaultEvents[i]>>])
           offcpu == cmd = "record" /\ o.offcpu
       IN  IF \/ offcpu /\ (Switch.type \notin DOMAIN EventTypes \/ "regs" \notin Supported)
              \/ offcpu /\ \E a \in Attrs(gs) : a.event.type = Switch.type
           THEN Fail
           ELSE /\ groups' = IF offcpu THEN WithGroup(gs, <<Switch>>) ELSE gs
                /\ o' = [o EXCEPT !.exclude_kernel_callchain = \A a \in Attrs(gs) : "k" \in a.exclude]
                /\ pc' = "flags" /\ UNCHANGED waiting
    /\ UNCHANGED <<cmd, args>>

\* Mutant: call graphs are enabled for the first event only.
DwarfForFirst(gs) ==
    [gs EXCEPT ![1][1] = [@ EXCEPT !.sample_type = @ \cup {"CALLCHAIN", "REGS_USER", "STACK_USER"},
                                   !.exclude_callchain_user = TRUE, !.stack = o.stack]]

EnableDwarfCallChainSampling(gs) ==
    EachAttr(LAMBDA a : [a EXCEPT !.sample_type = @ \cup {"CALLCHAIN", "REGS_USER", "STACK_USER"},
                                  !.exclude_callchain_user = TRUE, !.stack = o.stack], gs)

EnableFpCallChainSampling(gs) == EachAttr(LAMBDA a : [a EXCEPT !.sample_type = @ \cup {"CALLCHAIN"}], gs)

SetBranchSampling(gs) ==
    EachAttr(LAMBDA a : [a EXCEPT !.branch = o.branch,
                                  !.sample_type = IF o.branch # {} THEN @ \cup {"BRANCH_STACK"} ELSE @ \ {"BRANCH_STACK"}], gs)

\* SetEventSelectionFlags, and the attributes that depend on the target.
SetEventSelectionFlags ==
    /\ pc = "flags"
    /\ LET refused == \/ o.branch # {} /\ o.branch \cap {"any", "any_call", "any_ret", "ind_call"} = {}
                      \/ o.branch # {} /\ "branch" \notin Supported
                      \/ o.dwarf /\ "dwarf" \notin Supported
                      \/ ~(o.system_wide \/ o.targets \/ o.workload \/ o.app)
           sampled == IF cmd = "stat" THEN groups
                      ELSE IF o.fp THEN EnableFpCallChainSampling(SetBranchSampling(groups))
                      ELSE IF o.dwarf THEN EnableDwarfCallChainSampling(SetBranchSampling(groups))
                      ELSE SetBranchSampling(groups)
       IN  IF refused THEN Fail
           ELSE /\ groups' = EachAttr(LAMBDA a : [a EXCEPT !.sample_id_all = (cmd = "record"),
                                                           !.inherit = o.inherit, !.clockid = o.clockid,
                                                           !.enable_on_exec = o.workload /\ ~o.system_wide /\ ~o.targets,
                                                           !.mmap_data = cmd = "record" /\ o.app /\ ~o.system_wide], sampled)
                /\ pc' = "ready" /\ UNCHANGED <<o, waiting>>
    /\ UNCHANGED <<cmd, args>>

Next == \/ \E i \in DOMAIN Alphabet : ParseOption(Alphabet[i])
        \/ \E workload \in BOOLEAN : EndOfOptions(workload)
        \/ AddDefaults \/ SetEventSelectionFlags

Spec == Init /\ [][Next]_vars
----------------------------------------------------------------------------
(* The speed an event should have, from the options as they were given. *)
SpeedOptions == {i \in DOMAIN args : args[i].opt \in {"-c", "-f"}}
SpeedAt(i) == <<args[i].opt, args[i].arg>>
Names(i) == args[i].opt \in {"-e", "--group"}
SpeedOf(e) ==
    LET at     == CHOOSE i \in DOMAIN args : Names(i) /\ e \in ToSet(args[i].arg)
        before == {i \in SpeedOptions : i < at}
    IN  IF before # {} THEN SpeedAt(Max(before))
        ELSE IF SpeedOptions # {} THEN SpeedAt(Min(SpeedOptions)) ELSE DefaultSpeed(e.type)

\* Each event has the speed of the last -c or -f before it, or of the first one
\* after it if there is none, or the default of its kind; the event of
\* --trace-offcpu always has its own (the help of -f and -c, ParseOptions,
\* PrepareRecording).
SpeedAsGiven ==
    cmd = "record" /\ pc = "ready" =>
        \A a \in Attrs(groups) :
            a.speed = IF \E i \in DOMAIN args : Names(i) /\ a.event \in ToSet(args[i].arg) THEN SpeedOf(a.event)
                      ELSE IF (o.offcpu /\ a.event = Switch) \/ SpeedOptions = {} THEN DefaultSpeed(a.event.type)
                      ELSE SpeedAt(Max(SpeedOptions))

\* The attributes that open the event files agree with each other, as a reader
\* of perf.data expects, and with the settings: one sample type for all; a user
\* stack is unwound only if it is recorded for every event; unwinding later or
\* joining call chains only if they are unwound at all (UnionSampleType,
\* SetEventSelectionFlags, ParseOptions).
AttrsAgree ==
    pc = "ready" =>
        /\ \A a, b \in Attrs(groups) :
            /\ a.sample_type = b.sample_type /\ a.branch = b.branch /\ a.stack = b.stack
            /\ a.clockid = b.clockid /\ a.enable_on_exec = b.enable_on_exec
        /\ groups # <<>> /\ ~(o.fp /\ o.dwarf)
        /\ o.post_unwind => o.unwind
        /\ cmd = "record" /\ o.unwind => \A a \in Attrs(groups) : "STACK_USER" \in a.sample_type /\ a.stack > 0 /\ a.stack % 8 = 0
=============================================================================
