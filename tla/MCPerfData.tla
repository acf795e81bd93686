----------------------------- MODULE MCPerfData -----------------------------
(***************************************************************************)
(* The file of a recording: the cache that puts its records in order, the  *)
(* call chains that are unwound and joined before they are stored, the     *)
(* file as it is written and read, and the symbols that addresses are      *)
(* given. A behaviour is one of one of them. RecordCache's own constants   *)
(* are those of the cache.                                                 *)
(***************************************************************************)
EXTENDS RecordCache, TLC

CONSTANTS
    Programs   \* the components that are run

VARIABLES program, options, phase, recorded, file, tmp, original, joined,
          next, attrs, pc, cells, pos, w, todo, r, world, opt, dsos, samples,
          feature, shown

-----------------------------------------------------------------------------
UnwindBase == {"IP", "TID", "TIME", "ID", "CPU", "PERIOD", "CALLCHAIN"}

Dwarf(mode, tid, chain, regs, stack, dyn, raw, branch) ==
    [dwarf |-> TRUE, mode |-> mode, tid |-> tid, chain |-> chain, regs |-> regs,
     stack |-> stack, dyn |-> dyn, raw |-> raw, branch |-> branch,
     ip |-> IF mode = "kernel" THEN 41 ELSE 10,
     user |-> <<10, 20, 30>>]

Frames(mode, chain) ==
    [Dwarf(mode, 7, chain, <<>>, <<>>, 0, <<>>, <<>>) EXCEPT !.dwarf = FALSE]

InUser == <<>>
OneKernel == <<102, 41>>
TwoKernel == <<102, 41, 51>>

SampleSet == {
    Dwarf("user", 7, InUser, <<10, 1>>, <<61, 62>>, 2, <<>>, <<>>),
    Dwarf("user", 8, InUser, <<10, 1>>, <<61, 62, 63>>, 1, <<>>, <<71, 72, 73>>),
    Dwarf("kernel", 7, TwoKernel, <<10, 1>>, <<61, 62>>, 0, <<81, 82>>, <<71, 72, 73>>),
    Dwarf("kernel", 8, OneKernel, <<10, 1>>, <<61, 62>>, 1, <<81>>, <<>>),
    Dwarf("kernel", 9, TwoKernel, <<>>, <<>>, 0, <<81>>, <<>>),
    Frames("user", <<101, 10, 20, 0>>),
    Frames("kernel", TwoKernel),
    Frames("kernel", TwoKernel \o <<101, 10, 20>>)}

ExtensionSet == {<<>>, <<91>>, <<91, 92>>, <<91, 92, 93>>}

OptionSet ==
    {o \in [unwind : BOOLEAN, post_unwind : BOOLEAN, join : BOOLEAN, exclude_kernel : BOOLEAN,
            sample_type : {UnwindBase \cup extra : extra \in {{}, {"REGS", "STACK", "RAW"},
                                                       {"REGS", "STACK", "RAW", "BRANCH"}}}] :
        /\ (o.post_unwind \/ o.join) => o.unwind
        /\ o.unwind <=> "REGS" \in o.sample_type}

Unwind == INSTANCE Unwinding WITH
    ContextMax <- 100, ContextUser <- 101, ContextKernel <- 102,
    Samples <- SampleSet, Extensions <- ExtensionSet, Options <- OptionSet, Count <- 2
-----------------------------------------------------------------------------
FileBase == {"IP", "TID", "TIME", "ID", "CPU", "PERIOD", "RAW"}
AttrListSet == {<<[sample_type |-> FileBase, ids |-> <<31>>]>>,
                <<[sample_type |-> FileBase, ids |-> <<31, 32>>], [sample_type |-> FileBase, ids |-> <<41>>]>>}

Rec(type, attr, id, fields, name) ==
    [type |-> type, attr |-> attr, id |-> id, fields |-> fields, name |-> name]

RecordSet == {
    Rec("sample", 1, 32, <<0>>, <<>>), Rec("sample", 2, 41, <<0>>, <<>>),
    Rec("sample", 2, 99, <<1, 5>>, <<>>),
    Rec("mmap", 1, 31, <<1, 2, 3, 4>>, <<8, 8>>),
    Rec("mmap2", 2, 41, <<1, 2, 3, 4, 5, 6, 7, 8>>, <<>>),
    Rec("comm", 2, 99, <<1>>, <<9>>), Rec("fork", 1, 31, <<1, 2, 0>>, <<>>),
    Rec("exit", 1, 32, <<1, 2, 0>>, <<>>), Rec("lost", 2, 41, <<3, 4>>, <<>>),
    Rec("kernel_symbol", 1, 31, <<3, 51, 52, 53>>, <<>>),
    Rec("tracing_data", 1, 31, [i \in 1 .. 31 |-> IF i = 1 THEN 30 ELSE i], <<>>),
    Rec("event_id", 1, 31, <<1, 2, 99>>, <<>>),
    Rec("callchain", 1, 31, <<1, 0, 6, 2, 61, 62, 71, 72>>, <<>>),
    Rec("unwinding_result", 1, 31, <<1, 2, 3, 4, 5, 6>>, <<>>),
    Rec("dso", 1, 31, <<1, 2, 3>>, <<9, 9>>), Rec("symbol", 1, 31, <<1, 2, 3>>, <<9>>)}

Feature(f, content) == [feature |-> f, content |-> content]
Elf == [path |-> <<5, 5>>, type |-> 3, min_vaddr |-> 1, dex |-> <<>>,
        symbols |-> <<[addr |-> 2, len |-> 1, name |-> <<6>>], [addr |-> 4, len |-> 0, name |-> <<>>]>>]
Dex == [path |-> <<5, 6>>, type |-> 4, min_vaddr |-> 0, dex |-> <<7, 0>>, symbols |-> <<>>]
Tailing == <<Feature("osrelease", <<4, 4>>), Feature("arch", <<3>>),
             Feature("cmdline", <<<<2>>, <<2, 3>>, <<>>>>)>>
Meta == <<Feature("meta_info", <<<<8>>, <<9>>, <<8, 8>>, <<>>>>)>>

FeatureListSet == {
    <<Feature("build_id", <<<<1>>, <<1, 2>>>>), Feature("file", Elf), Feature("file", Dex)>>
        \o Tailing \o <<Feature("branch_stack", <<>>)>> \o Meta,
    <<Feature("build_id", <<>>)>> \o Tailing \o Meta}

File == INSTANCE RecordFile WITH
    AttrLists <- AttrListSet, DataRecords <- RecordSet, FeatureLists <- FeatureListSet,
    SizeLimit <- 20, MaxRecords <- 2
-----------------------------------------------------------------------------
Function(name, start, bytes) ==
    [name |-> name, addr |-> start, len |-> bytes, func |-> TRUE, label |-> FALSE, text |-> TRUE]
Label(name, start) == [Function(name, start, 0) EXCEPT !.func = FALSE, !.label = TRUE]
KernelSymbol(name, start) == [name |-> name, addr |-> start, len |-> 0]

ElfFile(id, sym, dyn, debugdata, min) ==
    [valid |-> TRUE, id |-> id, symtab |-> sym, dynsym |-> dyn, debugdata |-> debugdata, plt |-> {},
     min |-> min]
NoFile == [ElfFile(0, {}, {}, {}, 0) EXCEPT !.valid = FALSE]
LibStripped == ElfFile(1, {}, {Function("a", 2, 1)}, {Function("b", 3, 1)}, 2)
LibFull == ElfFile(1, {Function("a", 2, 1), Function("b", 3, 1), Label("c", 4), Function("d", 5, 1)}, {}, {}, 2)
LibOther == ElfFile(2, {Function("x", 0, 9)}, {}, {}, 0)
Vdex == ElfFile(0, {Function("j", 0, 1), Function("k", 1, 1)}, {}, {}, 0)
JitFile == ElfFile(0, {Function("q", 10, 2)}, {}, {}, 0)
Module == ElfFile(5, {}, {Function("m", 0, 2)}, {}, 0)
ModuleOther == ElfFile(6, {}, {Function("y", 0, 4)}, {}, 0)
Kallsyms == {KernelSymbol("k1", 20), KernelSymbol("k2", 22), KernelSymbol("k3", 24)}
KallsymsOther == {KernelSymbol("z", 20)}
Vmlinux(id, name) == <<ElfFile(id, {Function(name, 20, 2), Function("k2", 22, 2)}, {}, {}, 0)>>

Kinds == [lib |-> "elf", vdex |-> "dex", jit |-> "jit", mod |-> "module", kernel |-> "kernel"]
NoDebugFiles == [f \in DOMAIN Kinds |-> <<>>]

Device(module, readable, id) ==
    [own |-> [lib |-> LibStripped, vdex |-> Vdex, jit |-> JitFile, mod |-> module, kernel |-> NoFile],
     debug |-> NoDebugFiles, vmlinux |-> <<>>, kallsyms |-> IF readable THEN Kallsyms ELSE {},
     readable |-> readable, kernel_id |-> id]
Host(lib, vdex, module, debug, vmlinux, kallsyms, id) ==
    [own |-> [lib |-> lib, vdex |-> vdex, jit |-> NoFile, mod |-> module, kernel |-> NoFile],
     debug |-> [NoDebugFiles EXCEPT !["lib"] = debug], vmlinux |-> vmlinux, kallsyms |-> kallsyms,
     readable |-> TRUE, kernel_id |-> id]

At(name, offsets) == [name |-> name, at |-> offsets]
AllSymbols ==
    [lib |-> {At("a", {0}), At("b", {1}), At("c", {2})}, vdex |-> {At("k", {1})}, jit |-> {At("q", {1})},
     mod |-> {At("m", {1}), At("k2", {1})}, kernel |-> {At("k1", {1}), At("k2", {3})}]
World(device, host) == [device |-> device, host |-> host, full |-> AllSymbols]

\* The host has none of the files, files of other builds, or the same or
\* unstripped ones of the same build.
WorldSeq ==
    <<World(Device(Module, TRUE, 7), Host(NoFile, NoFile, NoFile, <<>>, <<>>, KallsymsOther, 8)),
      World(Device(Module, TRUE, 7),
            Host(LibOther, Vdex, ModuleOther, <<LibOther, LibFull>>, Vmlinux(9, "z"), KallsymsOther, 8)),
      World(Device(Module, FALSE, 0), Host(LibOther, NoFile, ModuleOther, <<>>, <<>>, KallsymsOther, 8)),
      World(Device(Module, FALSE, 7),
            Host(LibFull, NoFile, ModuleOther, <<LibOther>>, Vmlinux(7, "k1"), KallsymsOther, 8)),
      World(Device(NoFile, TRUE, 7), Host(LibStripped, Vdex, NoFile, <<LibOther, LibFull>>, <<>>, Kallsyms, 7))>>

Names == INSTANCE Symbols WITH
    Kind <- Kinds, Start <- [lib |-> 0, vdex |-> 5, jit |-> 10, mod |-> 22, kernel |-> 20],
    Offsets <- [lib |-> {0, 1, 2}, vdex |-> {1}, jit |-> {1}, mod |-> {1}, kernel |-> {1, 3}],
    Worlds <- WorldSeq, Options <- {[dump_symbols |-> d, dump_kernel |-> TRUE] : d \in BOOLEAN}, LenMod <- 16,
    MaxAddr <- 31, MaxSamples <- 2
-----------------------------------------------------------------------------
mcvars == <<program, has_timestamp_, queue_, last_time_, cur_seq_, at_end,
            result, delivered, timely, options, phase, recorded, file, tmp,
            original, joined, next, attrs, pc, cells, pos, w, todo, r, world,
            opt, dsos, samples, feature, shown>>
notRecordCache == <<options, phase, recorded, file, tmp, original, joined,
                    next, attrs, pc, cells, pos, w, todo, r, world, opt, dsos,
                    samples, feature, shown>>
notUnwind == <<has_timestamp_, queue_, last_time_, cur_seq_, at_end, result,
               delivered, timely, attrs, pc, cells, pos, w, todo, r, world,
               opt, dsos, samples, feature, shown>>
notFile == <<has_timestamp_, queue_, last_time_, cur_seq_, at_end, result,
             delivered, timely, options, phase, file, tmp, original, joined,
             next, world, opt, dsos, samples, feature, shown>>
notNames == <<has_timestamp_, queue_, last_time_, cur_seq_, at_end, result,
              delivered, timely, options, phase, file, tmp, original, joined,
              attrs, cells, pos, w, todo, r>>

MCInit ==
    /\ program \in Programs
    /\ \/ /\ program = "record_cache" /\ Init
          /\ options = 0 /\ phase = 0 /\ recorded = 0 /\ file = 0 /\ tmp = 0 /\ original = 0
          /\ joined = 0 /\ next = 0 /\ attrs = 0 /\ pc = 0 /\ cells = 0 /\ pos = 0 /\ w = 0
          /\ todo = 0 /\ r = 0 /\ world = 0 /\ opt = 0 /\ dsos = 0 /\ samples = 0 /\ feature = 0
          /\ shown = 0
       \/ /\ program = "unwinding" /\ Unwind!Init
          /\ Init /\ ~has_timestamp_ /\ attrs = 0 /\ pc = 0 /\ cells = 0 /\ pos = 0 /\ w = 0
          /\ todo = 0 /\ r = 0 /\ world = 0 /\ opt = 0 /\ dsos = 0 /\ samples = 0 /\ feature = 0
          /\ shown = 0
       \/ /\ program = "record_file" /\ File!Init
          /\ Init /\ ~has_timestamp_ /\ options = 0 /\ phase = 0 /\ file = 0 /\ tmp = 0
          /\ original = 0 /\ joined = 0 /\ next = 0 /\ world = 0 /\ opt = 0 /\ dsos = 0
          /\ samples = 0 /\ feature = 0 /\ shown = 0
       \/ /\ program = "symbols" /\ Names!Init
          /\ Init /\ ~has_timestamp_ /\ options = 0 /\ phase = 0 /\ file = 0 /\ tmp = 0
          /\ original = 0 /\ joined = 0 /\ attrs = 0 /\ cells = 0 /\ pos = 0 /\ w = 0 /\ todo = 0
          /\ r = 0

MCNext ==
    /\ UNCHANGED program
    /\ \/ program = "record_cache" /\ Next /\ UNCHANGED notRecordCache
       \/ program = "unwinding" /\ Unwind!Next /\ UNCHANGED notUnwind
       \/ program = "record_file" /\ File!Next /\ UNCHANGED notFile
       \/ program = "symbols" /\ Names!Next /\ UNCHANGED notNames

MCSpec == MCInit /\ [][MCNext]_mcvars

\* Unwinding: each sample kept reads back once, in order, with the frames it
\* should have; no CHECK of the code fails on the way, and chains and samples,
\* matched by counting alone, stay together.
SamplesReadBack == program = "unwinding" => Unwind!NoCheckFails /\ Unwind!SamplesReadBack

\* RecordFile: attributes and records read back as they were written, each
\* record under the attribute of its event, and features are found and decode
\* to what was written.
RecordsReadBack == program = "record_file" => File!RecordsReadBack /\ File!FeaturesReadBack

\* Symbols: the name given to an address is one the file that ran has there,
\* whatever other files the host has at that path.
NamesAreOfTheBuildThatRan == program = "symbols" => Names!NamesAreOfTheBuildThatRan
=============================================================================
