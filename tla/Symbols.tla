------------------------------ MODULE Symbols ------------------------------
(***************************************************************************)
(* How a sample gets the name of its function.  simpleperf record looks up *)
(* every sample in the files of the device once recording is over, and     *)
(* writes the symbols that were hit, with the build ids of their files, as *)
(* features of perf.data.  A report, on another machine and perhaps with   *)
(* other files at the same paths, merges them with what it finds there.    *)
(*                                                                         *)
(* A sample here stands for its ip or for a frame of its call chain: an    *)
(* offset into the mapping of a file.  The contents of a file, read by     *)
(* LLVM, are [valid, id, symtab, dynsym, debugdata, plt, min]; id 0 is no  *)
(* build id, and the symbols of one table have different addresses.        *)
(***************************************************************************)
EXTENDS Integers, Sequences, FiniteSets, FiniteSetsExt, TLC

CONSTANTS
    Kind,        \* [file -> {"elf", "dex", "jit", "module", "kernel"}]
    Start,       \* [file -> the address it is mapped at]
    Offsets,     \* [file -> offsets into its mapping that may be sampled]
    Worlds,      \* a sequence of [device, host : machine, full : [file -> symbols of the build that ran]]
    Options,     \* [dump_symbols, dump_kernel : BOOLEAN]
    LenMod,      \* a length is written modulo LenMod
    MaxAddr,     \* the greatest address
    MaxSamples

VARIABLES
    world, opt, pc,
    dsos,        \* [file -> Dso] of the thread tree
    samples,     \* the samples of the data section, <<file, offset>>
    next,        \* the sample to be handled next
    feature,     \* perf.data's features: [ids, files, kallsyms]
    recorded,    \* ghost: the name of each sample when it was recorded
    shown        \* the name of each sample reported

vars == <<world, opt, pc, dsos, samples, next, feature, recorded, shown>>

Files == DOMAIN Kind
World == Worlds[world]
Kernel == CHOOSE f \in Files : Kind[f] = "kernel"
NoIds == [f \in Files |-> 0]
----------------------------------------------------------------------------
(* ELF files. *)

\* The symbol table, or else the dynamic symbols and those of .gnu_debugdata.
ParseSymbolsFromELFFile(c) ==
    c.plt \cup (IF c.symtab # {} THEN c.symtab ELSE c.dynsym \cup c.debugdata)

\* Mutant: the build id is not compared.
AnyBuild(c, expected) == c.valid

MatchBuildId(c, expected) == c.valid /\ (expected = 0 \/ c.id = expected)

ParseSymbolsFromElfFile(c, expected) ==
    IF MatchBuildId(c, expected) THEN ParseSymbolsFromELFFile(c) ELSE {}

GetBuildId(c) == IF c.valid THEN c.id ELSE 0

\* Where the symbols of a file are read: a file of the same build id below
\* the symfs directory or /usr/lib/debug, if there is one.
FindDebugFile(st, f) ==
    LET own == st.m.own[f]
        id == IF st.ids[f] # 0 THEN st.ids[f] ELSE GetBuildId(own)
        same == {i \in DOMAIN st.m.debug[f] : GetBuildId(st.m.debug[f][i]) = id}
    IN  IF id # 0 /\ same # {} THEN st.m.debug[f][Min(same)] ELSE own
----------------------------------------------------------------------------
(* Dso.  st holds its static members: the machine, the expected build ids, *)
(* kallsyms and whether /proc/kallsyms may be read.                        *)

SortAndFixSymbols(syms) ==
    {LET later == {t.addr : t \in {t \in syms : t.addr > s.addr}}
     IN  [name |-> s.name, addr |-> s.addr,
          len |-> IF s.len = 0 /\ later # {} THEN Min(later) - s.addr ELSE s.len] : s \in syms}

\* The last symbol of the kernel reaches to the end of the address space.
KernelSymbols(st, id) ==
    LET read == CASE st.m.vmlinux # <<>> -> {s \in ParseSymbolsFromElfFile(st.m.vmlinux[1], id) : s.func}
                  [] st.m.vmlinux = <<>> /\ st.kallsyms # {} -> st.kallsyms
                  [] OTHER -> IF (st.from_proc \/ id # 0) /\ (id # 0 => st.m.kernel_id = id)
                              THEN st.m.kallsyms ELSE {}
    IN  {IF \A t \in read : t.addr <= s.addr THEN [s EXCEPT !.len = MaxAddr - s.addr] ELSE s :
             s \in SortAndFixSymbols(read)}

LoadSymbols(st, d, f) ==
    CASE d.type = "kernel" -> KernelSymbols(st, st.ids[f])
      [] d.type = "module" -> SortAndFixSymbols({s \in ParseSymbolsFromElfFile(st.m.own[f], st.ids[f]) : s.func \/ s.text})
      [] d.type = "dex" -> SortAndFixSymbols(IF st.m.own[f].valid /\ d.dex THEN st.m.own[f].symtab ELSE {})
      [] d.type = "elf" -> SortAndFixSymbols({s \in ParseSymbolsFromElfFile(FindDebugFile(st, f), st.ids[f]) :
                                                  s.func \/ (s.label /\ s.text)})

\* Load; of two symbols at one address set_union keeps the one that was there.
Load(st, d, f) ==
    [d EXCEPT !.loaded = TRUE,
              !.syms = @ \cup {s \in LoadSymbols(st, d, f) : \A t \in d.syms : t.addr # s.addr}]

Loaded(st, ds, f) == IF ds[f].loaded THEN ds ELSE [ds EXCEPT ![f] = Load(st, ds[f], f)]

\* Dso::FindSymbol: the last symbol at or below the address, if it covers it.
FindIn(d, vaddr) ==
    LET below == {s \in d.syms : s.addr <= vaddr}
    IN  {s \in below : (\A t \in below : t.addr <= s.addr) /\ s.addr + s.len > vaddr}

Unread == -1

MinVirtualAddress(st, d, f) ==
    CASE d.min # Unread -> d.min
      [] d.min = Unread /\ d.type = "elf" /\ MatchBuildId(FindDebugFile(st, f), st.ids[f]) -> FindDebugFile(st, f).min
      [] OTHER -> 0

NewDso(type) == [type |-> type, loaded |-> FALSE, syms |-> {}, hit |-> {}, dump |-> FALSE, min |-> Unread, dex |-> FALSE]

TypeOf(f) == IF Kind[f] \in {"kernel", "module"} THEN Kind[f] ELSE "elf"

\* FindKernelDsoOrNew and FindUserDsoOrNew.
FindDsoOrNew(ds, f, type) == IF f \in DOMAIN ds THEN ds ELSE ds @@ (f :> NewDso(type))

\* AddDexFileOffset; an ELF file that turns out to hold dex files becomes a dex file.
AddDexFileOffset(ds, f) == [FindDsoOrNew(ds, f, "dex") EXCEPT ![f].type = "dex", ![f].dex = TRUE]

VaddrInFile(st, d, f, off) ==
    CASE Kind[f] = "jit" -> Start[f] + off
      [] d.type = "dex" -> off
      [] OTHER -> off + MinVirtualAddress(st, d, f)

\* ThreadTree::FindSymbol; what a module's file lacks is looked up in the kernel.
FindSymbol(st, ds, f, off) ==
    LET here == IF f = Kernel THEN ds ELSE Loaded(st, ds, f)
        own == IF f = Kernel THEN {} ELSE FindIn(here[f], VaddrInFile(st, here[f], f, off))
        both == Loaded(st, here, Kernel)
    IN  IF own = {} /\ ds[f].type \in {"kernel", "module"}
        THEN [dsos |-> both, file |-> Kernel, sym |-> FindIn(both[Kernel], Start[f] + off)]
        ELSE [dsos |-> here, file |-> f, sym |-> own]

Name(syms) == IF syms = {} THEN "unknown" ELSE (CHOOSE s \in syms : TRUE).name
----------------------------------------------------------------------------
(* Recording. *)

NoFeature == [ids |-> NoIds, files |-> <<>>, kallsyms |-> {}]

Init ==
    /\ world \in DOMAIN Worlds
    /\ opt \in Options
    /\ pc = "record"
    /\ dsos = (Kernel :> NewDso("kernel"))
    /\ samples = <<>> /\ next = 1 /\ recorded = <<>> /\ shown = <<>>
    \* ParseOptions: the kernel's symbols are dumped only when symbols are not.
    /\ feature = [NoFeature EXCEPT !.kallsyms =
                      IF opt.dump_kernel /\ ~opt.dump_symbols /\ World.device.readable
                      THEN World.device.kallsyms ELSE {}]

\* An mmap record is read.
Mmap(f) ==
    /\ pc = "record"
    /\ f \notin DOMAIN dsos
    /\ dsos' = FindDsoOrNew(dsos, f, TypeOf(f))
    /\ UNCHANGED <<world, opt, pc, samples, next, feature, recorded, shown>>

\* JITDebugReader finds dex files in a mapped file, before or after its mmap record is read.
FindDexFile(f) ==
    /\ pc = "record"
    /\ Kind[f] = "dex"
    /\ f \in DOMAIN dsos => ~dsos[f].dex
    /\ dsos' = AddDexFileOffset(dsos, f)
    /\ UNCHANGED <<world, opt, pc, samples, next, feature, recorded, shown>>

Sample(f, off) ==
    /\ pc = "record"
    /\ Len(samples) < MaxSamples
    /\ f \in DOMAIN dsos
    /\ samples' = Append(samples, <<f, off>>)
    /\ UNCHANGED <<world, opt, pc, dsos, next, feature, recorded, shown>>

\* Dso's static members while recording.
Recording == [m |-> World.device, ids |-> NoIds, kallsyms |-> feature.kallsyms, from_proc |-> World.device.readable]

\* CollectHitFileInfo of the next sample.
CollectHitFileInfo ==
    /\ pc \in {"record", "collect"}
    /\ pc' = "collect"
    /\ next <= Len(samples)
    /\ LET f == samples[next][1]
           r == FindSymbol(Recording, dsos, f, samples[next][2])
       IN  IF opt.dump_symbols
           THEN /\ dsos' = [r.dsos EXCEPT ![r.file].dump = TRUE, ![r.file].hit = @ \cup {s.addr : s \in r.sym}]
                /\ recorded' = Append(recorded, Name(r.sym))
           ELSE /\ dsos' = [dsos EXCEPT ![f].dump = TRUE]
                /\ recorded' = Append(recorded, "unknown")
    /\ next' = next + 1
    /\ UNCHANGED <<world, opt, samples, feature, shown>>

\* DumpBuildIdFeature; dex files have none, and modules have theirs under /sys.
BuildIds ==
    [f \in Files |->
        CASE f \notin DOMAIN dsos -> 0
          [] f \in DOMAIN dsos /\ (~dsos[f].dump \/ dsos[f].type = "dex") -> 0
          [] f \in DOMAIN dsos /\ dsos[f].dump /\ dsos[f].type = "kernel" -> World.device.kernel_id
          [] OTHER -> GetBuildId(World.device.own[f])]

\* WriteFileFeature; a length has 32 bits there.
WriteFileFeature(d, f) ==
    [type |-> d.type, min |-> MinVirtualAddress(Recording, d, f), dex |-> d.dex,
     syms |-> {[s EXCEPT !.len = @ % LenMod] : s \in {s \in d.syms : s.addr \in d.hit}}]

\* WriteFileFeatures writes the files that were hit and all dex files.
DumpAdditionalFeatures ==
    /\ pc = "collect"
    /\ next > Len(samples)
    /\ LET written == {f \in DOMAIN dsos : dsos[f].dump \/ dsos[f].type = "dex"}
       IN  feature' = [feature EXCEPT !.ids = BuildIds,
                                      !.files = [f \in written |-> WriteFileFeature(dsos[f], f)]]
    /\ pc' = "recorded"
    /\ UNCHANGED <<world, opt, dsos, samples, next, recorded, shown>>
----------------------------------------------------------------------------
(* Reporting. *)

AddDsoInfo(i) == [NewDso(i.type) EXCEPT !.min = i.min, !.syms = i.syms, !.dex = i.dex]

\* LoadBuildIdAndFileFeatures; the other files are known from their mmap records.
LoadFeatures ==
    /\ pc = "recorded"
    /\ dsos' = [f \in DOMAIN dsos |-> IF f \in DOMAIN feature.files THEN AddDsoInfo(feature.files[f])
                                      ELSE NewDso(TypeOf(f))]
    /\ next' = 1
    /\ pc' = "report"
    /\ UNCHANGED <<world, opt, samples, feature, recorded, shown>>

Reporting == [m |-> World.host, ids |-> feature.ids, kallsyms |-> feature.kallsyms, from_proc |-> FALSE]

Report ==
    /\ pc = "report"
    /\ next <= Len(samples)
    /\ \E r \in {FindSymbol(Reporting, dsos, samples[next][1], samples[next][2])} :
           /\ dsos' = r.dsos
           /\ shown' = Append(shown, Name(r.sym))
    /\ next' = next + 1
    /\ UNCHANGED <<world, opt, pc, samples, feature, recorded>>

Next ==
    \/ \E f \in Files : Mmap(f) \/ FindDexFile(f)
    \/ \E f \in Files : \E off \in Offsets[f] : Sample(f, off)
    \/ CollectHitFileInfo \/ DumpAdditionalFeatures \/ LoadFeatures \/ Report

Spec == Init /\ [][Next]_vars
----------------------------------------------------------------------------
(* Properties. *)

\* A report names a sample as the device did, or as the full symbols of the
\* build that ran would: it never takes the symbols of another build that is
\* found at the same path, and it does not lose a name that was recorded.
\* Dso::Load, MatchBuildId, FindDebugFile and the file features.
NamesAreOfTheBuildThatRan ==
    \A i \in 1..Len(shown) :
        LET f == samples[i][1]
            true == {s.name : s \in {s \in World.full[f] : samples[i][2] \in s.at}}
        IN  \/ shown[i] = recorded[i]
            \/ shown[i] \in true
============================================================================
