--------------------------- MODULE ProfileSymbols ---------------------------
(***************************************************************************)
(* The symbols perfprofd adds to a profile: for every file mapped in it    *)
(* that has no build id, AddSymbolInfo decodes the addresses of the        *)
(* samples and aggregates them in a RangeMap.  The profile holds only the  *)
(* first and the last address of each aggregate, so two aggregates must    *)
(* never overlap.                                                          *)
(***************************************************************************)
EXTENDS Integers, Sequences, FiniteSets, FiniteSetsExt, SequencesExt

CONSTANTS
    ElfFiles,   \* sets of [dso |-> readable file's symbols], a symbol being [vaddr, name, len]
    BuildIds,   \* sets of files that have build ids
    Profiles    \* sequences of samples: sequences of [dso, offset], the ip first

VARIABLES
    elf, build_ids, profile,
    at,            \* the sample and the address in it that come next
    dsos,          \* the symbolizer's maps from address to [name, length]
    files,         \* the RangeMap of each file: first address -> [symbol, offsets]
    symbol_info    \* what is added to the record

vars == <<elf, build_ids, profile, at, dsos, files, symbol_info>>
----------------------------------------------------------------------------
(* SimpleperfSymbolizer. *)

\* emplace keeps the first symbol at an address.
LoadDso(syms) ==
    [a \in {syms[i].vaddr : i \in DOMAIN syms} |->
        syms[Min({i \in DOMAIN syms : syms[i].vaddr = a})]]

Loaded(d) == IF d \in DOMAIN dsos THEN dsos[d] ELSE LoadDso(elf[d])

\* The name of the symbol at the greatest address that is not above, or "".
Decode(map, address) ==
    LET below == {a \in DOMAIN map : a <= address}
    IN  IF below # {} /\ Max(below) + map[Max(below)].len > address THEN map[Max(below)].name ELSE ""
----------------------------------------------------------------------------
(* RangeMap. *)

Entry(sym, offsets) == [symbol |-> sym, offsets |-> offsets]

\* The entries of a map, each under its first offset.
Keyed(es) == [k \in {Min(e.offsets) : e \in es} |-> CHOOSE e \in es : Min(e.offsets) = k]

Entries(rm) == {rm[k] : k \in DOMAIN rm}

\* The next entry has the same symbol, and is extended to the left.
NextHas(rm, above, sym) == above # {} /\ rm[Min(above)].symbol = sym

\* Mutant: an address inside another symbol's range is only added.
AddOnly(e, sym, val) == {e, Entry(sym, {val})}

\* An entry of another symbol that overlaps is broken up.
BreakUp(e, sym, val) ==
    IF val \in e.offsets THEN {e}       \* "Unexpected overlap!"
    ELSE {Entry(e.symbol, {o \in e.offsets : o < val}), Entry(sym, {val}),
          Entry(e.symbol, {o \in e.offsets : o > val})}

Insert(rm, sym, val) ==
    LET leq == {k \in DOMAIN rm : k <= val}
        above == {k \in DOMAIN rm : k > val}
        Replaced(e, by) == Keyed((Entries(rm) \ {e}) \cup by)
        WithVal(e) == Replaced(e, {Entry(sym, e.offsets \cup {val})})
        match == rm[Max(leq)]
    IN  CASE leq # {} /\ match.symbol = sym -> WithVal(match)
          [] leq # {} /\ match.symbol # sym /\ Max(match.offsets) >= val -> Replaced(match, BreakUp(match, sym, val))
          [] OTHER -> IF NextHas(rm, above, sym) THEN WithVal(rm[Min(above)])
                      ELSE Keyed(Entries(rm) \cup {Entry(sym, {val})})
----------------------------------------------------------------------------
(* AddSymbolInfo. *)

\* The files without build id among those the profile maps.
files_wo_build_id == UNION {{profile[i][j].dso : j \in DOMAIN profile[i]} : i \in DOMAIN profile} \ build_ids

\* GetMinExecutableVAddr fails for a file that cannot be read.
HasMinVAddr(d) == d \in DOMAIN elf

\* check_address
CheckAddress(h) ==
    IF h.dso \notin files_wo_build_id \/ ~HasMinVAddr(h.dso) THEN UNCHANGED <<dsos, files>>
    ELSE LET map == Loaded(h.dso)
             sym == Decode(map, h.offset)
             rm == IF h.dso \in DOMAIN files THEN files[h.dso] ELSE <<>>
             new == IF sym = "" THEN rm ELSE Insert(rm, sym, h.offset)
         IN  /\ dsos' = [d \in DOMAIN dsos \cup {h.dso} |-> IF d = h.dso THEN map ELSE dsos[d]]
             /\ files' = [d \in DOMAIN files \cup {h.dso} |-> IF d = h.dso THEN new ELSE files[d]]

Sample ==
    /\ at.sample <= Len(profile)
    /\ CheckAddress(profile[at.sample][at.address])
    /\ at' = IF at.address < Len(profile[at.sample]) THEN [at EXCEPT !.address = @ + 1]
             ELSE [sample |-> at.sample + 1, address |-> 1]
    /\ UNCHANGED <<elf, build_ids, profile, symbol_info>>

\* The messages that are added at the end: addr, size and name of each entry.
AddSymbols ==
    /\ at.sample > Len(profile) /\ at.address = 1
    /\ at' = [at EXCEPT !.address = 0]
    /\ symbol_info' =
          UNION {{[filename |-> d, addr |-> Min(e.offsets), size |-> Max(e.offsets) - Min(e.offsets) + 1,
                   name |-> e.symbol] : e \in Entries(files[d])} : d \in DOMAIN files}
    /\ UNCHANGED <<elf, build_ids, profile, dsos, files>>

Init ==
    /\ elf \in ElfFiles /\ build_ids \in BuildIds /\ profile \in Profiles
    /\ at = [sample |-> 1, address |-> 1]
    /\ dsos = <<>> /\ files = <<>> /\ symbol_info = {}

Next == Sample \/ AddSymbols

Spec == Init /\ [][Next]_vars
----------------------------------------------------------------------------
\* Looked up in the symbols that were added, every address of the samples in a
\* file without build id gives exactly the name the symbolizer decoded: the
\* ranges of two entries never overlap, in whatever order the addresses came
\* and however often a name occurs in the file.
AddressesFindTheirSymbols ==
    at.address = 0 =>
        /\ \A i \in DOMAIN profile : \A j \in DOMAIN profile[i] :
              LET h == profile[i][j]
                  found == {s \in symbol_info : s.filename = h.dso /\ h.offset \in s.addr .. s.addr + s.size - 1}
              IN  h.dso \in files_wo_build_id \cap DOMAIN elf =>
                    LET name == Decode(LoadDso(elf[h.dso]), h.offset)
                    IN  name # "" => {s.name : s \in found} = {name} /\ Cardinality(found) = 1
        /\ \A s \in symbol_info : s.filename \notin build_ids
============================================================================
