------------------------------- MODULE MaxAllocs -------------------------------
(***************************************************************************)
(* GetMaxAllocs of memory_replay: the pass over the dump that sizes the    *)
(* pointer table.  One step counts one line.  The loop that skips blanks   *)
(* leaves word one character past the first that is not a blank, so a line *)
(* is modelled by the first characters of the text after its colon.        *)
(***************************************************************************)
EXTENDS Integers, Sequences, FiniteSets

CONSTANTS
    Keys,      \* pointers of the dump
    MaxLines,  \* bound: lines counted
    WordBits   \* width of size_t

SizeModulus == 2 ^ WordBits

\* The first characters of an action's name; the rest is never looked at.
NameOf(type) ==
    CASE type = "malloc" -> <<"m", "a">>
      [] type = "realloc" -> <<"r", "e">>
      [] type = "free" -> <<"f", "r">>
      [] type = "thread_done" -> <<"t", "h">>

Types == {"malloc", "realloc", "free", "thread_done"}

\* A colon is followed by a blank, or by several, or by none.
Blanks == {<<>>, <<" ">>, <<" ", " ">>}

VARIABLES
    num_allocs,
    live,   \* history: keys allocated and not freed
    adds,   \* history: lines that add a key to the pointer table
    lines   \* history: lines counted

vars == <<num_allocs, live, adds, lines>>

Init ==
    /\ num_allocs = 0
    /\ live = {}
    /\ adds = 0
    /\ lines = 0

\* Mutant: word is left at the start of the name, and a free counts down.
SkipBlanksToName(text) ==
    CHOOSE n \in DOMAIN text : text[n] # " " /\ \A m \in 1 .. n - 1 : text[m] = " "

\* The index in text where `while (*word++ == ' ')` leaves word.
SkipBlanks(text) ==
    LET first == CHOOSE n \in DOMAIN text :
                    /\ text[n] # " "
                    /\ \A m \in 1 .. n - 1 : text[m] = " "
    IN  first + 1

\* sscanf only matches "free %x" if word is at the start of the name.
Counted(text, key) ==
    LET word == SkipBlanks(text)
    IN  CASE text[word] = "f" ->
                IF key # 0 THEN (num_allocs + SizeModulus - 1) % SizeModulus ELSE num_allocs
          [] text[word] = "t" -> num_allocs
          [] OTHER -> (num_allocs + 1) % SizeModulus

\* key is 0 for a free of zero and for a thread_done.
Line(type, old, key) ==
    /\ lines < MaxLines
    /\ \/ type = "malloc" /\ key \in Keys \ live /\ old = 0
          /\ live' = live \cup {key}
       \/ type = "realloc" /\ old \in live \cup {0} /\ key \in Keys \ (live \ {old})
          /\ live' = (live \ {old}) \cup {key}
       \/ type = "free" /\ key \in live \cup {0} /\ old = 0
          /\ live' = live \ {key}
       \/ type = "thread_done" /\ key = 0 /\ old = 0
          /\ live' = live
    /\ \E blanks \in Blanks : num_allocs' = Counted(blanks \o NameOf(type), key)
    /\ adds' = IF type \in {"malloc", "realloc"} THEN adds + 1 ELSE adds
    /\ lines' = lines + 1

Next == \E type \in Types, old, key \in Keys \cup {0} : Line(type, old, key)

Spec == Init /\ [][Next]_vars

-----------------------------------------------------------------------------
\* The count covers every Add of the replay, which is what the size of the
\* pointer table rests on (SizeAssumption of Pointers.tla), also when the dump
\* frees most of its allocations before it ends (main.cpp 38-67).
CoversAdds == num_allocs >= adds
=============================================================================
