------------------------------ MODULE LoopProofs ------------------------------
(***************************************************************************)
(* Theorems about five components that are each one loop or one command:   *)
(* memory_replay's reader of lines and its count of allocations, the boot  *)
(* control HAL, the ANR daemon and perfprofd.                              *)
(***************************************************************************)
EXTENDS LineBuffer, SequenceTheorems, TLAPS

CONSTANTS
    Keys, MaxLines, WordBits,                                \* MaxAllocs
    Blocks, Silent, MaxUpdates, MaxCalls,                    \* BootControl
    Categories, idle_threshold, Loads, Tries, MaxSignals,    \* ANRdaemon
    ProfdKeys, Default, Permitted, NotCopied, ConfFiles,     \* PerfProfd
    Requests, Modes, MaxIterations, MaxMade, MaxStarts, MaxRestarts

VARIABLES
    num_allocs, live, adds, lines,
    misc, boot, image, running, boot_pc, op, info, copied, exit, updates, calls,
    anr_pc, quit, suspend, dump_requested, err, tracing, tracing_on, enabled, writing, tries, todo,
    dumping, signals, owed,
    mode, profd_pc, entries, config, conf, interrupted, is_profiling, iterations, child, hup,
    perfdata, proto, mpdecision, restart, profd_enabled, files, seq, produced, processed,
    uploaded, made, starts, restarts, announced, stale, stopped_at, late, left

Count == INSTANCE MaxAllocs

Boot == INSTANCE BootControl WITH pc <- boot_pc

Anr == INSTANCE ANRdaemon WITH pc <- anr_pc

Profd == INSTANCE PerfProfd WITH Keys <- ProfdKeys, pc <- profd_pc, enabled <- profd_enabled

-----------------------------------------------------------------------------
(***************************************************************************)
(* The reader of lines.  For every file, every size of buffer and every    *)
(* way that read cuts the file up, GetLine loses no character and returns  *)
(* the lines that the file alone determines.  TypeOK and BufferHoldsTheGap *)
(* together are inductive.                                                 *)
(***************************************************************************)

IInv == TypeOK /\ BufferHoldsTheGap

\* A leaf is tried with SMT, then with Zenon, then with SMT for longer.
USE SMT, Zenon, SMTT(30)

\* CHOOSE finds the least element of a set of numbers if there is one.
LEMMA LeastIsChosen ==
    ASSUME NEW S, S \subseteq Int, NEW q \in S, \A r \in S : q <= r
    PROVE  (CHOOSE x \in S : \A r \in S : x <= r) = q
<1>1. \E x \in S : \A r \in S : x <= r
    OBVIOUS
<1>2. PICK x \in S : /\ x = (CHOOSE y \in S : \A r \in S : y <= r)
                     /\ \A r \in S : x <= r
    BY <1>1
<1>3. x <= q /\ q <= x
    BY <1>2
<1> QED BY <1>2, <1>3

\* The buffer is empty and nothing has been read when GetLine is first called.
LEMMA InitEstablishes == Init => IInv
<1>1. <<>> \in Seq(0 .. Size)
    OBVIOUS
<1>2. Init => TypeOK
    <2> SUFFICES ASSUME Init PROVE TypeOK
        OBVIOUS
    <2>1. line \in Seq(0 .. Size)
        BY <1>1 DEF Init
    <2>2. buffer_ \in [Cells -> 0 .. Size]
        BY LineBufferAssumption DEF Init, Nul
    <2>3. newlines \subseteq 1 .. Size /\ eof \in BOOLEAN
        BY DEF Init
    <2>4. /\ start_ \in 0 .. buffer_len
          /\ bytes_ \in 0 .. buffer_len - 1
          /\ offset \in 0 .. Size
          /\ returned \in 0 .. Size
        BY LineBufferAssumption DEF Init
    <2> QED BY <2>1, <2>2, <2>3, <2>4 DEF TypeOK
<1>3. Init => BufferHoldsTheGap
    BY LineBufferAssumption DEF Init, BufferHoldsTheGap
<1> QED BY <1>2, <1>3 DEF IInv

\* The parts of a line are characters of the file.
LEMMA CellsAreCharacters ==
    ASSUME TypeOK, NEW first \in Nat, NEW n \in Nat, first + n <= buffer_len
    PROVE  CellsFrom(first, n) \in Seq(0 .. Size)
<1>1. \A j \in 1 .. n : buffer_[first + j - 1] \in 0 .. Size
    BY LineBufferAssumption DEF TypeOK, Cells
<1>2. CellsFrom(first, n) \in [1 .. n -> 0 .. Size]
    BY <1>1 DEF CellsFrom
<1> QED BY <1>2, SeqDef

\* Moving the unreturned part keeps its characters.
LEMMA CompactedHolds ==
    ASSUME IInv
    PROVE  /\ Compacted \in [Cells -> 0 .. Size]
           /\ \A c \in 0 .. bytes_ - 1 : Compacted[c] = returned + c + 1
<1> USE LineBufferAssumption DEF IInv, TypeOK, BufferHoldsTheGap, Cells
<1>1. \A c \in Cells : c < bytes_ => start_ + c \in Cells
    OBVIOUS
<1>2. Compacted \in [Cells -> 0 .. Size]
    BY <1>1 DEF Compacted
<1>3. \A c \in 0 .. bytes_ - 1 : c \in Cells /\ Compacted[c] = buffer_[start_ + c]
    BY DEF Compacted
<1> QED BY <1>2, <1>3

\* Every pass of the loop of GetLine keeps the unreturned part of the buffer
\* equal to the text between the last line and the descriptor.
LEMMA NextPreserves == IInv /\ [Next]_vars => IInv'
<1> SUFFICES ASSUME IInv, [Next]_vars
             PROVE  IInv'
    OBVIOUS
<1> USE LineBufferAssumption
<1>1. CASE ReturnLine
    <2>1. PICK newline \in FirstNewline :
            /\ buffer_' = [buffer_ EXCEPT ![newline] = Nul]
            /\ line' = CellsFrom(start_, newline - start_)
            /\ start_' = newline + 1
            /\ bytes_' = bytes_ - (newline - start_ + 1)
            /\ returned' = returned + (newline - start_) + 1
        BY <1>1 DEF ReturnLine
    <2>2. UNCHANGED <<newlines, offset, eof>>
        BY <1>1 DEF ReturnLine
    <2>3. newline \in start_ .. start_ + bytes_ - 1
        BY <2>1 DEF FirstNewline, NewlineCells
    <2>4. line' \in Seq(0 .. Size)
        BY <2>1, <2>3, CellsAreCharacters DEF IInv, TypeOK, BufferHoldsTheGap
    <2>5. TypeOK'
        <3>1. buffer_' \in [Cells -> 0 .. Size]
            <4>1. buffer_ \in [Cells -> 0 .. Size] /\ Nul \in 0 .. Size
                BY DEF IInv, TypeOK, Nul
            <4> QED BY <2>1, <4>1
        <3>2. /\ start_' \in 0 .. buffer_len
              /\ bytes_' \in 0 .. buffer_len - 1
              /\ returned' \in 0 .. Size
            BY <2>1, <2>3 DEF IInv, TypeOK, BufferHoldsTheGap
        <3> QED BY <2>2, <2>4, <3>1, <3>2 DEF IInv, TypeOK
    <2>6. ASSUME NEW c \in 0 .. bytes_' - 1
          PROVE  buffer_'[start_' + c] = returned' + c + 1
        <3>1. newline - start_ + 1 + c \in 0 .. bytes_ - 1
            BY <2>1, <2>3 DEF IInv, TypeOK
        <3>2. start_ + (newline - start_ + 1 + c) = start_' + c
            BY <2>1, <2>3 DEF IInv, TypeOK
        <3>3. buffer_[start_' + c] = returned + (newline - start_ + 1 + c) + 1
            BY <3>1, <3>2 DEF IInv, BufferHoldsTheGap
        <3>4. start_' + c \in Cells /\ start_' + c # newline
            BY <2>1, <2>3, <3>1 DEF IInv, TypeOK, BufferHoldsTheGap, Cells
        <3> QED BY <2>1, <2>3, <3>3, <3>4 DEF IInv, TypeOK
    <2>7. returned' + bytes_' = offset' /\ start_' + bytes_' <= buffer_len - 1
        BY <2>1, <2>2, <2>3 DEF IInv, TypeOK, BufferHoldsTheGap
    <2> QED BY <2>5, <2>6, <2>7 DEF IInv, BufferHoldsTheGap
<1>2. ASSUME NEW n \in 1 .. buffer_len - 1, Read(n)
      PROVE  IInv'
    <2>1. \A c \in Cells : c \in bytes_ .. bytes_ + n - 1
                            => offset + (c - bytes_) + 1 \in 0 .. Size
        BY <1>2 DEF Read, IInv, TypeOK, Cells
    <2>2. buffer_' \in [Cells -> 0 .. Size]
        BY <1>2, <2>1, CompactedHolds DEF Read
    <2>3. TypeOK'
        BY <1>2, <2>2 DEF Read, IInv, TypeOK
    <2>4. ASSUME NEW c \in 0 .. bytes_' - 1
          PROVE  buffer_'[start_' + c] = returned' + c + 1
        <3>1. c \in Cells /\ start_' + c = c
            BY <1>2 DEF Read, IInv, TypeOK, Cells
        <3>2. CASE c < bytes_
            BY <1>2, <3>1, <3>2, CompactedHolds DEF Read, IInv, TypeOK
        <3>3. CASE ~(c < bytes_)
            BY <1>2, <3>1, <3>3 DEF Read, IInv, TypeOK, BufferHoldsTheGap
        <3> QED BY <3>2, <3>3
    <2>5. returned' + bytes_' = offset' /\ start_' + bytes_' <= buffer_len - 1
        BY <1>2 DEF Read, IInv, TypeOK, BufferHoldsTheGap
    <2> QED BY <2>3, <2>4, <2>5 DEF IInv, BufferHoldsTheGap
<1>3. CASE ReturnRest
    <2>1. line' \in Seq(0 .. Size)
        BY <1>3, CellsAreCharacters DEF ReturnRest, IInv, TypeOK, BufferHoldsTheGap
    <2>2. /\ buffer_' = [Compacted EXCEPT ![bytes_] = Nul]
          /\ start_' = 0 /\ bytes_' = 0 /\ returned' = returned + bytes_
          /\ UNCHANGED <<newlines, offset, eof>>
        BY <1>3 DEF ReturnRest
    <2>3. buffer_' \in [Cells -> 0 .. Size]
        <3>1. Compacted \in [Cells -> 0 .. Size]
            BY CompactedHolds
        <3>2. Nul \in 0 .. Size
            BY DEF Nul
        <3> HIDE DEF Cells
        <3> QED BY <2>2, <3>1, <3>2
    <2>4. /\ start_' \in 0 .. buffer_len
          /\ bytes_' \in 0 .. buffer_len - 1
          /\ returned' \in 0 .. Size
        BY <2>2 DEF IInv, TypeOK, BufferHoldsTheGap
    <2>5. TypeOK'
        BY <2>1, <2>2, <2>3, <2>4 DEF IInv, TypeOK
    <2>6. returned' + bytes_' = offset' /\ start_' + bytes_' <= buffer_len - 1
        BY <2>2 DEF IInv, TypeOK, BufferHoldsTheGap
    <2>7. \A c \in 0 .. bytes_' - 1 : buffer_'[start_' + c] = returned' + c + 1
        BY <2>2
    <2> QED BY <2>5, <2>6, <2>7 DEF IInv, BufferHoldsTheGap
<1>4. CASE ReturnFalse
    BY <1>4 DEF ReturnFalse, IInv, TypeOK, BufferHoldsTheGap
<1>5. CASE UNCHANGED vars
    BY <1>5 DEF vars, IInv, TypeOK, BufferHoldsTheGap
<1> QED BY <1>1, <1>2, <1>3, <1>4, <1>5 DEF Next

\* The types of the buffer's cells, indices and counts hold in every state.
THEOREM TypeCorrect == Spec => []TypeOK
<1>1. IInv => TypeOK
    BY DEF IInv
<1> QED BY <1>1, InitEstablishes, NextPreserves, PTL DEF Spec

\* GetLine neither loses a character nor returns one twice, for every file,
\* size of buffer and way that read cuts the file up.
THEOREM NothingLost == Spec => []BufferHoldsTheGap
<1>1. IInv => BufferHoldsTheGap
    BY DEF IInv
<1> QED BY <1>1, InitEstablishes, NextPreserves, PTL DEF Spec

-----------------------------------------------------------------------------
\* A line that GetLine ends at position q is the one that the file determines
\* if q is a stop and there is none before it.
LEMMA EndsAt ==
    ASSUME IInv, NEW q \in returned .. Size,
           q = Size \/ q + 1 \in newlines \/ q = returned + buffer_len - 1,
           \A r \in returned .. q - 1 :
                r # Size /\ r + 1 \notin newlines /\ r # returned + buffer_len - 1
    PROVE  LineEnd(returned) = q
<1> DEFINE stops == {r \in returned .. Size :
                        \/ r = Size
                        \/ r + 1 \in newlines
                        \/ r = returned + buffer_len - 1}
<1>1. stops \subseteq Int /\ q \in stops
    BY DEF IInv, TypeOK
<1>2. \A r \in stops : q <= r
    BY DEF IInv, TypeOK
<1>3. (CHOOSE x \in stops : \A r \in stops : x <= r) = q
    <2> HIDE DEF stops
    <2> QED BY <1>1, <1>2, LeastIsChosen
<1> QED BY <1>3 DEF LineEnd

\* The cells of a line are the characters after the last one returned.
LEMMA CellsAreTheText ==
    ASSUME IInv, NEW n \in 0 .. bytes_
    PROVE  CellsFrom(start_, n) = [j \in 1 .. n |-> returned + j]
<1>1. \A j \in 1 .. n : buffer_[start_ + j - 1] = returned + j
    <2> SUFFICES ASSUME NEW j \in 1 .. n
                 PROVE  buffer_[start_ + j - 1] = returned + j
        OBVIOUS
    <2>1. j - 1 \in 0 .. bytes_ - 1 /\ start_ + (j - 1) = start_ + j - 1
        BY LineBufferAssumption DEF IInv, TypeOK
    <2>2. buffer_[start_ + (j - 1)] = returned + (j - 1) + 1
        BY <2>1 DEF IInv, BufferHoldsTheGap
    <2> QED BY <2>1, <2>2 DEF IInv, TypeOK
<1> QED BY <1>1 DEF CellsFrom

\* A character of the unreturned part is a newline just when its cell is one
\* of those that memchr looks for.
LEMMA NewlineIsInACell ==
    ASSUME IInv, NEW c \in 0 .. bytes_ - 1
    PROVE  returned + c + 1 \in newlines <=> start_ + c \in NewlineCells
BY LineBufferAssumption DEF IInv, TypeOK, BufferHoldsTheGap, NewlineCells

\* Every line that GetLine returns is the one that the file alone determines,
\* however read cut the file into pieces.
THEOREM LinesAreTheFiles == Spec => ReturnsTheLines
<1> DEFINE A == returned' # returned =>
                  line' = [j \in 1 .. LineEnd(returned) - returned |-> returned + j]
<1>1. IInv /\ [Next]_vars => A
    <2> SUFFICES ASSUME IInv, [Next]_vars, returned' # returned
                 PROVE  line' = [j \in 1 .. LineEnd(returned) - returned |-> returned + j]
        OBVIOUS
    <2> USE LineBufferAssumption
    <2>0. /\ returned \in Int /\ start_ \in Int /\ bytes_ \in Int
          /\ Size \in Int /\ buffer_len \in Int /\ bytes_ <= buffer_len - 1
        BY DEF IInv, TypeOK
    <2>1. CASE ReturnLine
        <3>1. PICK newline \in FirstNewline :
                line' = CellsFrom(start_, newline - start_)
            BY <2>1 DEF ReturnLine
        <3> DEFINE n == newline - start_
        <3>2. newline \in NewlineCells /\ newline \in start_ .. start_ + bytes_ - 1
            BY DEF FirstNewline, NewlineCells
        <3>3. n \in 0 .. bytes_ - 1 /\ start_ + n = newline
            BY <3>2 DEF IInv, TypeOK
        <3>4. returned + n \in returned .. Size
            BY <3>3 DEF IInv, TypeOK, BufferHoldsTheGap
        <3>5. returned + n + 1 \in newlines
            BY <3>2, <3>3, NewlineIsInACell
        <3>6. ASSUME NEW r \in returned .. returned + n - 1
              PROVE  r # Size /\ r + 1 \notin newlines /\ r # returned + buffer_len - 1
            <4>1. r - returned \in 0 .. bytes_ - 1 /\ returned + (r - returned) + 1 = r + 1
                BY <2>0, <3>3
            <4>2. start_ + (r - returned) < newline
                BY <2>0, <3>3
            <4>3. start_ + (r - returned) \notin NewlineCells
                BY <3>2, <4>2 DEF FirstNewline, IInv, TypeOK
            <4>4. r + 1 \notin newlines
                BY <4>1, <4>3, NewlineIsInACell
            <4>5. r # Size /\ r # returned + buffer_len - 1
                BY <2>0, <3>3, <3>4
            <4> QED BY <4>4, <4>5
        <3>7. LineEnd(returned) = returned + n
            <4> HIDE DEF n
            <4> DEFINE q == returned + n
            <4>1. q \in returned .. Size /\ q + 1 \in newlines
                BY <3>4, <3>5
            <4>2. \A r \in returned .. q - 1 :
                    r # Size /\ r + 1 \notin newlines /\ r # returned + buffer_len - 1
                BY <2>0, <3>3, <3>6
            <4> HIDE DEF q
            <4>3. LineEnd(returned) = q
                BY <4>1, <4>2, EndsAt
            <4> QED BY <4>3 DEF q
        <3>8. line' = [j \in 1 .. n |-> returned + j]
            <4>1. n \in 0 .. bytes_
                BY <2>0, <3>3
            <4> QED BY <3>1, <4>1, CellsAreTheText
        <3>9. LineEnd(returned) - returned = n
            BY <2>0, <3>3, <3>7
        <3> QED BY <3>8, <3>9
    <2>2. CASE ReturnRest
        <3>1. returned + bytes_ \in returned .. Size
            BY DEF IInv, TypeOK, BufferHoldsTheGap
        <3>2. returned + bytes_ = Size \/ returned + bytes_ = returned + buffer_len - 1
            BY <2>2 DEF ReturnRest, ReadReturnsZero, IInv, TypeOK, BufferHoldsTheGap
        <3>3. ASSUME NEW r \in returned .. returned + bytes_ - 1
              PROVE  r # Size /\ r + 1 \notin newlines /\ r # returned + buffer_len - 1
            <4>1. r - returned \in 0 .. bytes_ - 1 /\ returned + (r - returned) + 1 = r + 1
                BY DEF IInv, TypeOK
            <4>2. r + 1 \notin newlines
                BY <2>2, <4>1, NewlineIsInACell DEF ReturnRest
            <4>3. r # Size /\ r # returned + buffer_len - 1
                BY <2>0, <3>1
            <4> QED BY <4>2, <4>3
        <3>4. LineEnd(returned) = returned + bytes_
            <4> DEFINE q == returned + bytes_
            <4>1. /\ q \in returned .. Size
                  /\ q = Size \/ q = returned + buffer_len - 1
                BY <3>1, <3>2
            <4>2. \A r \in returned .. q - 1 :
                    r # Size /\ r + 1 \notin newlines /\ r # returned + buffer_len - 1
                BY <2>0, <3>3
            <4> HIDE DEF q
            <4>3. LineEnd(returned) = q
                BY <4>1, <4>2, EndsAt
            <4> QED BY <4>3 DEF q
        <3>5. line' = [j \in 1 .. bytes_ |-> returned + j]
            <4>1. bytes_ \in 0 .. bytes_
                BY DEF IInv, TypeOK
            <4> QED BY <2>2, <4>1, CellsAreTheText DEF ReturnRest
        <3>6. LineEnd(returned) - returned = bytes_
            BY <2>0, <3>4
        <3> QED BY <3>5, <3>6
    <2>3. CASE (\E n \in 1 .. buffer_len - 1 : Read(n)) \/ ReturnFalse \/ UNCHANGED vars
        BY <2>3 DEF Read, ReturnFalse, vars
    <2> QED BY <2>1, <2>2, <2>3 DEF Next
<1>2. IInv /\ [Next]_vars => [A]_vars
    BY <1>1
<1>3. Init /\ [][Next]_vars => [][A]_vars
    <2> HIDE DEF A
    <2> QED BY <1>2, InitEstablishes, NextPreserves, PTL
<1> QED BY <1>3, PTL DEF Spec, ReturnsTheLines

-----------------------------------------------------------------------------
(***************************************************************************)
(* The count of allocations.  The loop that skips blanks leaves word one   *)
(* character past the start of the name, so that no line is seen to be a   *)
(* free or the end of a thread and every line counts as an allocation.     *)
(***************************************************************************)

\* size_t counts more lines than the dump has.
CountFits == Count!SizeModulus \in Nat /\ MaxLines \in Nat /\ MaxLines < Count!SizeModulus

\* Every line has been counted, and not every line adds a key.
CountInv ==
    /\ num_allocs = lines
    /\ lines \in 0 .. MaxLines
    /\ adds \in 0 .. lines

\* The blank that GetMaxAllocs skips.
Space == " "

\* The first character that is not b.
LEMMA FirstOther ==
    ASSUME NEW b, NEW text, NEW n \in Nat, DOMAIN text = 1 .. n + 2,
           \A m \in 1 .. n : text[m] = b, text[n + 1] # b
    PROVE  (CHOOSE i \in DOMAIN text : text[i] # b /\ \A m \in 1 .. i - 1 : text[m] = b) = n + 1
<1> DEFINE P(i) == text[i] # b /\ \A m \in 1 .. i - 1 : text[m] = b
           first == CHOOSE i \in DOMAIN text : P(i)
<1>1. n + 1 \in DOMAIN text /\ P(n + 1)
    OBVIOUS
<1>2. first \in DOMAIN text /\ P(first)
    BY <1>1
<1>3. first = n + 1
    <2> HIDE DEF first
    <2>1. first \in 1 .. n + 2 /\ text[first] # b
        BY <1>2
    <2>2. ~(first <= n)
        BY <2>1
    <2>3. ~(first = n + 2)
        <3> SUFFICES ASSUME first = n + 2 PROVE FALSE
            OBVIOUS
        <3>1. n + 1 \in 1 .. first - 1
            OBVIOUS
        <3> QED BY <1>2, <3>1
    <2> QED BY <2>1, <2>2, <2>3
<1> QED BY <1>3

\* word is left one past the first character of the name.
LEMMA WordIsOneTooFar ==
    ASSUME NEW text, NEW n \in Nat, DOMAIN text = 1 .. n + 2,
           \A m \in 1 .. n : text[m] = Space, text[n + 1] # Space
    PROVE  Count!SkipBlanks(text) = n + 2
<1> DEFINE first == CHOOSE i \in DOMAIN text : text[i] # Space /\ \A m \in 1 .. i - 1 : text[m] = Space
<1>1. first = n + 1
    BY FirstOther
<1>2. Count!SkipBlanks(text) = first + 1
    BY Zenon DEF Count!SkipBlanks, Space
<1> HIDE DEF first
<1> QED BY <1>1, <1>2

\* Whatever its action, a line counts one up.
LEMMA EveryLineCounts ==
    ASSUME NEW type \in Count!Types, NEW blanks \in Count!Blanks, NEW key
    PROVE  Count!Counted(blanks \o Count!NameOf(type), key) = (num_allocs + 1) % Count!SizeModulus
<1> DEFINE name == Count!NameOf(type)
           n == Len(blanks)
           text == blanks \o name
<1>1. PICK c, d : name = <<c, d>> /\ c # Space /\ d # "f" /\ d # "t"
    <2>1. \/ name = <<"m", "a">> \/ name = <<"r", "e">> \/ name = <<"f", "r">> \/ name = <<"t", "h">>
        BY DEF Count!NameOf, Count!Types
    <2>2. "m" # Space /\ "r" # Space /\ "f" # Space /\ "t" # Space
        BY Zenon DEF Space
    <2>3. "a" # "f" /\ "e" # "f" /\ "r" # "f" /\ "h" # "f" /\ "a" # "t" /\ "e" # "t" /\ "r" # "t" /\ "h" # "t"
        OBVIOUS
    <2> HIDE DEF name
    <2> QED BY Zenon, <2>1, <2>2, <2>3
<1> DEFINE C == {Space, c, d}
<1>2. /\ blanks \in Seq(C) /\ n \in Nat /\ \A m \in 1 .. n : blanks[m] = Space
    <2>1. blanks = <<>> \/ blanks = <<Space>> \/ blanks = <<Space, Space>>
        BY Zenon DEF Count!Blanks, Space
    <2> HIDE DEF name
    <2>2. CASE blanks = <<>>
        BY <2>2
    <2>3. CASE blanks = <<Space>>
        BY <2>3
    <2>4. CASE blanks = <<Space, Space>>
        BY <2>4
    <2> QED BY <2>1, <2>2, <2>3, <2>4
<1> HIDE DEF name
<1>3. name \in Seq(C) /\ Len(name) = 2 /\ name[1] = c /\ name[2] = d
    BY <1>1
<1> HIDE DEF n, C
<1>4. /\ text \in Seq(C) /\ Len(text) = n + 2
      /\ \A m \in 1 .. n + 2 : text[m] = IF m <= n THEN blanks[m] ELSE name[m - n]
    <2>1. Len(blanks) = n
        BY DEF n
    <2>2. /\ blanks \o name \in Seq(C) /\ Len(blanks \o name) = n + 2
          /\ \A m \in 1 .. n + 2 : (blanks \o name)[m] = IF m <= n THEN blanks[m] ELSE name[m - n]
        <3>1. /\ blanks \o name \in Seq(C) /\ Len(blanks \o name) = Len(blanks) + Len(name)
              /\ \A m \in 1 .. Len(blanks) + Len(name) :
                    (blanks \o name)[m] = IF m <= Len(blanks) THEN blanks[m] ELSE name[m - Len(blanks)]
            BY Zenon, <1>2, <1>3, ConcatProperties
        <3>2. Len(blanks) + Len(name) = n + 2
            BY <1>3, <2>1
        <3> QED BY Zenon, <2>1, <3>1, <3>2
    <2> QED BY <2>2
<1> HIDE DEF text
<1>5. /\ DOMAIN text = 1 .. n + 2
      /\ \A m \in 1 .. n : text[m] = Space
      /\ text[n + 1] # Space /\ text[n + 2] = d
    <2>1. DOMAIN text = 1 .. n + 2
        BY <1>2, <1>4
    <2>2. \A m \in 1 .. n : text[m] = Space
        BY <1>2, <1>4
    <2>3. text[n + 1] = name[1] /\ text[n + 2] = name[2]
        BY <1>2, <1>4
    <2> QED BY <1>1, <1>3, <2>1, <2>2, <2>3
<1>6. Count!SkipBlanks(text) = n + 2
    BY <1>2, <1>5, WordIsOneTooFar
<1>7. Count!Counted(text, key) = (num_allocs + 1) % Count!SizeModulus
    BY <1>1, <1>5, <1>6 DEF Count!Counted
<1> QED BY <1>7 DEF text, name

\* A line counts one up, and at most one key is added.
LEMMA CountKept == CountFits /\ CountInv /\ [Count!Next]_(Count!vars) => CountInv'
<1> SUFFICES ASSUME CountFits, CountInv, [Count!Next]_(Count!vars) PROVE CountInv'
    OBVIOUS
<1>1. CASE Count!Next
    <2>1. PICK type \in Count!Types, old \in Keys \cup {0}, key \in Keys \cup {0} :
              Count!Line(type, old, key)
        BY <1>1 DEF Count!Next
    <2>2. PICK blanks \in Count!Blanks :
              num_allocs' = Count!Counted(blanks \o Count!NameOf(type), key)
        BY <2>1 DEF Count!Line
    <2>3. num_allocs' = (num_allocs + 1) % Count!SizeModulus
        BY <2>2, EveryLineCounts
    <2>4. lines < MaxLines /\ lines' = lines + 1 /\ adds' \in {adds, adds + 1}
        BY <2>1 DEF Count!Line
    <2>5. num_allocs' = num_allocs + 1
        <3> DEFINE N == Count!SizeModulus
        <3>1. N \in Nat /\ num_allocs \in Nat /\ num_allocs + 1 < N
            BY <2>4 DEF CountFits, CountInv
        <3> HIDE DEF N
        <3>2. (num_allocs + 1) % N = num_allocs + 1
            BY <3>1
        <3> QED BY <2>3, <3>2 DEF N
    <2> QED BY <2>4, <2>5 DEF CountInv, CountFits
<1>2. CASE UNCHANGED Count!vars
    BY <1>2 DEF CountInv, Count!vars
<1> QED BY <1>1, <1>2

\* GetMaxAllocs counts at least the Adds of the replay, for every dump of fewer
\* lines than size_t counts, however many blanks follow a colon: the pointer
\* table is never too small.
THEOREM CountCoversAdds == ASSUME CountFits PROVE Count!Spec => []Count!CoversAdds
<1>1. Count!Init => CountInv
    BY DEF Count!Init, CountInv, CountFits
<1>2. CountInv => Count!CoversAdds
    BY DEF CountInv, Count!CoversAdds, CountFits
<1>3. CountInv /\ [Count!Next]_(Count!vars) => CountInv'
    BY CountKept
<1> QED BY <1>1, <1>2, <1>3, PTL DEF Count!Spec

-----------------------------------------------------------------------------
(***************************************************************************)
(* The boot slots.                                                         *)
(***************************************************************************)

\* The information on misc, or in memory.
BootInfo == [magic : BOOLEAN, suffix : 0 .. 2, active_slot : 0 .. 1, bootable : [0 .. 1 -> BOOLEAN]]

\* The contents of a boot partition.
Contents == [1 .. Blocks -> Nat]

\* The type of every variable of BootControl.
BootTypeOK ==
    /\ misc \in BootInfo
    /\ info \in BootInfo
    /\ boot \in Contents
    /\ image \in [0 .. 1 -> Contents]
    /\ running \in 0 .. 1
    /\ boot_pc \in {"idle", "save", "open", "copy"}
    /\ op \in [command : Boot!Commands \cup {"none"}, slot : 0 .. 2]
    /\ copied \in 0 .. Blocks
    /\ exit \in {"none", "ok", "failed"}
    /\ updates \in Nat

\* misc names slot s.
Names(s) == misc.magic /\ misc.suffix = s /\ misc.active_slot = s /\ misc.bootable[s]

\* A command that runs has not returned yet; when it copies, misc already names
\* the slot, and what was copied is of its image.
BootInv ==
    /\ BootTypeOK
    /\ boot_pc # "idle" => exit = "none" /\ op.slot \in 0 .. 1
    /\ boot_pc = "save" => info.magic /\ copied = 0
    /\ boot_pc \in {"open", "copy"} => op.command = "set-active-boot-slot" /\ Names(op.slot)
    /\ boot_pc = "open" => copied = 0
    /\ boot_pc = "copy" => \A b \in 1 .. copied : boot[b] = image[op.slot][b]
    /\ Boot!SwitchedWhenOk

\* A call that fails sets errno, and a partition has a size.
ErrnoSet == Silent = FALSE /\ Blocks \in Nat

\* A failure is then reported as one.
LEMMA FailureIsReported ==
    ASSUME ErrnoSet, Boot!ReturnErrno
    PROVE  boot_pc' = "idle" /\ exit' = "failed"
BY DEF ErrnoSet, Boot!ReturnErrno, Boot!Return

\* What the module works on is a valid BrilloBootInfo, whether misc could be
\* read or not.
LEMMA LoadedIsValid ==
    ASSUME misc \in BootInfo, NEW reads \in BOOLEAN
    PROVE  Boot!Loaded(reads) \in BootInfo /\ Boot!Loaded(reads).magic
<1>1. Boot!boot_info_reset \in BootInfo /\ Boot!boot_info_reset.magic
    <2>1. [s \in 0 .. 1 |-> FALSE] \in [0 .. 1 -> BOOLEAN]
        OBVIOUS
    <2> QED BY <2>1 DEF Boot!boot_info_reset, BootInfo, Boot!Slot, Boot!NoSlot
<1> QED BY <1>1 DEF Boot!Loaded, Boot!boot_info_validate

\* Where no command runs, the invariant is the type and what SwitchedWhenOk says.
LEMMA IdleIsSettled ==
    ASSUME boot_pc' = "idle", BootTypeOK', Boot!SwitchedWhenOk'
    PROVE  BootInv'
BY DEF BootInv

\* A command that changes a slot starts with valid information; the others
\* return at once.
LEMMA CommandKeeps ==
    ASSUME ErrnoSet, BootInv, NEW c \in Boot!Commands, NEW slot \in 0 .. 2, NEW reads \in BOOLEAN,
           Boot!Command(c, slot, reads)
    PROVE  BootInv'
<1>1. /\ op' = [command |-> c, slot |-> slot] /\ copied' = 0
      /\ UNCHANGED <<misc, boot, image, running, updates>>
      /\ op'.command = c /\ op'.slot = slot
    BY DEF Boot!Command
<1>2. op' \in [command : Boot!Commands \cup {"none"}, slot : 0 .. 2]
    BY <1>1
<1>3. ASSUME boot_pc' = "save", info' = Boot!Loaded(reads), exit' = "none", slot \in 0 .. 1
      PROVE  BootInv'
    <2>1. info' \in BootInfo /\ info'.magic
        BY <1>3, LoadedIsValid DEF BootInv, BootTypeOK
    <2>2. BootTypeOK'
        BY <1>1, <1>2, <1>3, <2>1 DEF BootInv, BootTypeOK, ErrnoSet
    <2>3. Boot!SwitchedWhenOk'
        BY <1>3 DEF Boot!SwitchedWhenOk
    <2> QED BY <1>1, <1>3, <2>1, <2>2, <2>3 DEF BootInv
<1>4. ASSUME boot_pc' = "idle", exit' \in {"ok", "failed"}, info' = info,
             c = "set-active-boot-slot" => exit' = "failed"
      PROVE  BootInv'
    <2>1. BootTypeOK'
        BY <1>1, <1>2, <1>4 DEF BootInv, BootTypeOK, ErrnoSet
    <2>2. Boot!SwitchedWhenOk'
        BY <1>1, <1>4 DEF Boot!SwitchedWhenOk
    <2> QED BY <1>4, <2>1, <2>2, IdleIsSettled
<1> QED BY <1>3, <1>4 DEF Boot!Command, Boot!Return, Boot!Slot

\* What module_setActiveBootSlot writes to misc names the slot.
LEMMA ChangedNames ==
    ASSUME BootInv, boot_pc = "save"
    PROVE  /\ Boot!Changed \in BootInfo /\ Boot!Changed.magic
           /\ op.command = "set-active-boot-slot" =>
                /\ Boot!Changed.suffix = op.slot /\ Boot!Changed.active_slot = op.slot
                /\ Boot!Changed.bootable[op.slot]
<1>1. info \in BootInfo /\ info.magic /\ op.slot \in 0 .. 1
    BY DEF BootInv, BootTypeOK
<1>2. \A v \in BOOLEAN : /\ [info.bootable EXCEPT ![op.slot] = v] \in [0 .. 1 -> BOOLEAN]
                         /\ [info.bootable EXCEPT ![op.slot] = v][op.slot] = v
    BY <1>1 DEF BootInfo
<1> DEFINE changed(v) == [info.bootable EXCEPT ![op.slot] = v]
<1>3. CASE op.command = "set-active-boot-slot"
    <2>1. Boot!Changed = [magic |-> info.magic, suffix |-> op.slot, active_slot |-> op.slot,
                          bootable |-> changed(TRUE)]
        BY Zenon, <1>1, <1>3 DEF Boot!Changed, BootInfo
    <2> QED BY <1>1, <1>2, <2>1 DEF BootInfo
<1>4. CASE op.command # "set-active-boot-slot"
    <2>1. Boot!Changed = [magic |-> info.magic, suffix |-> info.suffix, active_slot |-> info.active_slot,
                          bootable |-> changed(FALSE)]
        BY Zenon, <1>1, <1>4 DEF Boot!Changed, BootInfo
    <2> QED BY <1>1, <1>2, <1>4, <2>1 DEF BootInfo
<1> QED BY <1>3, <1>4

\* boot_info_save.
LEMMA SaveKeeps ==
    ASSUME ErrnoSet, BootInv, NEW saves \in BOOLEAN, Boot!Save(saves)
    PROVE  BootInv'
<1>1. /\ boot_pc = "save" /\ info' = Boot!Changed
      /\ UNCHANGED <<boot, image, running, op, copied, updates>>
    BY DEF Boot!Save
<1>2. info' \in BootInfo
    BY <1>1, ChangedNames
<1>3. exit = "none" /\ op.slot \in 0 .. 1 /\ copied = 0
    BY <1>1 DEF BootInv
<1>4. CASE saves /\ op.command = "set-active-boot-slot"
    <2>1. boot_pc' = "open" /\ exit' = exit /\ misc' = Boot!Changed
        BY <1>1, <1>4 DEF Boot!Save
    <2>2. Names(op.slot)'
        BY <1>1, <1>4, <2>1, ChangedNames DEF Names
    <2>3. misc' \in BootInfo
        BY <1>1, <2>1, ChangedNames
    <2>4. BootTypeOK'
        BY <1>1, <1>2, <2>1, <2>3 DEF BootInv, BootTypeOK
    <2>5. Boot!SwitchedWhenOk'
        BY <1>3, <2>1 DEF Boot!SwitchedWhenOk
    <2>6. exit' = "none" /\ op' = op /\ copied' = 0
        BY <1>1, <1>3, <2>1
    <2>7. op'.slot \in 0 .. 1 /\ op'.command = "set-active-boot-slot"
        BY <1>3, <1>4, <2>6
    <2> QED BY <2>1, <2>2, <2>4, <2>5, <2>6, <2>7 DEF BootInv
<1>5. CASE saves /\ op.command # "set-active-boot-slot"
    <2>1. boot_pc' = "idle" /\ exit' = "ok" /\ misc' = Boot!Changed
        BY <1>1, <1>5 DEF Boot!Save, Boot!Return
    <2>2. misc' \in BootInfo
        BY <1>1, <2>1, ChangedNames
    <2>3. BootTypeOK'
        BY <1>1, <1>2, <2>1, <2>2 DEF BootInv, BootTypeOK
    <2>4. Boot!SwitchedWhenOk'
        BY <1>1, <1>5 DEF Boot!SwitchedWhenOk
    <2> QED BY <2>1, <2>3, <2>4, IdleIsSettled
<1>6. CASE ~saves
    <2>1. boot_pc' = "idle" /\ exit' = "failed" /\ misc' = misc
        BY <1>6, FailureIsReported DEF Boot!Save
    <2>2. BootTypeOK'
        BY <1>1, <1>2, <2>1 DEF BootInv, BootTypeOK
    <2>3. Boot!SwitchedWhenOk'
        BY <2>1 DEF Boot!SwitchedWhenOk
    <2> QED BY <2>1, <2>2, <2>3, IdleIsSettled
<1> QED BY <1>4, <1>5, <1>6

\* The outcomes of opening both partitions.
Outcomes == {"opened", "failed", "sizes differ"}

\* Both partitions are opened, or the call fails.
LEMMA OpenKeeps ==
    ASSUME ErrnoSet, BootInv, NEW how \in Outcomes, Boot!Open(how)
    PROVE  BootInv'
<1>1. boot_pc = "open" /\ UNCHANGED <<misc, boot, image, running, op, info, copied, updates>>
    BY DEF Boot!Open
<1>2. \/ boot_pc' = "copy" /\ exit' = exit
      \/ boot_pc' = "idle" /\ exit' = "failed"
    BY Zenon, FailureIsReported DEF Boot!Open, Boot!Return, Outcomes
<1>3. /\ exit = "none" /\ op.slot \in 0 .. 1 /\ op.command = "set-active-boot-slot" /\ copied = 0
      /\ Names(op.slot)' /\ BootTypeOK'
    <2>1. /\ exit = "none" /\ op.slot \in 0 .. 1 /\ op.command = "set-active-boot-slot" /\ copied = 0
          /\ Names(op.slot)
        BY <1>1 DEF BootInv
    <2>2. Names(op.slot)'
        BY <1>1, <2>1 DEF Names
    <2>3. BootTypeOK'
        BY <1>1, <1>2 DEF BootInv, BootTypeOK
    <2> QED BY <2>1, <2>2, <2>3
<1>4. \A b \in 1 .. copied' : boot'[b] = image'[op'.slot][b]
    <2>1. copied' = 0
        BY <1>1, <1>3
    <2> QED BY <2>1
<1>5. Boot!SwitchedWhenOk'
    BY <1>2, <1>3 DEF Boot!SwitchedWhenOk
<1> QED BY <1>1, <1>2, <1>3, <1>4, <1>5 DEF BootInv

\* copy_data: a block more is of the image, and at the end all are.
LEMMA CopyKeeps ==
    ASSUME ErrnoSet, BootInv, NEW works \in BOOLEAN, Boot!Copy(works)
    PROVE  BootInv'
<1>1. boot_pc = "copy" /\ UNCHANGED <<misc, image, running, op, info, updates>>
    BY DEF Boot!Copy
<1>2. /\ exit = "none" /\ op.slot \in 0 .. 1 /\ op.command = "set-active-boot-slot" /\ Names(op.slot)
      /\ \A b \in 1 .. copied : boot[b] = image[op.slot][b]
      /\ copied \in 0 .. Blocks /\ boot \in Contents /\ image[op.slot] \in Contents
    BY <1>1 DEF BootInv, BootTypeOK
<1>3. Names(op.slot)'
    BY <1>1, <1>2 DEF Names
<1>4. CASE works /\ copied < Blocks
    <2>1. /\ boot' = [boot EXCEPT ![copied + 1] = image[op.slot][copied + 1]]
          /\ copied' = copied + 1 /\ boot_pc' = boot_pc /\ exit' = exit
        BY <1>4 DEF Boot!Copy, Boot!Size
    <2>2. boot' \in Contents /\ copied' \in 0 .. Blocks
        BY <1>2, <1>4, <2>1 DEF Contents, ErrnoSet
    <2>3. \A b \in 1 .. copied' : boot'[b] = image[op.slot][b]
        <3>1. DOMAIN boot = 1 .. Blocks /\ copied + 1 \in 1 .. Blocks
            BY <1>2, <1>4 DEF Contents, ErrnoSet
        <3>2. \A b \in 1 .. copied + 1 : b \in 1 .. Blocks /\ (b = copied + 1 \/ b \in 1 .. copied)
            BY <1>2, <1>4 DEF ErrnoSet
        <3> QED BY <1>2, <2>1, <3>1, <3>2
    <2>4. BootTypeOK'
        BY <1>1, <2>1, <2>2 DEF BootInv, BootTypeOK
    <2>5. Boot!SwitchedWhenOk'
        BY <1>2, <2>1 DEF Boot!SwitchedWhenOk
    <2>6. op' = op /\ image' = image /\ exit' = "none" /\ boot_pc' = "copy"
        BY <1>1, <1>2, <2>1
    <2> QED BY <1>2, <1>3, <2>3, <2>4, <2>5, <2>6 DEF BootInv
<1>5. CASE works /\ ~(copied < Blocks)
    <2>1. UNCHANGED <<boot, copied>> /\ boot_pc' = "idle" /\ exit' = "ok"
        BY <1>5 DEF Boot!Copy, Boot!Size, Boot!Return
    <2>2. boot = image[op.slot]
        <3>1. copied = Blocks
            BY <1>2, <1>5 DEF ErrnoSet
        <3> QED BY <1>2, <3>1 DEF Contents
    <2>3. Boot!SwitchedWhenOk'
        BY <1>1, <1>2, <1>3, <2>1, <2>2 DEF Boot!SwitchedWhenOk, Names
    <2>4. BootTypeOK'
        BY <1>1, <2>1 DEF BootInv, BootTypeOK
    <2> QED BY <2>1, <2>3, <2>4, IdleIsSettled
<1>6. CASE ~works
    <2>1. UNCHANGED <<boot, copied>> /\ boot_pc' = "idle" /\ exit' = "failed"
        BY <1>6, FailureIsReported DEF Boot!Copy
    <2>2. BootTypeOK'
        BY <1>1, <2>1 DEF BootInv, BootTypeOK
    <2>3. Boot!SwitchedWhenOk'
        BY <2>1 DEF Boot!SwitchedWhenOk
    <2> QED BY <2>1, <2>2, <2>3, IdleIsSettled
<1> QED BY <1>4, <1>5, <1>6

\* A crash ends the command and leaves both partitions as they are.
LEMMA RebootKeeps ==
    ASSUME BootInv, Boot!Reboot
    PROVE  BootInv'
<1>1. /\ boot_pc' = "idle" /\ exit' = "none"
      /\ op' = [command |-> "none", slot |-> 2]
      /\ running' \in 0 .. 1
      /\ UNCHANGED <<misc, boot, image, info, copied, updates>>
    BY DEF Boot!Reboot, Boot!Slot, Boot!NoSlot, BootInv, BootTypeOK
<1>2. BootTypeOK'
    BY <1>1 DEF BootInv, BootTypeOK
<1>3. Boot!SwitchedWhenOk'
    BY <1>1 DEF Boot!SwitchedWhenOk
<1> QED BY <1>1, <1>2, <1>3, IdleIsSettled

\* An update writes an image; the status of the last command is then past.
LEMMA UpdateKeeps ==
    ASSUME BootInv, Boot!Update
    PROVE  BootInv'
<1>1. /\ boot_pc' = "idle" /\ exit' = "none" /\ updates' = updates + 1
      /\ image' = [image EXCEPT ![1 - running] = [b \in 1 .. Blocks |-> 10 + updates]]
      /\ UNCHANGED <<misc, boot, running, op, info, copied>>
    BY DEF Boot!Update
<1>2. image' \in [0 .. 1 -> Contents] /\ updates' \in Nat
    <2>1. [b \in 1 .. Blocks |-> 10 + updates] \in Contents
        BY DEF BootInv, BootTypeOK, Contents
    <2> QED BY <1>1, <2>1 DEF BootInv, BootTypeOK
<1>3. BootTypeOK'
    BY <1>1, <1>2 DEF BootInv, BootTypeOK
<1>4. Boot!SwitchedWhenOk'
    BY <1>1 DEF Boot!SwitchedWhenOk
<1> QED BY <1>1, <1>3, <1>4, IdleIsSettled

\* The invariant holds at first.
LEMMA BootStarts == ErrnoSet /\ Boot!Init => BootInv
<1> SUFFICES ASSUME ErrnoSet, Boot!Init PROVE BootInv
    OBVIOUS
<1>1. \A s \in 0 .. 1 : [b \in 1 .. Blocks |-> s] \in Contents
    BY DEF Contents
<1>2. image \in [0 .. 1 -> Contents] /\ boot \in Contents
    <2>1. image = [s \in 0 .. 1 |-> [b \in 1 .. Blocks |-> s]] /\ boot = image[0]
        BY Zenon DEF Boot!Init, Boot!Slot
    <2>2. image \in [0 .. 1 -> Contents]
        BY <1>1, <2>1
    <2> QED BY <2>1, <2>2
<1>3. \A v \in [0 .. 1 -> BOOLEAN] : [v EXCEPT ![0] = TRUE] \in [0 .. 1 -> BOOLEAN]
    OBVIOUS
<1>4. Boot!boot_info_reset \in BootInfo
    <2>1. [s \in 0 .. 1 |-> FALSE] \in [0 .. 1 -> BOOLEAN]
        OBVIOUS
    <2> QED BY <2>1 DEF Boot!boot_info_reset, BootInfo, Boot!Slot, Boot!NoSlot
<1>5. misc \in BootInfo
    <2> DEFINE reset == Boot!boot_info_reset
    <2>1. PICK m \in BOOLEAN : misc = [reset EXCEPT !.magic = m, !.suffix = 0, !.bootable[0] = TRUE]
        BY Zenon DEF Boot!Init
    <2> HIDE DEF reset
    <2>2. misc = [magic |-> m, suffix |-> 0, active_slot |-> reset.active_slot,
                  bootable |-> [reset.bootable EXCEPT ![0] = TRUE]]
        BY Zenon, <1>4, <2>1 DEF BootInfo, reset
    <2>3. reset.active_slot \in 0 .. 1 /\ reset.bootable \in [0 .. 1 -> BOOLEAN]
        BY <1>4 DEF BootInfo, reset
    <2> QED BY <1>3, <2>2, <2>3 DEF BootInfo
<1>6. /\ running = 0 /\ boot_pc = "idle" /\ op = [command |-> "none", slot |-> 2]
      /\ info = Boot!boot_info_reset /\ copied = 0 /\ exit = "none" /\ updates = 0
    BY Zenon DEF Boot!Init, Boot!NoSlot
<1>7. BootTypeOK
    BY <1>2, <1>4, <1>5, <1>6 DEF BootTypeOK, ErrnoSet
<1> QED BY <1>6, <1>7 DEF BootInv, Boot!SwitchedWhenOk

\* "set-active-boot-slot SLOT - On next boot, load and execute SLOT.": when
\* bootctl exits with EX_OK the boot partition holds the whole image of the slot
\* and misc names it, for partitions of every size, however many updates, failed
\* commands and crashes came before, provided that a call that fails sets errno.
THEOREM SlotSwitched == ASSUME ErrnoSet PROVE Boot!Spec => []Boot!SwitchedWhenOk
<1>1. Boot!Init => BootInv
    BY BootStarts
<1>2. BootInv => Boot!SwitchedWhenOk
    BY DEF BootInv
<1>3. BootInv /\ [Boot!Next]_(Boot!vars) => BootInv'
    <2> SUFFICES ASSUME BootInv, [Boot!Next]_(Boot!vars) PROVE BootInv'
        OBVIOUS
    <2>1. CASE UNCHANGED Boot!vars
        BY <2>1 DEF Boot!vars, Boot!call, BootInv, BootTypeOK, Names, Boot!SwitchedWhenOk
    <2>2. CASE Boot!Next
        BY <2>2, CommandKeeps, SaveKeeps, CopyKeeps, OpenKeeps, RebootKeeps, UpdateKeeps
        DEF Boot!Next, Boot!NoSlot, Outcomes
    <2> QED BY <2>1, <2>2
<1> QED BY <1>1, <1>2, <1>3, PTL DEF Boot!Spec

-----------------------------------------------------------------------------
(***************************************************************************)
(* The ANR daemon.                                                         *)
(***************************************************************************)

\* The steps of the main thread at which dfs_enable writes.
AtWrite == {"properties", "starting", "stopping"}

\* What the flag, the kernel and the write in progress say at each step of the
\* main thread, as long as no error has been met.
AnrInv ==
    /\ anr_pc \in {"start", "loop", "tracing", "report", "dump", "exited"} \cup AtWrite
    /\ todo \subseteq Categories /\ (anr_pc = "properties" => todo # {})
    /\ tracing \in BOOLEAN /\ tracing_on \in BOOLEAN /\ err \in BOOLEAN
    /\ writing \in {"none", "on", "off", "done", "failed"}
    /\ writing = "failed" => err
    /\ anr_pc \in AtWrite <=> writing # "none"
    /\ anr_pc = "start" => ~err
    /\ anr_pc \in {"start", "properties", "loop", "exited"} /\ ~err => ~tracing /\ ~tracing_on
    /\ anr_pc \in {"tracing", "stopping"} => tracing
    /\ anr_pc = "stopping" => writing # "on" /\ (writing = "done" => ~tracing_on)
    /\ anr_pc \in {"report", "dump"} => ~tracing /\ ~tracing_on
    /\ anr_pc = "dump" /\ ~dumping => ~owed
    /\ Anr!RequestsStand
    /\ Anr!TracingFollowsFlag

\* tracing_on is no category of the kernel's events.
CategoriesAreOthers == "tracing_on" \notin Categories

\* A write of dfs_enable: the flag of the kernel changes only where the main
\* thread starts or stops tracing.
LEMMA WriteKeeps ==
    ASSUME CategoriesAreOthers, AnrInv, Anr!NotOpened \/ Anr!Written \/ Anr!WriteFails
    PROVE  AnrInv'
<1>1. anr_pc \in AtWrite /\ writing \in {"on", "off"}
    BY DEF AnrInv, Anr!NotOpened, Anr!Written, Anr!WriteFails, Anr!Writing
<1>2. UNCHANGED <<anr_pc, tracing, todo, dumping, owed, dump_requested>>
    BY DEF Anr!NotOpened, Anr!Written, Anr!WriteFails, Anr!flags
<1>3. CASE Anr!NotOpened
    <2>1. err' = TRUE /\ writing' = "failed" /\ tracing_on' = tracing_on
        BY <1>3 DEF Anr!NotOpened
    <2> QED BY <1>1, <1>2, <2>1 DEF AnrInv, AtWrite, Anr!RequestsStand, Anr!TracingFollowsFlag
<1>4. CASE Anr!WriteFails
    <2>1. err' \in {err, TRUE} /\ writing' = writing /\ tracing_on' = tracing_on
        BY <1>4 DEF Anr!WriteFails
    <2> QED BY <1>1, <1>2, <2>1 DEF AnrInv, AtWrite, Anr!RequestsStand, Anr!TracingFollowsFlag
<1>5. CASE Anr!Written
    <2>1. err' = err /\ writing' = (IF err THEN "failed" ELSE "done")
        BY <1>5 DEF Anr!Written
    <2>2. CASE anr_pc = "properties"
        <3>1. Anr!Path # "tracing_on"
            BY <2>2 DEF Anr!Path, AnrInv, CategoriesAreOthers
        <3>2. tracing_on' = tracing_on
            BY <1>5, <3>1 DEF Anr!Written, Anr!Applied
        <3> QED BY <1>1, <1>2, <2>1, <2>2, <3>2
                DEF AnrInv, AtWrite, Anr!RequestsStand, Anr!TracingFollowsFlag
    <2>3. CASE anr_pc # "properties"
        <3>1. tracing_on' = (writing = "on")
            BY <1>5, <2>3 DEF Anr!Written, Anr!Applied, Anr!Path
        <3>2. tracing_on' \in BOOLEAN /\ (anr_pc = "stopping" => ~tracing_on')
            BY <3>1 DEF AnrInv
        <3> QED BY <1>1, <1>2, <2>1, <2>3, <3>2
                DEF AnrInv, AtWrite, Anr!RequestsStand, Anr!TracingFollowsFlag
    <2> QED BY <2>2, <2>3
<1> QED BY <1>3, <1>4, <1>5

\* The steps before the main loop.
LEMMA SetUpKeeps ==
    ASSUME AnrInv, (\E b \in BOOLEAN : Anr!SetBufferSize(b)) \/ Anr!SetProperties
    PROVE  AnrInv'
<1>1. UNCHANGED <<tracing, tracing_on, dumping, owed, dump_requested>>
    BY DEF Anr!SetBufferSize, Anr!SetProperties, Anr!flags
<1>2. CASE \E b \in BOOLEAN : Anr!SetBufferSize(b)
    <2>1. PICK b \in BOOLEAN : Anr!SetBufferSize(b)
        BY <1>2
    <2>2. anr_pc = "start" /\ ~err /\ ~tracing /\ ~tracing_on /\ writing = "none"
        BY <2>1 DEF Anr!SetBufferSize, AnrInv, AtWrite
    <2>3. /\ err' = ~b /\ todo' = todo
          /\ \/ ~b /\ anr_pc' = "exited" /\ writing' = writing
             \/ anr_pc' = "loop" /\ writing' = writing
             \/ todo # {} /\ anr_pc' = "properties" /\ writing' = "on"
        BY <2>1 DEF Anr!SetBufferSize, Anr!Enable
    <2>4. err' \in BOOLEAN
        BY <2>3
    <2> QED BY <1>1, <2>2, <2>3, <2>4 DEF AnrInv, AtWrite, Anr!RequestsStand, Anr!TracingFollowsFlag
<1>3. CASE Anr!SetProperties
    <2>1. /\ anr_pc = "properties" /\ err' = err /\ todo' \subseteq todo
          /\ \/ anr_pc' = "loop" /\ writing' = "none"
             \/ todo' # {} /\ anr_pc' = anr_pc /\ writing' = "on"
        BY <1>3 DEF Anr!SetProperties, Anr!Enable
    <2> QED BY <1>1, <2>1 DEF AnrInv, AtWrite, Anr!RequestsStand, Anr!TracingFollowsFlag
<1> QED BY <1>2, <1>3

\* The main loop until tracing is on, and until it is to stop.
LEMMA LoopKeeps ==
    ASSUME AnrInv, NEW l, Anr!Loop(l) \/ Anr!CheckLoad(l) \/ Anr!Started
    PROVE  AnrInv'
<1>1. UNCHANGED <<err, tracing_on, todo, dumping, owed, dump_requested>>
    BY DEF Anr!Loop, Anr!CheckLoad, Anr!Started, Anr!flags
<1>2. CASE Anr!Loop(l)
    <2>1. /\ anr_pc = "loop" /\ tracing' = tracing
          /\ \/ anr_pc' = "exited" /\ writing' = writing
             \/ ~err /\ anr_pc' = "starting" /\ writing' = "on"
             \/ anr_pc' = anr_pc /\ writing' = writing
        BY <1>2 DEF Anr!Loop, Anr!Enable
    <2> QED BY <1>1, <2>1 DEF AnrInv, AtWrite, Anr!RequestsStand, Anr!TracingFollowsFlag
<1>3. CASE Anr!CheckLoad(l)
    <2>1. /\ anr_pc = "tracing" /\ tracing' = tracing
          /\ \/ anr_pc' = "stopping" /\ writing' = "off"
             \/ anr_pc' = anr_pc /\ writing' = writing
        BY <1>3 DEF Anr!CheckLoad, Anr!Enable, Anr!KeepFlag
    <2> QED BY <1>1, <2>1 DEF AnrInv, AtWrite, Anr!RequestsStand, Anr!TracingFollowsFlag
<1>4. CASE Anr!Started
    <2>1. /\ anr_pc = "starting" /\ writing' = "none" /\ writing \notin {"on", "off"}
          /\ \/ anr_pc' = "tracing" /\ tracing' = TRUE
             \/ writing # "done" /\ anr_pc' = "loop" /\ tracing' = tracing
        BY <1>4 DEF Anr!Started, Anr!Writing
    <2>2. writing # "done" => err
        BY <2>1 DEF AnrInv, AtWrite
    <2> QED BY <1>1, <2>1, <2>2 DEF AnrInv, AtWrite, Anr!RequestsStand, Anr!TracingFollowsFlag
<1> QED BY <1>2, <1>3, <1>4

\* From the end of tracing to the dump.
LEMMA StopKeeps ==
    ASSUME AnrInv, Anr!Stopped \/ Anr!Report \/ Anr!Dump \/ Anr!DumpDone
    PROVE  AnrInv'
<1>1. UNCHANGED <<tracing_on, todo>>
    BY DEF Anr!Stopped, Anr!Report, Anr!Dump, Anr!DumpDone, Anr!debugfs
<1>2. CASE Anr!Stopped
    <2>1. /\ anr_pc = "stopping" /\ writing' = "none" /\ UNCHANGED <<dumping, owed, dump_requested>>
          /\ \/ writing = "done" /\ anr_pc' = "report" /\ tracing' = FALSE /\ err' = err
             \/ anr_pc' = "loop" /\ err' = TRUE /\ tracing' = tracing
        BY <1>2 DEF Anr!Stopped, Anr!flags
    <2> QED BY <1>1, <2>1 DEF AnrInv, AtWrite, Anr!RequestsStand, Anr!TracingFollowsFlag
<1>3. CASE Anr!Report
    <2>1. /\ anr_pc = "report" /\ UNCHANGED <<err, tracing, writing, owed, dump_requested>>
          /\ \/ anr_pc' = "dump" /\ dumping' = TRUE
             \/ anr_pc' = "loop" /\ dumping' = dumping
        BY <1>3 DEF Anr!Report, Anr!KeepRequest, Anr!debugfs
    <2> QED BY <1>1, <2>1 DEF AnrInv, AtWrite, Anr!RequestsStand, Anr!TracingFollowsFlag
<1>4. CASE Anr!Dump
    <2>1. anr_pc = "dump" /\ owed' = FALSE /\ UNCHANGED <<anr_pc, err, tracing, writing, dump_requested>>
        BY <1>4 DEF Anr!Dump, Anr!Dumped, Anr!flags, Anr!debugfs
    <2> QED BY <1>1, <2>1 DEF AnrInv, AtWrite, Anr!RequestsStand, Anr!TracingFollowsFlag
<1>5. CASE Anr!DumpDone
    <2>1. /\ anr_pc = "dump" /\ ~dumping /\ anr_pc' = "loop"
          /\ UNCHANGED <<err, tracing, writing, dumping, owed>>
        BY <1>5 DEF Anr!DumpDone, Anr!debugfs
    <2> QED BY <1>1, <2>1 DEF AnrInv, AtWrite, Anr!RequestsStand, Anr!TracingFollowsFlag
<1> QED BY <1>2, <1>3, <1>4, <1>5

\* The signal handler, between any two steps: a request that it leaves to the
\* main thread is left while tracing is on, never while the dump is made.
LEMMA SignalKeeps ==
    ASSUME AnrInv, NEW s \in {"SIGQUIT", "SIGCONT", "SIGUSR1"}, Anr!HandleSignal(s)
    PROVE  AnrInv'
<1>1. UNCHANGED <<anr_pc, err, tracing, tracing_on, writing, todo, dumping>>
    BY DEF Anr!HandleSignal, Anr!debugfs
<1>2. \/ UNCHANGED <<dump_requested, owed>>
      \/ owed' = FALSE /\ dump_requested' = dump_requested
      \/ tracing /\ owed' = TRUE /\ dump_requested' = TRUE
    BY DEF Anr!HandleSignal, Anr!request_dump_trace, Anr!AsksMain, Anr!Dumped
<1> QED BY <1>1, <1>2 DEF AnrInv, AtWrite, Anr!RequestsStand, Anr!TracingFollowsFlag

\* A dump asked for while the kernel was tracing is not forgotten, and the flag
\* `tracing` never says off while the kernel traces, outside of the step that
\* switches it on: for every set of categories, every load, any number of signals
\* between any two steps and of interrupted writes.
THEOREM RequestsAndTracing ==
    ASSUME CategoriesAreOthers
    PROVE  Anr!Spec => []Anr!RequestsStand /\ []Anr!TracingFollowsFlag
<1>1. Anr!Init => AnrInv
    BY DEF Anr!Init, AnrInv, AtWrite, Anr!RequestsStand, Anr!TracingFollowsFlag
<1>2. AnrInv => Anr!RequestsStand /\ Anr!TracingFollowsFlag
    BY DEF AnrInv
<1>3. AnrInv /\ [Anr!Next]_(Anr!vars) => AnrInv'
    <2> SUFFICES ASSUME AnrInv, [Anr!Next]_(Anr!vars) PROVE AnrInv'
        OBVIOUS
    <2>1. CASE UNCHANGED Anr!vars
        BY <2>1 DEF Anr!vars, Anr!flags, Anr!debugfs, AnrInv, AtWrite, Anr!RequestsStand, Anr!TracingFollowsFlag
    <2>2. CASE Anr!Next
        BY <2>2, WriteKeeps, SetUpKeeps, LoopKeeps, StopKeeps, SignalKeeps DEF Anr!Next, Anr!Main
    <2> QED BY <2>1, <2>2
<1> QED BY <1>1, <1>2, <1>3, PTL DEF Anr!Spec

-----------------------------------------------------------------------------
(***************************************************************************)
(* perfprofd, for every configuration file, every request of a client and  *)
(* every bound.                                                            *)
(***************************************************************************)

\* The flags are flags, and the numbers of profiles count up from 0.
ProfdFlags ==
    /\ interrupted \in BOOLEAN /\ is_profiling \in BOOLEAN
    /\ perfdata \in BOOLEAN /\ mpdecision \in BOOLEAN /\ restart \in BOOLEAN /\ left \in BOOLEAN

ProfdTypes == ProfdFlags /\ seq \in Nat /\ made \in Nat /\ late \in Nat

\* Numbers that were listed, or processed since the daemon was started, are less
\* than the next number, and what was processed under a number is what was listed
\* under it.
NumberInv ==
    /\ \A s \in produced : s \in Nat /\ s < seq
    /\ \A a \in announced : a[2] \in Nat /\ a[2] < seq
    /\ \A s \in processed : s \in stale \/ (s \in Nat /\ s < seq)
    /\ \A a \in announced : a[2] \in processed => a[2] \in stale \/ a[1] \in uploaded
    /\ Profd!ListedProfilesKept

\* Only a session can be stopped, and one that is stopped can be about to collect
\* only if it was when it was stopped.
StopInv ==
    /\ mode = "binder" /\ ~is_profiling => profd_pc = "none"
    /\ ~interrupted => late = 0
    /\ interrupted /\ profd_pc = "collect" => stopped_at = "collect" /\ late = 0
    /\ Profd!StopIsObeyed

\* While simpleperf runs, HardwireCpuHelper knows whether mpdecision has to be
\* started again.
CollectInv ==
    /\ profd_pc \in {"recording", "waiting"} => restart \/ left
    /\ Profd!CollectionCleansUp

ProfdInv == ProfdTypes /\ NumberInv /\ StopInv /\ CollectInv

\* Nothing is listed and no one has been stopped at first.
LEMMA ProfdStarts == Profd!Init => ProfdInv
<1> SUFFICES ASSUME Profd!Init PROVE ProfdInv
    OBVIOUS
<1>1. ProfdFlags
    BY Zenon DEF Profd!Init, ProfdFlags
<1>2. seq \in Nat /\ made \in Nat /\ late \in Nat
    BY DEF Profd!Init
<1>3. NumberInv
    BY DEF Profd!Init, NumberInv, Profd!ListedProfilesKept
<1>4. StopInv
    BY DEF Profd!Init, StopInv, Profd!StopIsObeyed
<1>5. CollectInv
    BY DEF Profd!Init, CollectInv, Profd!CollectionCleansUp
<1> QED BY <1>1, <1>2, <1>3, <1>4, <1>5 DEF ProfdInv, ProfdTypes

\* Steps that leave the numbers of profiles alone.
LEMMA NumbersLeftAlone ==
    ASSUME NumberInv, UNCHANGED <<files, seq, produced, processed, uploaded, announced, stale>>
    PROVE  NumberInv'
BY DEF NumberInv, Profd!ListedProfilesKept

\* ConfigReader, the sleeps and simpleperf list no profile; they begin no collection of
\* a session that is stopped.
LEMMA LoopStepKeeps ==
    ASSUME ProfdInv, Profd!LoopHead \/ Profd!Wake \/ Profd!StopPerf \/ Profd!After \/ Profd!End \/ Profd!OptInOrOut \/ (\E c \in ConfFiles : Profd!Rewrite(c))
    PROVE  ProfdInv'
<1>1. UNCHANGED <<files, seq, produced, processed, uploaded, announced, stale>>
    BY DEF Profd!LoopHead, Profd!Wake, Profd!StopPerf, Profd!After, Profd!End, Profd!OptInOrOut, Profd!Rewrite, Profd!output
<1>2. NumberInv'
    BY <1>1, NumbersLeftAlone DEF ProfdInv
<1>3. UNCHANGED <<interrupted, perfdata, mpdecision, restart, left, made, late, stopped_at, child, mode>>
    BY DEF Profd!LoopHead, Profd!Wake, Profd!StopPerf, Profd!After, Profd!End, Profd!OptInOrOut, Profd!Rewrite, Profd!output, Profd!service, Profd!collection
<1>4. is_profiling' \in BOOLEAN /\ (is_profiling' = is_profiling \/ profd_pc' = "none")
    BY DEF Profd!LoopHead, Profd!Wake, Profd!StopPerf, Profd!After, Profd!End, Profd!OptInOrOut, Profd!Rewrite, Profd!output, Profd!service, ProfdInv, ProfdTypes, ProfdFlags
<1>5. /\ profd_pc = "none" => profd_pc' = "none"
      /\ profd_pc' = "collect" => profd_pc = "collect" \/ ~interrupted
      /\ profd_pc' \in {"recording", "waiting"} <=> profd_pc \in {"recording", "waiting"}
    BY DEF Profd!LoopHead, Profd!Wake, Profd!StopPerf, Profd!After, Profd!End, Profd!OptInOrOut, Profd!Rewrite, Profd!Collects
<1>6. ProfdTypes'
    <2>1. ProfdFlags'
        BY Zenon, <1>1, <1>3, <1>4 DEF ProfdInv, ProfdTypes, ProfdFlags
    <2>2. seq' \in Nat /\ made' \in Nat /\ late' \in Nat
        BY <1>1, <1>3, <1>4 DEF ProfdInv, ProfdTypes
    <2> QED BY <2>1, <2>2 DEF ProfdTypes
<1>7. StopInv'
    BY <1>3, <1>4, <1>5 DEF ProfdInv, StopInv, Profd!StopIsObeyed
<1>8. CollectInv'
    BY <1>3, <1>5 DEF ProfdInv, CollectInv, Profd!CollectionCleansUp
<1> QED BY <1>2, <1>6, <1>7, <1>8 DEF ProfdInv

\* A client starts or stops a session.
LEMMA SessionKeeps ==
    ASSUME ProfdInv, Profd!StopProfiling \/ (\E r \in Requests : Profd!StartProfiling(r))
    PROVE  ProfdInv'
<1>1. UNCHANGED <<files, seq, produced, processed, uploaded, announced, stale, made>>
    BY DEF Profd!StopProfiling, Profd!StartProfiling, Profd!output
<1>2. NumberInv'
    BY <1>1, NumbersLeftAlone DEF ProfdInv
<1>3. UNCHANGED <<perfdata, mpdecision, restart, left, child, mode>>
    BY DEF Profd!StopProfiling, Profd!StartProfiling, Profd!collection
<1>4. CASE Profd!StopProfiling
    <2>1. /\ is_profiling /\ is_profiling' = is_profiling /\ profd_pc' = profd_pc /\ late' = late
          /\ interrupted' = TRUE
          /\ stopped_at' = IF interrupted THEN stopped_at ELSE profd_pc
        BY <1>4 DEF Profd!StopProfiling
    <2>2. ProfdTypes'
        <3>1. ProfdFlags'
            BY Zenon, <1>1, <1>3, <2>1 DEF ProfdInv, ProfdTypes, ProfdFlags
        <3>2. seq' \in Nat /\ made' \in Nat /\ late' \in Nat
            BY <1>1, <1>3, <2>1 DEF ProfdInv, ProfdTypes
        <3> QED BY <3>1, <3>2 DEF ProfdTypes
    <2>3. StopInv'
        BY <1>3, <2>1 DEF ProfdInv, ProfdTypes, StopInv, Profd!StopIsObeyed
    <2>4. CollectInv'
        BY <1>3, <2>1 DEF ProfdInv, CollectInv, Profd!CollectionCleansUp
    <2> QED BY <1>2, <2>2, <2>3, <2>4 DEF ProfdInv
<1>5. CASE \E r \in Requests : Profd!StartProfiling(r)
    <2>1. \/ UNCHANGED <<profd_pc, interrupted, is_profiling, stopped_at, late>>
          \/ /\ mode = "binder" /\ ~is_profiling
             /\ is_profiling' = TRUE /\ interrupted' = FALSE /\ profd_pc' = "head" /\ late' = 0
        BY <1>5 DEF Profd!StartProfiling
    <2>2. ProfdTypes'
        <3>1. ProfdFlags'
            BY Zenon, <1>1, <1>3, <2>1 DEF ProfdInv, ProfdTypes, ProfdFlags
        <3>2. seq' \in Nat /\ made' \in Nat /\ late' \in Nat
            BY <1>1, <1>3, <2>1 DEF ProfdInv, ProfdTypes
        <3> QED BY <3>1, <3>2 DEF ProfdTypes
    <2>3. StopInv'
        BY <1>3, <2>1 DEF ProfdInv, StopInv, Profd!StopIsObeyed
    <2>4. CollectInv'
        BY <1>3, <2>1 DEF ProfdInv, StopInv, CollectInv, Profd!CollectionCleansUp
    <2> QED BY <1>2, <2>2, <2>3, <2>4 DEF ProfdInv
<1> QED BY <1>4, <1>5

\* A collection is begun: mpdecision is stopped, or fork fails.
LEMMA CollectKeeps ==
    ASSUME ProfdInv, NEW forked \in BOOLEAN, Profd!Collect(forked)
    PROVE  ProfdInv'
<1>1. UNCHANGED <<files, seq, produced, processed, uploaded, announced, stale, made, left, mode, interrupted,
                  is_profiling, stopped_at>>
    BY DEF Profd!Collect, Profd!output
<1>2. NumberInv'
    BY <1>1, NumbersLeftAlone DEF ProfdInv
<1>3. /\ profd_pc = "collect" /\ perfdata' = FALSE
      /\ late' = IF interrupted THEN late + 1 ELSE late
      /\ \/ profd_pc' = "recording" /\ mpdecision' = FALSE /\ restart' = mpdecision
         \/ profd_pc' = "handle" /\ child' = child /\ mpdecision' = mpdecision /\ restart' = restart
    BY DEF Profd!Collect, Profd!HardwireCpu
<1>4. ProfdTypes'
    <2>1. ProfdFlags'
        BY Zenon, <1>1, <1>3 DEF ProfdInv, ProfdTypes, ProfdFlags
    <2>2. seq' \in Nat /\ made' \in Nat /\ late' \in Nat
        BY <1>1, <1>3 DEF ProfdInv, ProfdTypes
    <2> QED BY <2>1, <2>2 DEF ProfdTypes
<1>5. StopInv'
    BY <1>1, <1>3 DEF ProfdInv, ProfdTypes, StopInv, Profd!StopIsObeyed
<1>6. CollectInv'
    BY <1>1, <1>3 DEF ProfdInv, CollectInv, Profd!CollectionCleansUp
<1> QED BY <1>2, <1>4, <1>5, <1>6 DEF ProfdInv

\* simpleperf ends, and is reaped.
LEMMA ReapKeeps ==
    ASSUME ProfdInv, (\E how \in {"ok", "bad", "hup"} : Profd!ChildEnds(how)) \/ (\E b \in BOOLEAN : Profd!Reap(b))
    PROVE  ProfdInv'
<1>1. UNCHANGED <<files, seq, produced, processed, uploaded, announced, stale, left, mode, interrupted,
                  is_profiling, stopped_at, late>>
    BY DEF Profd!ChildEnds, Profd!Reap, Profd!output, Profd!service
<1>2. NumberInv'
    BY <1>1, NumbersLeftAlone DEF ProfdInv
<1>3. made' = made \/ made' = made + 1
    BY DEF Profd!ChildEnds, Profd!Reap, Profd!output
<1>4. \/ /\ child = "running" /\ perfdata' \in BOOLEAN
         /\ UNCHANGED <<profd_pc, mpdecision, restart>>
      \/ /\ profd_pc = "waiting" /\ profd_pc' = "handle" /\ child' = "none"
         /\ perfdata' = FALSE /\ restart' = FALSE /\ mpdecision' = restart
    <2>1. ASSUME NEW how \in {"ok", "bad", "hup"}, Profd!ChildEnds(how)
          PROVE  child = "running" /\ perfdata' \in BOOLEAN /\ UNCHANGED <<profd_pc, mpdecision, restart>>
        BY <2>1 DEF Profd!ChildEnds
    <2>2. ASSUME NEW b \in BOOLEAN, Profd!Reap(b)
          PROVE  /\ profd_pc = "waiting" /\ profd_pc' = "handle" /\ child' = "none"
                 /\ perfdata' = FALSE /\ restart' = FALSE /\ mpdecision' = restart
        BY <2>2 DEF Profd!Reap, Profd!Cleanup
    <2> QED BY <2>1, <2>2
<1>5. ProfdTypes'
    <2>1. ProfdFlags'
        BY Zenon, <1>1, <1>3, <1>4 DEF ProfdInv, ProfdTypes, ProfdFlags
    <2>2. seq' \in Nat /\ made' \in Nat /\ late' \in Nat
        BY <1>1, <1>3, <1>4 DEF ProfdInv, ProfdTypes
    <2> QED BY <2>1, <2>2 DEF ProfdTypes
<1>6. StopInv'
    BY <1>1, <1>4 DEF ProfdInv, StopInv, Profd!StopIsObeyed
<1>7. CollectInv'
    BY <1>1, <1>4 DEF ProfdInv, ProfdTypes, CollectInv, Profd!CollectionCleansUp
<1> QED BY <1>2, <1>5, <1>6, <1>7 DEF ProfdInv

\* post_process writes under a number that is not listed, and removes only what the
\* uploader has or had before the daemon was started.
LEMMA PostProcessKeeps ==
    ASSUME ProfdTypes, NumberInv, NEW writes \in BOOLEAN, Profd!PostProcess(Profd!WithFile(seq, proto), writes),
           UNCHANGED <<processed, stale>>
    PROVE  NumberInv' /\ seq' \in Nat
<1> DEFINE fs == Profd!WithFile(seq, proto)
           removed == processed \cap DOMAIN fs
           kept == produced \ removed
           listed == Profd!Cardinality(kept) < config["max"] /\ writes
<1>1. /\ files' = [s \in DOMAIN fs \ removed |-> fs[s]]
      /\ produced' = IF listed THEN kept \cup {seq} ELSE produced
      /\ announced' = IF listed THEN announced \cup {<<proto, seq>>} ELSE announced
      /\ seq' = IF listed THEN seq + 1 ELSE seq
      /\ uploaded' = uploaded
    <2>1. Profd!PostProcess(fs, writes)
        OBVIOUS
    <2> HIDE DEF fs
    <2>2. files' = [s \in DOMAIN fs \ removed |-> fs[s]]
        BY <2>1 DEF Profd!PostProcess
    <2>3. produced' = IF listed THEN kept \cup {seq} ELSE produced
        BY <2>1 DEF Profd!PostProcess
    <2>4. announced' = IF listed THEN announced \cup {<<proto, seq>>} ELSE announced
        BY <2>1 DEF Profd!PostProcess
    <2>5. seq' = (IF listed THEN seq + 1 ELSE seq) /\ uploaded' = uploaded
        BY <2>1 DEF Profd!PostProcess, Profd!NextSeq
    <2> QED BY <2>2, <2>3, <2>4, <2>5
<1>2. /\ DOMAIN fs = DOMAIN files \cup {seq}
      /\ fs[seq] = proto
      /\ \A s \in DOMAIN files : s # seq => fs[s] = files[s]
    BY DEF Profd!WithFile
<1>3. seq \in Nat
    BY DEF ProfdTypes
<1> HIDE DEF fs
<1>4. /\ DOMAIN files' = DOMAIN fs \ removed
      /\ \A s \in DOMAIN fs \ removed : files'[s] = fs[s]
    BY <1>1
<1> HIDE DEF listed
<1>5. /\ \A s \in produced' : s \in Nat /\ s < seq'
      /\ \A s \in processed : s \in stale \/ (s \in Nat /\ s < seq')
      /\ seq' \in Nat
    <2>1. CASE listed
        BY <1>1, <1>3, <2>1 DEF NumberInv
    <2>2. CASE ~listed
        BY <1>1, <1>3, <2>2 DEF NumberInv
    <2> QED BY <2>1, <2>2
<1>6. ASSUME NEW a \in announced'
      PROVE  a \in announced \/ (listed /\ a = <<proto, seq>>)
    BY <1>1
<1>7. ASSUME NEW a \in announced'
      PROVE  a[2] \in Nat /\ a[2] < seq'
    <2>1. CASE a \in announced
        BY <1>1, <1>3, <2>1 DEF NumberInv
    <2>2. CASE listed /\ a = <<proto, seq>>
        BY <1>1, <1>3, <2>2
    <2> QED BY <1>6, <2>1, <2>2
<1>8. seq \in processed => seq \in stale
    BY <1>3 DEF NumberInv
<1>9. ASSUME NEW a \in announced', a[2] \in processed
      PROVE  a[2] \in stale \/ a[1] \in uploaded
    <2>1. CASE a \in announced
        BY <1>9, <2>1 DEF NumberInv
    <2>2. CASE listed /\ a = <<proto, seq>>
        BY <1>8, <1>9, <2>2
    <2> QED BY <1>6, <2>1, <2>2
<1>10. ASSUME NEW a \in announced'
       PROVE  \/ a[1] \in uploaded \/ a[2] \in stale
              \/ a[2] \in produced' /\ a[2] \in DOMAIN files' /\ files'[a[2]] = a[1]
    <2>1. CASE a[2] \in processed
        BY <1>9, <2>1
    <2>2. CASE a[2] \notin processed /\ a \in announced
        <3>1. a[2] # seq
            BY <1>3, <2>2 DEF NumberInv
        <3> SUFFICES ASSUME a[2] \in produced, a[2] \in DOMAIN files, files[a[2]] = a[1]
                     PROVE  a[2] \in produced' /\ a[2] \in DOMAIN files' /\ files'[a[2]] = a[1]
            BY <2>2 DEF NumberInv, Profd!ListedProfilesKept
        <3>2. a[2] \in produced'
            BY <1>1, <2>2
        <3> QED BY <1>2, <1>4, <2>2, <3>1, <3>2
    <2>3. CASE a[2] \notin processed /\ listed /\ a = <<proto, seq>>
        BY <1>1, <1>2, <1>4, <2>3
    <2> QED BY <1>6, <2>1, <2>2, <2>3
<1> QED BY <1>1, <1>5, <1>7, <1>9, <1>10 DEF NumberInv, Profd!ListedProfilesKept

\* A profile goes to dropbox, to a file, or nowhere.
LEMMA HandleKeeps ==
    ASSUME ProfdInv, NEW writes \in BOOLEAN, NEW lists \in BOOLEAN, Profd!Handle(writes, lists)
    PROVE  ProfdInv'
<1>1. UNCHANGED <<processed, stale, made, left, mode, interrupted, is_profiling, stopped_at, late, child,
                  perfdata, mpdecision, restart>>
    BY DEF Profd!Handle, Profd!service
<1>2. profd_pc = "handle" /\ profd_pc' \in {"end", "after"}
    BY DEF Profd!Handle
<1>3. StopInv'
    BY <1>1, <1>2 DEF ProfdInv, StopInv, Profd!StopIsObeyed
<1>4. CollectInv'
    BY <1>1, <1>2 DEF ProfdInv, CollectInv, Profd!CollectionCleansUp
<1>5. \/ UNCHANGED <<files, seq, produced, uploaded, announced>>
      \/ /\ uploaded' = uploaded \cup {proto} /\ seq' \in {seq, seq + 1}
         /\ UNCHANGED <<files, produced, announced>>
      \/ Profd!PostProcess(Profd!WithFile(seq, proto), lists)
      \/ /\ files' = Profd!WithFile(seq, proto) /\ seq' = seq + 1
         /\ UNCHANGED <<produced, uploaded, announced>>
    BY DEF Profd!Handle
<1>6. NumberInv' /\ seq' \in Nat
    <2>1. CASE UNCHANGED <<files, seq, produced, uploaded, announced>>
        BY <1>1, <2>1, NumbersLeftAlone DEF ProfdInv, ProfdTypes
    <2>2. CASE /\ uploaded' = uploaded \cup {proto} /\ seq' \in {seq, seq + 1}
               /\ UNCHANGED <<files, produced, announced>>
        BY <1>1, <2>2 DEF ProfdInv, ProfdTypes, NumberInv, Profd!ListedProfilesKept
    <2>3. CASE Profd!PostProcess(Profd!WithFile(seq, proto), lists)
        BY <1>1, <2>3, PostProcessKeeps DEF ProfdInv
    <2>4. CASE /\ files' = Profd!WithFile(seq, proto) /\ seq' = seq + 1
               /\ UNCHANGED <<produced, uploaded, announced>>
        <3>1. /\ DOMAIN files' = DOMAIN files \cup {seq}
              /\ \A s \in DOMAIN files : s # seq => files'[s] = files[s]
            BY <2>4 DEF Profd!WithFile
        <3>2. seq \in Nat
            BY DEF ProfdInv, ProfdTypes
        <3> QED BY <1>1, <2>4, <3>1, <3>2 DEF ProfdInv, NumberInv, Profd!ListedProfilesKept
    <2> QED BY <1>5, <2>1, <2>2, <2>3, <2>4
<1>7. ProfdTypes'
    <2>1. ProfdFlags'
        BY Zenon, <1>1, <1>6 DEF ProfdInv, ProfdTypes, ProfdFlags
    <2>2. seq' \in Nat /\ made' \in Nat /\ late' \in Nat
        BY <1>1, <1>6 DEF ProfdInv, ProfdTypes
    <2> QED BY <2>1, <2>2 DEF ProfdTypes
<1> QED BY <1>3, <1>4, <1>6, <1>7 DEF ProfdInv

\* The uploader takes a profile that is listed.
LEMMA UploadKeeps ==
    ASSUME ProfdInv, NEW s \in produced, Profd!Upload(s)
    PROVE  ProfdInv'
<1>1. UNCHANGED <<mode, profd_pc, Profd!service, Profd!collection, files, seq, produced, made, announced, stale, left>>
    BY DEF Profd!Upload
<1>2. /\ s \in DOMAIN files
      /\ uploaded' = uploaded \cup {files[s]}
      /\ processed' = processed \cup {s}
    BY DEF Profd!Upload
<1>3. NumberInv'
    <2>1. \A t \in processed' : t \in stale \/ (t \in Nat /\ t < seq)
        BY <1>2 DEF ProfdInv, NumberInv
    <2>2. ASSUME NEW a \in announced, a[2] \in processed'
          PROVE  a[2] \in stale \/ a[1] \in uploaded'
        <3>1. CASE a[2] \in processed
            BY <1>2, <3>1 DEF ProfdInv, NumberInv
        <3>2. CASE a[2] = s
            BY <1>2, <3>2 DEF ProfdInv, NumberInv, Profd!ListedProfilesKept
        <3> QED BY <1>2, <2>2, <3>1, <3>2
    <2>3. Profd!ListedProfilesKept'
        BY <1>1, <1>2 DEF ProfdInv, NumberInv, Profd!ListedProfilesKept
    <2> QED BY <1>1, <2>1, <2>2, <2>3 DEF ProfdInv, NumberInv
<1>4. ProfdTypes'
    <2>1. ProfdFlags'
        BY Zenon, <1>1 DEF ProfdInv, ProfdTypes, Profd!service, Profd!collection, ProfdFlags
    <2>2. seq' \in Nat /\ made' \in Nat /\ late' \in Nat
        BY <1>1 DEF ProfdInv, ProfdTypes, Profd!service, Profd!collection
    <2> QED BY <2>1, <2>2 DEF ProfdTypes
<1>5. StopInv'
    BY <1>1 DEF ProfdInv, StopInv, Profd!StopIsObeyed, Profd!service
<1>6. CollectInv'
    BY <1>1 DEF ProfdInv, CollectInv, Profd!CollectionCleansUp, Profd!collection
<1> QED BY <1>3, <1>4, <1>5, <1>6 DEF ProfdInv

\* The daemon is started again with an empty directory.
LEMMA RestartKeeps ==
    ASSUME ProfdInv, Profd!Restart
    PROVE  ProfdInv'
<1>1. /\ mode = "daemon" /\ profd_pc' = "head" /\ child' = "none"
      /\ files' = <<>> /\ produced' = {} /\ perfdata' = FALSE
      /\ seq' = 0 /\ announced' = {} /\ stale' = processed
      /\ restart' = FALSE /\ left' = ~mpdecision
      /\ UNCHANGED <<mode, Profd!service, mpdecision, processed, uploaded, made>>
    BY DEF Profd!Restart, Profd!cleanup_destination_dir
<1>2. ProfdTypes'
    <2>1. ProfdFlags'
        BY Zenon, <1>1 DEF ProfdInv, ProfdTypes, Profd!service, ProfdFlags
    <2>2. seq' \in Nat /\ made' \in Nat /\ late' \in Nat
        BY <1>1 DEF ProfdInv, ProfdTypes, Profd!service
    <2> QED BY <2>1, <2>2 DEF ProfdTypes
<1>3. NumberInv'
    BY <1>1 DEF NumberInv, Profd!ListedProfilesKept
<1>4. StopInv'
    BY <1>1 DEF ProfdInv, StopInv, Profd!StopIsObeyed, Profd!service
<1>5. CollectInv'
    BY <1>1 DEF ProfdInv, ProfdTypes, CollectInv, Profd!CollectionCleansUp
<1> QED BY <1>2, <1>3, <1>4, <1>5 DEF ProfdInv

\* Every step keeps the invariant.
LEMMA ProfdKept == ProfdInv /\ [Profd!Next]_(Profd!vars) => ProfdInv'
<1> SUFFICES ASSUME ProfdInv, [Profd!Next]_(Profd!vars) PROVE ProfdInv'
    OBVIOUS
<1>1. CASE Profd!LoopHead \/ Profd!Wake \/ Profd!StopPerf \/ Profd!After \/ Profd!End \/ Profd!OptInOrOut \/ (\E c \in ConfFiles : Profd!Rewrite(c))
    BY <1>1, LoopStepKeeps
<1>2. CASE Profd!StopProfiling \/ (\E r \in Requests : Profd!StartProfiling(r))
    BY <1>2, SessionKeeps
<1>3. CASE \E b \in BOOLEAN : Profd!Collect(b)
    BY <1>3, CollectKeeps
<1>4. CASE (\E how \in {"ok", "bad", "hup"} : Profd!ChildEnds(how)) \/ (\E b \in BOOLEAN : Profd!Reap(b))
    BY <1>4, ReapKeeps
<1>5. CASE \E b, c \in BOOLEAN : Profd!Handle(b, c)
    BY <1>5, HandleKeeps
<1>6. CASE \E s \in produced : Profd!Upload(s)
    BY <1>6, UploadKeeps
<1>7. CASE Profd!Restart
    BY <1>7, RestartKeeps
<1>8. CASE UNCHANGED Profd!vars
    <2>1. UNCHANGED <<mode, profd_pc, Profd!service, Profd!collection, Profd!output, stale, left>>
        BY <1>8 DEF Profd!vars
    <2>2. NumberInv'
        BY <2>1, NumbersLeftAlone DEF ProfdInv, Profd!output
    <2>3. ProfdFlags'
        BY Zenon, <2>1 DEF ProfdInv, ProfdTypes, ProfdFlags, Profd!service, Profd!collection
    <2>4. seq' \in Nat /\ made' \in Nat /\ late' \in Nat
        BY <2>1 DEF ProfdInv, ProfdTypes, Profd!service, Profd!output
    <2>5. StopInv'
        BY <2>1 DEF ProfdInv, StopInv, Profd!StopIsObeyed, Profd!service
    <2>6. CollectInv'
        BY <2>1 DEF ProfdInv, CollectInv, Profd!CollectionCleansUp, Profd!collection
    <2> QED BY <2>2, <2>3, <2>4, <2>5, <2>6 DEF ProfdInv, ProfdTypes
<1> QED BY <1>1, <1>2, <1>3, <1>4, <1>5, <1>6, <1>7, <1>8 DEF Profd!Next

\* Whatever the configuration says and however the daemon, its clients, the
\* uploader and simpleperf interleave: a profile listed in
\* perfprofd_produced.txt stays as it was until it is uploaded
\* (ListedProfilesKept), a collection leaves nothing behind and starts mpdecision
\* again (CollectionCleansUp), and a session that was stopped begins no
\* collection it had not decided on (StopIsObeyed); each with the exceptions
\* that PerfProfd states (ProfilingLoopImpl, collect_profile, post_process).
THEOREM ProfilesKept == Profd!Spec => [](Profd!ListedProfilesKept /\ Profd!CollectionCleansUp /\ Profd!StopIsObeyed)
<1>1. ProfdInv => Profd!ListedProfilesKept /\ Profd!CollectionCleansUp /\ Profd!StopIsObeyed
    BY DEF ProfdInv, NumberInv, CollectInv, StopInv
<1> QED BY <1>1, ProfdStarts, ProfdKept, PTL DEF Profd!Spec
===============================================================================
