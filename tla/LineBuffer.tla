------------------------------ MODULE LineBuffer ------------------------------
(***************************************************************************)
(* LineBuffer::GetLine of memory_replay: lines of a file through a buffer  *)
(* of fixed size.  A character of the file is its position, 1 to Size, and *)
(* newlines is the set of the positions that hold '\n'.  One step is one   *)
(* pass of the loop of GetLine, and a read may return less than it was     *)
(* asked for.                                                              *)
(***************************************************************************)
EXTENDS Integers, Sequences, FiniteSets

CONSTANTS
    Size,       \* characters of the file
    buffer_len  \* cells of the buffer

ASSUME LineBufferAssumption == Size \in Nat /\ buffer_len \in Nat /\ buffer_len >= 2

Nul == 0

Cells == 0 .. buffer_len - 1

VARIABLES
    newlines,        \* the file
    buffer_,         \* the cells
    start_, bytes_,  \* the part of the buffer not yet returned
    offset,          \* the position of the file descriptor
    line,            \* the cells that the last GetLine returned
    eof,             \* GetLine returned false
    returned         \* history: characters returned, newlines included

vars == <<newlines, buffer_, start_, bytes_, offset, line, eof, returned>>

TypeOK ==
    /\ newlines \subseteq 1 .. Size
    /\ buffer_ \in [Cells -> 0 .. Size]
    /\ start_ \in 0 .. buffer_len
    /\ bytes_ \in 0 .. buffer_len - 1
    /\ offset \in 0 .. Size
    /\ line \in Seq(0 .. Size)
    /\ eof \in BOOLEAN
    /\ returned \in 0 .. Size

\* The buffer is an array of static storage, zero at first.
Init ==
    /\ newlines \in SUBSET (1 .. Size)
    /\ buffer_ = [c \in Cells |-> Nul]
    /\ start_ = 0
    /\ bytes_ = 0
    /\ offset = 0
    /\ line = <<>>
    /\ eof = FALSE
    /\ returned = 0

CellsFrom(first, n) == [j \in 1 .. n |-> buffer_[first + j - 1]]

\* The cells of the unreturned part that hold a newline, and the one that
\* memchr finds.
NewlineCells == {c \in start_ .. start_ + bytes_ - 1 : buffer_[c] \in newlines}

FirstNewline == {c \in NewlineCells : \A d \in NewlineCells : c <= d}

\* Mutant: the line includes its newline.
ReturnLineWithNewline ==
    /\ \E newline \in FirstNewline :
        LET line_len == newline - start_ + 1
        IN  /\ buffer_' = [buffer_ EXCEPT ![newline] = Nul]
            /\ line' = CellsFrom(start_, line_len)
            /\ start_' = newline + 1
            /\ bytes_' = bytes_ - line_len
            /\ returned' = returned + line_len
    /\ UNCHANGED <<newlines, offset, eof>>

ReturnLine ==
    /\ \E newline \in FirstNewline :
        LET line_len == newline - start_
        IN  /\ buffer_' = [buffer_ EXCEPT ![newline] = Nul]
            /\ line' = CellsFrom(start_, line_len)
            /\ start_' = newline + 1
            /\ bytes_' = bytes_ - (line_len + 1)
            /\ returned' = returned + line_len + 1
    /\ UNCHANGED <<newlines, offset, eof>>

\* The unreturned part, moved to the front of the buffer.
Compacted == [c \in Cells |-> IF c < bytes_ THEN buffer_[start_ + c] ELSE buffer_[c]]

\* memmove and a read of n characters; one cell stays free for the '\0'.
Read(n) ==
    /\ NewlineCells = {}
    /\ n <= buffer_len - bytes_ - 1
    /\ n <= Size - offset
    /\ buffer_' = [c \in Cells |->
                    IF c \in bytes_ .. bytes_ + n - 1
                    THEN offset + (c - bytes_) + 1
                    ELSE Compacted[c]]
    /\ start_' = 0
    /\ bytes_' = bytes_ + n
    /\ offset' = offset + n
    /\ UNCHANGED <<newlines, line, eof, returned>>

\* Mutant: a read of nothing into a full buffer is not the end.
ReadReturnsZeroAtEndOnly == offset = Size

\* read returns 0 at the end of the file, and also when no cell is free.
ReadReturnsZero == offset = Size \/ bytes_ = buffer_len - 1

ReturnRest ==
    /\ NewlineCells = {}
    /\ ReadReturnsZero
    /\ bytes_ > 0
    /\ buffer_' = [Compacted EXCEPT ![bytes_] = Nul]
    /\ line' = CellsFrom(start_, bytes_)
    /\ start_' = 0
    /\ bytes_' = 0
    /\ returned' = returned + bytes_
    /\ UNCHANGED <<newlines, offset, eof>>

ReturnFalse ==
    /\ bytes_ = 0
    /\ ReadReturnsZero
    /\ start_' = 0
    /\ eof' = TRUE
    /\ UNCHANGED <<newlines, buffer_, bytes_, offset, line, returned>>

Next ==
    /\ ~eof
    /\ \/ ReturnLine
       \/ \E n \in 1 .. buffer_len - 1 : Read(n)
       \/ ReturnRest
       \/ ReturnFalse

\* The caller calls GetLine until it returns false.
Spec == Init /\ [][Next]_vars /\ WF_vars(Next)

-----------------------------------------------------------------------------
\* Where the line that starts after position p ends: before the first newline,
\* or at the longest line the buffer can hold, or at the end of the file.
LineEnd(p) ==
    LET stops == {q \in p .. Size :
                    \/ q = Size
                    \/ q + 1 \in newlines
                    \/ q = p + buffer_len - 1}
    IN  CHOOSE q \in stops : \A r \in stops : q <= r

\* What GetLine returns depends on the file alone, not on how read cut it into
\* pieces: every line is the text from the end of the line before to LineEnd,
\* and the rest of a line longer than the buffer is returned as further lines
\* (LineBufferTest.cpp 205-241).
ReturnsTheLines ==
    [][returned' # returned =>
        line' = [j \in 1 .. LineEnd(returned) - returned |-> returned + j]]_vars

\* No character is lost or read twice: the unreturned part of the buffer is the
\* text between the last line returned and the position of the descriptor.
BufferHoldsTheGap ==
    /\ returned + bytes_ = offset
    /\ start_ + bytes_ <= buffer_len - 1
    /\ \A c \in 0 .. bytes_ - 1 : buffer_[start_ + c] = returned + c + 1
=============================================================================
