------------------------------ MODULE UnixSocket ------------------------------
(***************************************************************************)
(* A UnixSocketConnection of simpleperf and the connection at the other    *)
(* end, for messages in one direction: SendMessage and NoMoreMessage from  *)
(* any thread, the write side run by the sender's event loop, the read     *)
(* side run by the receiver's.  The unit of size is half of the alignment  *)
(* of messages (8 bytes, also the size of a header).                       *)
(*                                                                         *)
(* A byte is <<id, offset>> for the offset-th unit of message id, and the  *)
(* header, where len is, starts with offset 1.  Padding is whatever the    *)
(* circular buffer held before.                                            *)
(***************************************************************************)
EXTENDS Integers, Sequences, FiniteSets

CONSTANTS
    Lens,          \* lengths of messages, header included
    MaxMessages,   \* bound: messages accepted
    SendSize,      \* SEND_BUFFER_SIZE
    ReadSize,      \* READ_BUFFER_SIZE
    SocketSize     \* what the socket holds in flight

Alignment == 2

HeaderSize == 2

Align(n) == ((n + Alignment - 1) \div Alignment) * Alignment

VARIABLES
    data_, read_head_, valid_bytes_,  \* send_buffer_
    write_event_enabled_,
    no_more_message_,
    fd_open,        \* the sender's fd_ is not -1
    wpc,            \* where the sender's loop is in WriteData
    peeked,         \* what PeekData returned, and after send what it sent
    socket,         \* bytes in flight
    peer_open,      \* the receiver's fd_ is not -1
    read_buffer_,   \* the valid part of it
    read_capacity,  \* read_buffer_.size()
    rpc,            \* where the receiver's loop is
    accepted,       \* history: length of every message SendMessage accepted
    urgent,         \* history: messages accepted up to the last undelayed one
    received,       \* history: what the read callback was given
    peer_quit       \* history: the receiver closed for a reason of its own

senderVars == <<data_, read_head_, valid_bytes_, write_event_enabled_, no_more_message_, fd_open>>
writeVars == <<wpc, peeked>>
receiverVars == <<peer_open, read_buffer_, read_capacity, rpc>>
historyVars == <<accepted, urgent, received, peer_quit>>
vars == <<senderVars, writeVars, socket, receiverVars, historyVars>>

Cells == 0 .. SendSize - 1

\* After PrepareForIO, which disables the write event.
Init ==
    /\ data_ = [c \in Cells |-> <<0, 0>>]
    /\ read_head_ = 0
    /\ valid_bytes_ = 0
    /\ write_event_enabled_ = FALSE
    /\ no_more_message_ = FALSE
    /\ fd_open = TRUE
    /\ wpc = "loop"
    /\ peeked = 0
    /\ socket = <<>>
    /\ peer_open = TRUE
    /\ read_buffer_ = <<>>
    /\ read_capacity = ReadSize
    /\ rpc = "loop"
    /\ accepted = <<>>
    /\ urgent = 0
    /\ received = <<>>
    /\ peer_quit = FALSE

-----------------------------------------------------------------------------
(* The send buffer.                                                        *)

HasRoom(len) == SendSize - valid_bytes_ >= Align(len)

\* The two copies of StoreMessage: up to the end of data_, and from its start.
StoreMessage(id, len) ==
    LET write_head == (read_head_ + valid_bytes_) % SendSize
        offset(c) == 1 + (IF c >= write_head THEN c - write_head ELSE c + SendSize - write_head)
    IN  /\ data_' = [c \in Cells |-> IF offset(c) <= len THEN <<id, offset(c)>> ELSE data_[c]]
        /\ valid_bytes_' = valid_bytes_ + Align(len)

\* PeekData returns the bytes up to the end of data_.
PeekSize ==
    IF read_head_ + valid_bytes_ <= SendSize THEN valid_bytes_ ELSE SendSize - read_head_

CommitData(size) ==
    /\ read_head_' = (read_head_ + size) % SendSize
    /\ valid_bytes_' = valid_bytes_ - size

-----------------------------------------------------------------------------
(* Called by any thread, under send_buffer_and_write_event_mtx_.           *)

\* Mutant: an undelayed message waits for the buffer to fill.
EnableWriteEventHalfFull(undelayed, stored) ==
    write_event_enabled_' = (write_event_enabled_ \/ 2 * stored >= SendSize)

\* What SendMessage makes of the write event; stored is valid_bytes_ afterwards.
EnableWriteEvent(undelayed, stored) ==
    write_event_enabled_' = (write_event_enabled_ \/ undelayed \/ 2 * stored >= SendSize)

SendMessage(len, undelayed) ==
    /\ Len(accepted) < MaxMessages
    /\ ~no_more_message_
    /\ HasRoom(len)
    /\ StoreMessage(Len(accepted) + 1, len)
    /\ EnableWriteEvent(undelayed, valid_bytes_')
    /\ accepted' = Append(accepted, len)
    /\ urgent' = IF undelayed THEN Len(accepted) + 1 ELSE urgent
    /\ UNCHANGED <<read_head_, no_more_message_, fd_open, writeVars, socket, receiverVars, received,
                   peer_quit>>

\* Mutant: nobody wakes the event loop.
NoMoreMessageSilent ==
    /\ ~no_more_message_
    /\ no_more_message_' = TRUE
    /\ UNCHANGED <<data_, read_head_, valid_bytes_, write_event_enabled_, fd_open, writeVars,
                   socket, receiverVars, historyVars>>

NoMoreMessage ==
    /\ ~no_more_message_
    /\ no_more_message_' = TRUE
    /\ write_event_enabled_' = TRUE
    /\ UNCHANGED <<data_, read_head_, valid_bytes_, fd_open, writeVars, socket, receiverVars,
                   historyVars>>

-----------------------------------------------------------------------------
(* The sender's event loop.                                                *)

\* CloseConnection disables the events first.
CloseConnection ==
    /\ no_more_message_' = TRUE
    /\ write_event_enabled_' = FALSE
    /\ fd_open' = FALSE
    /\ wpc' = "loop"
    /\ peeked' = 0

\* WriteData runs when the socket is writable, or broken.
Writable == Len(socket) < SocketSize \/ ~peer_open

\* Mutant: the end is looked for before the data.
GetDataUnlessNoMore ==
    /\ wpc = "loop"
    /\ fd_open
    /\ write_event_enabled_
    /\ Writable
    /\ IF no_more_message_
       THEN wpc' = "close" /\ UNCHANGED <<write_event_enabled_, peeked>>
       ELSE IF PeekSize # 0
            THEN wpc' = "send" /\ peeked' = PeekSize /\ UNCHANGED write_event_enabled_
            ELSE write_event_enabled_' = FALSE /\ UNCHANGED writeVars
    /\ UNCHANGED <<data_, read_head_, valid_bytes_, no_more_message_, fd_open, socket,
                   receiverVars, historyVars>>

\* GetDataFromSendBuffer up to the unlock.
GetDataFromSendBuffer ==
    /\ wpc = "loop"
    /\ fd_open
    /\ write_event_enabled_
    /\ Writable
    /\ IF PeekSize # 0
       THEN /\ wpc' = "send"
            /\ peeked' = PeekSize
            /\ UNCHANGED write_event_enabled_
       ELSE IF ~no_more_message_
            THEN write_event_enabled_' = FALSE /\ UNCHANGED writeVars
            ELSE wpc' = "close" /\ UNCHANGED <<write_event_enabled_, peeked>>
    /\ UNCHANGED <<data_, read_head_, valid_bytes_, no_more_message_, fd_open, socket,
                   receiverVars, historyVars>>

CloseAfterSending ==
    /\ wpc = "close"
    /\ CloseConnection
    /\ UNCHANGED <<data_, read_head_, valid_bytes_, socket, receiverVars, historyVars>>

\* Mutant: what send was given is committed, not what it took.
SendIgnoresResult ==
    /\ wpc = "send"
    /\ \/ /\ peer_open
          /\ \E n \in 1 .. peeked :
                /\ Len(socket) + n <= SocketSize
                /\ socket' = socket \o [k \in 1 .. n |-> data_[read_head_ + k - 1]]
          /\ wpc' = "commit"
       \/ /\ ~peer_open
          /\ wpc' = "failed"
          /\ UNCHANGED socket
    /\ UNCHANGED <<peeked, senderVars, receiverVars, historyVars>>

\* send takes some of the bytes, without the lock; it fails (EPIPE) if the
\* other end is closed, and then the loop ends.
Send ==
    /\ wpc = "send"
    /\ \/ /\ peer_open
          /\ \E n \in 1 .. peeked :
                /\ Len(socket) + n <= SocketSize
                /\ socket' = socket \o [k \in 1 .. n |-> data_[read_head_ + k - 1]]
                /\ peeked' = n
          /\ wpc' = "commit"
       \/ /\ ~peer_open
          /\ wpc' = "failed"
          /\ UNCHANGED <<socket, peeked>>
    /\ UNCHANGED <<senderVars, receiverVars, historyVars>>

Commit ==
    /\ wpc = "commit"
    /\ CommitData(peeked)
    /\ wpc' = "loop"
    /\ peeked' = 0
    /\ UNCHANGED <<data_, write_event_enabled_, no_more_message_, fd_open, socket, receiverVars,
                   historyVars>>

\* ReadData of the sender reads 0: the other end is closed.
SenderReadsEof ==
    /\ wpc = "loop"
    /\ fd_open
    /\ ~peer_open
    /\ CloseConnection
    /\ UNCHANGED <<data_, read_head_, valid_bytes_, socket, receiverVars, historyVars>>

-----------------------------------------------------------------------------
(* The receiver's event loop.                                              *)

\* read is asked for the free part of read_buffer_; 0 is taken as the end.
ReadData ==
    /\ rpc = "loop"
    /\ peer_open
    /\ socket # <<>> \/ ~fd_open
    /\ LET room == read_capacity - Len(read_buffer_)
       IN  IF socket = <<>> \/ room = 0
           THEN peer_open' = FALSE /\ UNCHANGED <<socket, read_buffer_, rpc>>
           ELSE \E n \in 1 .. Len(socket) :
                    /\ n <= room
                    /\ read_buffer_' = read_buffer_ \o SubSeq(socket, 1, n)
                    /\ socket' = SubSeq(socket, n + 1, Len(socket))
                    /\ rpc' = "consume"
                    /\ UNCHANGED peer_open
    /\ UNCHANGED <<senderVars, writeVars, read_capacity, historyVars>>

\* msg->len of the message at the start of read_buffer_, garbage if it is not
\* the start of a message.
HasHeader == Len(read_buffer_) >= HeaderSize

AtMessage == read_buffer_[1][1] # 0 /\ read_buffer_[1][2] = 1

HeadLen == accepted[read_buffer_[1][1]]

\* One pass of the loop of ConsumeDataInReadBuffer.
ConsumeMessage ==
    /\ rpc = "consume"
    /\ HasHeader
    /\ IF ~AtMessage
       THEN rpc' = "garbage" /\ UNCHANGED <<read_buffer_, received>>
       ELSE /\ Len(read_buffer_) >= Align(HeadLen)
            /\ received' = Append(received, SubSeq(read_buffer_, 1, HeadLen))
            /\ read_buffer_' = SubSeq(read_buffer_, Align(HeadLen) + 1, Len(read_buffer_))
            /\ UNCHANGED rpc
    /\ UNCHANGED <<senderVars, writeVars, socket, peer_open, read_capacity, accepted, urgent,
                   peer_quit>>

\* The rest is part of a message: make room for all of it.
ConsumeEnd ==
    /\ rpc = "consume"
    /\ HasHeader => AtMessage /\ Len(read_buffer_) < Align(HeadLen)
    /\ rpc' = "loop"
    /\ read_capacity' = IF HasHeader /\ Align(HeadLen) > read_capacity
                        THEN Align(HeadLen)
                        ELSE read_capacity
    /\ UNCHANGED <<senderVars, writeVars, socket, peer_open, read_buffer_, historyVars>>

\* The receiver's own CloseConnection, for a reason of its own.
PeerCloses ==
    /\ rpc = "loop"
    /\ peer_open
    /\ peer_open' = FALSE
    /\ peer_quit' = TRUE
    /\ UNCHANGED <<senderVars, writeVars, socket, read_buffer_, read_capacity, rpc, accepted,
                   urgent, received>>

-----------------------------------------------------------------------------
SenderLoop ==
    \/ GetDataFromSendBuffer
    \/ CloseAfterSending
    \/ Send
    \/ Commit
    \/ SenderReadsEof

ReceiverLoop ==
    \/ ReadData
    \/ ConsumeMessage
    \/ ConsumeEnd

Users ==
    \/ \E len \in Lens, undelayed \in BOOLEAN : SendMessage(len, undelayed)
    \/ NoMoreMessage

Next == SenderLoop \/ ReceiverLoop \/ Users \/ PeerCloses

\* Both event loops run a callback whose event is ready.
Spec == Init /\ [][Next]_vars /\ WF_vars(SenderLoop) /\ WF_vars(ReceiverLoop)

-----------------------------------------------------------------------------
MessageBytes(id) == [k \in 1 .. accepted[id] |-> <<id, k>>]

\* The callback is given the accepted messages, whole, in order and once,
\* however send and read cut them, wherever the circular buffer wraps and
\* whatever SendMessage stores between the peek, the send and the commit; the
\* receiver never takes padding or the middle of a message for a header.
DeliversInOrder ==
    /\ \A n \in DOMAIN received : received[n] = MessageBytes(n)
    /\ rpc # "garbage"

\* "it will be closed after sending existing messages in send buffer"
\* (UnixSocket.h 178-181): unless the other end closes, nothing accepted is
\* unsent when the sender closes, and all of it is received when the receiver
\* sees the end.
NothingLostAtClose ==
    ~peer_quit =>
        /\ ~fd_open => valid_bytes_ = 0
        /\ ~peer_open => Len(received) = Len(accepted)

\* A full buffer is being emptied: half full means that the write event is
\* enabled, so a SendMessage that finds no room will find it later
\* (UnixSocket.h 171-174; the event is only disabled when the buffer is empty).
HalfFullIsDrained ==
    2 * valid_bytes_ >= SendSize /\ fd_open => write_event_enabled_

\* "ReadData() and WriteData() won't be called in the future" (UnixSocket.cpp
\* 209-210): no thread can enable the write event of a closed connection.
NoEventAfterClose == ~fd_open => ~write_event_enabled_ /\ wpc = "loop"

\* What an undelayed message, and all before it, lead to: the n-th is received
\* unless the receiver closes first.
Arrived(n) == Len(received) >= n \/ ~peer_open

\* What NoMoreMessage leads to: the connection is closed, or a write failed.
Closed == ~fd_open \/ wpc = "failed"
=============================================================================
