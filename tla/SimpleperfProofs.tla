--------------------------- MODULE SimpleperfProofs ---------------------------
(***************************************************************************)
(* Theorems about two queues of simpleperf: the record cache, and the      *)
(* connection of UnixSocket.tla.                                           *)
(***************************************************************************)
EXTENDS RecordCache, SequenceTheorems, TLAPS

CONSTANTS Lens, MaxMessages, SendSize, ReadSize, SocketSize

VARIABLES
    data_, read_head_, valid_bytes_, write_event_enabled_, no_more_message_, fd_open, wpc, peeked, socket,
    peer_open, read_buffer_, read_capacity, rpc, accepted, urgent, received, peer_quit

Sock == INSTANCE UnixSocket

-----------------------------------------------------------------------------
(***************************************************************************)
(* The record cache.  For every size of the cache, every time difference   *)
(* and every file, the records reach the callback once each, and in order  *)
(* as long as none of them comes too late.                                 *)
(*                                                                         *)
(* Neither property is inductive.  DeliversAll needs that no number from   *)
(* cur_seq_ on is in use (Accounted).  DeliversInOrder needs that what was *)
(* delivered precedes what is still queued, and that it lies so far back   *)
(* that no timely record can precede it (Settled).                         *)
(***************************************************************************)

\* The queue q and the records d that were delivered hold each number below c
\* once, and no other.
Accounted(q, d, c) ==
    /\ \A r \in q : r.seq < c
    /\ \A n \in DOMAIN d : d[n].seq < c
    /\ \A r, s \in q : r.seq = s.seq => r = s
    /\ \A s \in 0 .. c - 1 :
        \/ \E r \in q : r.seq = s
        \/ \E n \in DOMAIN d : d[n].seq = s
    /\ \A m, n \in DOMAIN d : d[m].seq = d[n].seq => m = n
    /\ \A n \in DOMAIN d, r \in q : d[n].seq # r.seq

Precedes(d, q) == \A n \in DOMAIN d, r \in q : IsHappensBefore(d[n], r)

Ordered(d) == \A m, n \in DOMAIN d : m < n => IsHappensBefore(d[m], d[n])

Settled ==
    has_timestamp_ /\ timely =>
        /\ ~at_end => \A n \in DOMAIN delivered :
                        delivered[n].time + min_time_diff_in_ns <= last_time_
        /\ Precedes(delivered, queue_)
        /\ Ordered(delivered)

IInv ==
    /\ TypeOK
    /\ Accounted(queue_, delivered, cur_seq_)
    /\ result = "true" => queue_ = {}
    /\ Settled

\* A leaf is tried with SMT, then with Zenon, then with SMT for longer.
USE SMT, Zenon, SMTT(30)

\* Nothing has been read when ReadDataSection starts.
LEMMA InitEstablishes == Init => IInv
<1> SUFFICES ASSUME Init PROVE IInv
    OBVIOUS
<1> USE RecordCacheAssumption
<1>1. delivered \in Seq(Records) /\ DOMAIN delivered = {} /\ queue_ = {}
    BY DEF Init
<1>2. has_timestamp_ \in BOOLEAN /\ at_end \in BOOLEAN /\ timely \in BOOLEAN
    BY DEF Init
<1>3. last_time_ \in Times /\ cur_seq_ \in 0 .. MaxRecords /\ cur_seq_ = 0
    BY DEF Init, Times
<1>4. result = "reading"
    BY DEF Init
<1>5. TypeOK
    BY <1>1, <1>2, <1>3, <1>4 DEF TypeOK
<1>6. Settled
    BY <1>1 DEF Settled, Precedes, Ordered
<1>7. Accounted(queue_, delivered, cur_seq_)
    BY <1>1, <1>3 DEF Accounted
<1> QED BY <1>1, <1>5, <1>6, <1>7 DEF IInv

\* The sequence of the records delivered after one more.
LEMMA AppendIndices ==
    ASSUME NEW d \in Seq(Records), NEW top \in Records
    PROVE  /\ Append(d, top) \in Seq(Records)
           /\ Len(d) \in Nat
           /\ DOMAIN d = 1 .. Len(d)
           /\ DOMAIN Append(d, top) = 1 .. Len(d) + 1
           /\ \A n \in DOMAIN d : Append(d, top)[n] = d[n]
           /\ Append(d, top)[Len(d) + 1] = top
           /\ \A n \in DOMAIN Append(d, top) :
                \/ n \in DOMAIN d /\ Append(d, top)[n] = d[n]
                \/ n = Len(d) + 1 /\ Append(d, top)[n] = top
<1> DEFINE e == Append(d, top)
<1>1. /\ e \in Seq(Records)
      /\ Len(d) \in Nat
      /\ DOMAIN d = 1 .. Len(d)
      /\ DOMAIN e = 1 .. Len(d) + 1
      /\ \A n \in DOMAIN d : e[n] = d[n]
      /\ e[Len(d) + 1] = top
    OBVIOUS
<1>2. \A n \in 1 .. Len(d) + 1 : n \in 1 .. Len(d) \/ n = Len(d) + 1
    BY <1>1
<1> HIDE DEF e
<1>3. \A n \in DOMAIN e :
        \/ n \in DOMAIN d /\ e[n] = d[n]
        \/ n = Len(d) + 1 /\ e[n] = top
    <2> SUFFICES ASSUME NEW n \in DOMAIN e, n \notin DOMAIN d
                 PROVE  n = Len(d) + 1 /\ e[n] = top
        BY <1>1
    <2>1. n = Len(d) + 1
        BY <1>1, <1>2
    <2> QED BY <1>1, <2>1
<1> QED BY <1>1, <1>3 DEF e

\* Giving the top of the queue to the callback keeps what was delivered ordered
\* and ahead of the rest of the queue.
LEMMA PopKeepsOrder ==
    ASSUME NEW d \in Seq(Records), NEW q \in SUBSET Records, NEW top \in q,
           IsTop(top, q), Precedes(d, q), Ordered(d)
    PROVE  Precedes(Append(d, top), q \ {top}) /\ Ordered(Append(d, top))
<1> DEFINE e == Append(d, top)
<1> top \in Records
    OBVIOUS
<1>1. \A n \in DOMAIN e :
        \/ n \in DOMAIN d /\ e[n] = d[n]
        \/ n = Len(d) + 1 /\ e[n] = top
    BY AppendIndices
<1>2. \A m, n \in DOMAIN e : m < n => m \in DOMAIN d
    BY AppendIndices
<1>3. Precedes(e, q \ {top})
    <2> SUFFICES ASSUME NEW n \in DOMAIN e, NEW r \in q \ {top}
                 PROVE  IsHappensBefore(e[n], r)
        BY DEF Precedes
    <2> HIDE DEF e
    <2> QED BY <1>1 DEF Precedes, IsTop
<1>4. Ordered(e)
    <2> SUFFICES ASSUME NEW m \in DOMAIN e, NEW n \in DOMAIN e, m < n
                 PROVE  IsHappensBefore(e[m], e[n])
        BY DEF Ordered
    <2>1. m \in DOMAIN d /\ m # Len(d) + 1
        BY <1>2, AppendIndices
    <2>2. e[m] = d[m]
        BY <2>1, AppendIndices
    <2> HIDE DEF e
    <2>3. CASE n \in DOMAIN d /\ e[n] = d[n]
        BY <2>1, <2>2, <2>3 DEF Ordered
    <2>4. CASE e[n] = top
        BY <2>1, <2>2, <2>4 DEF Precedes
    <2> QED BY <1>1, <2>3, <2>4
<1> QED BY <1>3, <1>4

\* A record that moves from the queue to the callback stays accounted for.
LEMMA PopKeepsAccount ==
    ASSUME NEW d \in Seq(Records), NEW q \in SUBSET Records, NEW top \in q,
           NEW c \in Nat, Accounted(q, d, c)
    PROVE  Accounted(q \ {top}, Append(d, top), c)
<1> DEFINE e == Append(d, top)
<1> top \in Records
    OBVIOUS
<1>1. \A n \in DOMAIN e :
        \/ n \in DOMAIN d /\ e[n] = d[n]
        \/ n = Len(d) + 1 /\ e[n] = top
    BY AppendIndices
<1>2. \A n \in DOMAIN d : n \in DOMAIN e /\ e[n] = d[n]
    BY AppendIndices
<1>3. Len(d) + 1 \in DOMAIN e /\ e[Len(d) + 1] = top
    BY AppendIndices
<1> HIDE DEF e
<1>4. \A s \in 0 .. c - 1 :
        \/ \E r \in q \ {top} : r.seq = s
        \/ \E n \in DOMAIN e : e[n].seq = s
    <2> SUFFICES ASSUME NEW s \in 0 .. c - 1,
                        ~ \E n \in DOMAIN e : e[n].seq = s
                 PROVE  \E r \in q \ {top} : r.seq = s
        OBVIOUS
    <2>1. top.seq # s /\ ~ \E n \in DOMAIN d : d[n].seq = s
        BY <1>2, <1>3
    <2> QED BY <2>1 DEF Accounted
<1>5. \A m, n \in DOMAIN e : e[m].seq = e[n].seq => m = n
    BY <1>1 DEF Accounted
<1>6. \A n \in DOMAIN e, r \in q \ {top} : e[n].seq # r.seq
    BY <1>1 DEF Accounted
<1>7. \A n \in DOMAIN e : e[n].seq < c
    BY <1>1 DEF Accounted
<1> QED BY <1>4, <1>5, <1>6, <1>7 DEF Accounted, e

\* A new record takes the next number.
LEMMA PushKeepsAccount ==
    ASSUME NEW d \in Seq(Records), NEW q \in SUBSET Records, NEW r \in Records,
           NEW c \in Nat, r.seq = c, Accounted(q, d, c)
    PROVE  Accounted(q \cup {r}, d, c + 1)
<1>1. \A n \in DOMAIN d : d[n].seq \in Nat
    <2>1. \A n \in DOMAIN d : d[n] \in Records
        BY ElementOfSeq, LenProperties
    <2> QED BY <2>1 DEF Records
<1>2. \A s \in q : s.seq \in Nat
    BY DEF Records
<1>3. \A s \in 0 .. c : s = c \/ s \in 0 .. c - 1
    OBVIOUS
<1>4. \A s \in 0 .. c + 1 - 1 :
        \/ \E t \in q \cup {r} : t.seq = s
        \/ \E n \in DOMAIN d : d[n].seq = s
    BY <1>3 DEF Accounted
<1>5. \A t \in q \cup {r} : t.seq < c + 1
    BY <1>2 DEF Accounted
<1>6. \A t, s \in q \cup {r} : t.seq = s.seq => t = s
    BY <1>2 DEF Accounted
<1>7. \A n \in DOMAIN d : d[n].seq < c + 1 /\ \A t \in q \cup {r} : d[n].seq # t.seq
    BY <1>1, <1>2 DEF Accounted
<1> QED BY <1>4, <1>5, <1>6, <1>7 DEF Accounted

\* A record that comes in time is after everything that Pop has returned.
LEMMA TimelyIsLater ==
    ASSUME TypeOK, Settled, has_timestamp_, timely, ~at_end,
           NEW r \in Records, r.time + min_time_diff_in_ns > last_time_
    PROVE  Precedes(delivered, queue_ \cup {r})
<1> SUFFICES ASSUME NEW n \in DOMAIN delivered
             PROVE  IsHappensBefore(delivered[n], r)
    BY DEF Settled, Precedes
<1>1. delivered[n] \in Records
    BY ElementOfSeq, LenProperties DEF TypeOK
<1>2. delivered[n].time \in Nat /\ r.time \in Nat /\ last_time_ \in Nat
    BY <1>1, RecordCacheAssumption DEF Records, Times, TypeOK
<1>3. delivered[n].time + min_time_diff_in_ns <= last_time_
    BY DEF Settled
<1> QED BY <1>2, <1>3, RecordCacheAssumption DEF IsHappensBefore

\* Push keeps last_time_ the latest time seen.
LEMMA LatestIsLater ==
    ASSUME TypeOK, NEW time \in Times
    PROVE  Latest(time) \in Times /\ last_time_ <= Latest(time)
BY RecordCacheAssumption DEF Latest, TypeOK, Times

\* One pass of the loop of ReadRecord keeps the invariant.
LEMMA ReadRecordPreserves ==
    ASSUME IInv, ReadRecord
    PROVE  IInv'
<1> USE RecordCacheAssumption
<1>1. PICK time \in (IF has_timestamp_ THEN Times ELSE {0}), sample \in BOOLEAN :
        PushAndPop(NewRecord(time, sample))
    BY DEF ReadRecord
<1> DEFINE r == NewRecord(time, sample)
           q == queue_ \cup {r}
<1>2. time \in Times
    BY DEF Times
<1>3. r \in Records /\ r.time = time /\ r.seq = cur_seq_
    BY <1>2 DEF NewRecord, Records, IInv, TypeOK
<1>4. q \in SUBSET Records
    BY <1>3 DEF IInv, TypeOK
<1> HIDE DEF r
<1>5. PICK top \in q :
        /\ IsTop(top, q)
        /\ IF MayPop(top, q, Latest(r.time))
           THEN queue_' = q \ {top} /\ delivered' = Append(delivered, top)
           ELSE queue_' = q /\ UNCHANGED delivered
    BY <1>1 DEF PushAndPop, r
<1>6. /\ result = "reading" /\ ~at_end /\ cur_seq_ < MaxRecords
      /\ last_time_' = Latest(r.time)
      /\ cur_seq_' = cur_seq_ + 1
      /\ timely' = (timely /\ r.time + min_time_diff_in_ns > last_time_)
      /\ UNCHANGED <<has_timestamp_, at_end, result>>
    BY <1>1 DEF PushAndPop, r
<1>7. last_time_' \in Times /\ last_time_ <= last_time_' /\ cur_seq_' \in 0 .. MaxRecords
    BY <1>2, <1>3, <1>6, LatestIsLater DEF IInv, TypeOK
<1>8. delivered \in Seq(Records) /\ cur_seq_ \in Nat
    BY DEF IInv, TypeOK
<1>9. Accounted(q, delivered, cur_seq_ + 1)
    BY <1>3, <1>8, PushKeepsAccount DEF IInv, TypeOK
<1>10. ASSUME has_timestamp_', timely'
       PROVE  /\ has_timestamp_ /\ timely
              /\ Precedes(delivered, q)
              /\ Ordered(delivered)
              /\ \A n \in DOMAIN delivered :
                    delivered[n].time + min_time_diff_in_ns <= last_time_'
    <2>1. has_timestamp_ /\ timely /\ r.time + min_time_diff_in_ns > last_time_
        BY <1>6, <1>10
    <2>2. Precedes(delivered, q)
        BY <1>3, <1>6, <2>1, TimelyIsLater DEF IInv
    <2>3. ASSUME NEW n \in DOMAIN delivered
          PROVE  delivered[n].time + min_time_diff_in_ns <= last_time_'
        <3>1. delivered[n] \in Records
            BY <1>8, ElementOfSeq, LenProperties
        <3>2. delivered[n].time + min_time_diff_in_ns <= last_time_
            BY <1>6, <2>1 DEF IInv, Settled
        <3> QED BY <1>7, <3>1, <3>2 DEF Records, Times, IInv, TypeOK
    <2> QED BY <2>1, <2>2, <2>3 DEF IInv, Settled
<1>11. timely' \in BOOLEAN /\ has_timestamp_' \in BOOLEAN /\ at_end' \in BOOLEAN
       /\ result' \in {"reading", "true", "false"} /\ result' # "true"
    BY <1>6 DEF IInv, TypeOK
<1>12. CASE MayPop(top, q, Latest(r.time))
    <2>1. queue_' = q \ {top} /\ delivered' = Append(delivered, top) /\ top \in Records
        BY <1>4, <1>5, <1>12
    <2>2. delivered' \in Seq(Records) /\ queue_' \subseteq Records
        BY <1>4, <1>8, <2>1, AppendIndices
    <2>3. TypeOK'
        BY <1>7, <1>11, <2>2 DEF TypeOK
    <2>4. Accounted(queue_', delivered', cur_seq_')
        <3> HIDE DEF q
        <3>1. cur_seq_' \in Nat /\ Accounted(q, delivered, cur_seq_')
            BY <1>6, <1>8, <1>9
        <3>2. Accounted(q \ {top}, Append(delivered, top), cur_seq_')
            BY <1>4, <1>8, <3>1, PopKeepsAccount
        <3> QED BY <2>1, <3>2
    <2>5. ASSUME has_timestamp_', timely'
          PROVE  /\ Precedes(delivered', queue_')
                 /\ Ordered(delivered')
                 /\ \A n \in DOMAIN delivered' :
                        delivered'[n].time + min_time_diff_in_ns <= last_time_'
        <3>1. Precedes(delivered', queue_') /\ Ordered(delivered')
            BY <1>4, <1>5, <1>8, <1>10, <2>1, <2>5, PopKeepsOrder
        <3>2. top.time + min_time_diff_in_ns <= last_time_'
            BY <1>6, <1>10, <1>12, <2>5 DEF MayPop
        <3>3. \A n \in DOMAIN delivered' :
                \/ n \in DOMAIN delivered /\ delivered'[n] = delivered[n]
                \/ delivered'[n] = top
            BY <1>8, <2>1, AppendIndices
        <3> QED BY <1>10, <2>5, <3>1, <3>2, <3>3
    <2>6. Settled'
        BY <2>5 DEF Settled, Precedes, Ordered, IsHappensBefore
    <2> QED BY <1>11, <2>3, <2>4, <2>6 DEF IInv, Accounted
<1>13. CASE ~MayPop(top, q, Latest(r.time))
    <2>1. queue_' = q /\ delivered' = delivered
        BY <1>5, <1>13
    <2>2. TypeOK'
        BY <1>4, <1>7, <1>8, <1>11, <2>1 DEF TypeOK
    <2>3. Accounted(queue_', delivered', cur_seq_')
        BY <1>6, <1>9, <2>1
    <2>4. Settled'
        BY <1>10, <2>1 DEF Settled, Precedes, Ordered, IsHappensBefore
    <2> QED BY <1>11, <2>2, <2>3, <2>4 DEF IInv, Accounted
<1> QED BY <1>12, <1>13

\* PopAll at the end of the data keeps the invariant.
LEMMA ForcedPopPreserves ==
    ASSUME IInv, ForcedPop
    PROVE  IInv'
<1>1. PICK top \in queue_ :
        /\ IsTop(top, queue_)
        /\ queue_' = queue_ \ {top}
        /\ delivered' = Append(delivered, top)
    BY DEF ForcedPop
<1>2. /\ result = "reading" /\ at_end
      /\ UNCHANGED <<has_timestamp_, last_time_, cur_seq_, at_end, result, timely>>
    BY DEF ForcedPop
<1>3. delivered \in Seq(Records) /\ queue_ \in SUBSET Records /\ cur_seq_ \in Nat
    BY RecordCacheAssumption DEF IInv, TypeOK
<1>4. delivered' \in Seq(Records) /\ queue_' \subseteq Records
    BY <1>1, <1>3, AppendIndices
<1>5. TypeOK'
    BY <1>2, <1>4 DEF IInv, TypeOK
<1>6. Accounted(queue_', delivered', cur_seq_')
    BY <1>1, <1>2, <1>3, PopKeepsAccount DEF IInv
<1>7. ASSUME has_timestamp_', timely'
      PROVE  Precedes(delivered', queue_') /\ Ordered(delivered')
    BY <1>1, <1>2, <1>3, <1>7, PopKeepsOrder DEF IInv, Settled
<1>8. Settled'
    BY <1>2, <1>7 DEF Settled, Precedes, Ordered, IsHappensBefore
<1> QED BY <1>2, <1>5, <1>6, <1>8 DEF IInv, Accounted

\* Every step of ReadDataSection keeps the invariant.
LEMMA NextPreserves == IInv /\ [Next]_vars => IInv'
<1> SUFFICES ASSUME IInv, [Next]_vars
             PROVE  IInv'
    OBVIOUS
<1> USE DEF IInv, TypeOK, Accounted, Settled, Precedes, Ordered, IsHappensBefore
<1>1. CASE ReadRecord
    BY <1>1, ReadRecordPreserves
<1>2. CASE EndOfData
    BY <1>2 DEF EndOfData
<1>3. CASE ForcedPop
    BY <1>3, ForcedPopPreserves
<1>4. CASE ReturnTrue
    BY <1>4 DEF ReturnTrue
<1>5. CASE ReturnFalse
    BY <1>5 DEF ReturnFalse
<1>6. CASE UNCHANGED vars
    BY <1>6 DEF vars
<1> QED BY <1>1, <1>2, <1>3, <1>4, <1>5, <1>6 DEF Next, Proceed

\* The cache's queue, counters and times keep their types.
THEOREM TypeCorrect == Spec => []TypeOK
<1>1. IInv => TypeOK
    BY DEF IInv
<1> QED BY <1>1, InitEstablishes, NextPreserves, PTL DEF Spec

\* Every record read is in the queue or was given to the callback, once; none is
\* left when ReadDataSection returns true.
THEOREM EachOnce == Spec => []DeliversAll
<1>1. IInv => DeliversAll
    BY DEF IInv, Accounted, DeliversAll
<1> QED BY <1>1, InitEstablishes, NextPreserves, PTL DEF Spec

\* While no record comes later than record.h allows, the callback gets the
\* records in the order of IsHappensBefore, whatever the size of the cache.
THEOREM InOrder == Spec => []DeliversInOrder
<1>1. IInv => DeliversInOrder
    BY DEF IInv, Settled, Ordered, DeliversInOrder
<1> QED BY <1>1, InitEstablishes, NextPreserves, PTL DEF Spec

-----------------------------------------------------------------------------
(***************************************************************************)
(* The connection, for every size of its buffers and of the socket and     *)
(* every set of message lengths.                                           *)
(***************************************************************************)

\* A message has at least its header (UnixMessage, 8 bytes), and read_buffer_ is
\* made large enough for one.
Sizes ==
    /\ Lens \subseteq {n \in Nat : n >= Sock!HeaderSize}
    /\ SendSize \in Nat \ {0}
    /\ ReadSize \in {n \in Nat : n >= Sock!HeaderSize}

\* A unit of a message: its id and its offset; <<0, 0>> was never written.
Bytes == Nat \X Nat

\* The type of every variable; rpc is never "garbage".
SockTypeOK ==
    /\ data_ \in [Sock!Cells -> Bytes]
    /\ read_head_ \in Sock!Cells
    /\ valid_bytes_ \in 0 .. SendSize
    /\ write_event_enabled_ \in BOOLEAN
    /\ no_more_message_ \in BOOLEAN
    /\ fd_open \in BOOLEAN
    /\ wpc \in {"loop", "send", "commit", "close", "failed"}
    /\ peeked \in Nat
    /\ socket \in Seq(Bytes)
    /\ peer_open \in BOOLEAN
    /\ read_buffer_ \in Seq(Bytes)
    /\ read_capacity \in {n \in Nat : n >= Sock!HeaderSize}
    /\ rpc \in {"loop", "consume"}
    /\ accepted \in Seq(Lens)
    /\ received \in Seq(Seq(Bytes))
    /\ peer_quit \in BOOLEAN

\* What was peeked is at the head of the ring and in one piece.
PeekInv ==
    wpc \in {"send", "commit"} =>
        /\ peeked \in 1 .. valid_bytes_
        /\ read_head_ + peeked <= SendSize

\* Bytes that are in the socket and not committed yet.
Sent == IF wpc = "commit" THEN peeked ELSE 0

\* The j-th cell from the head of the ring, counted from 0.
Cell(j) == IF read_head_ + j < SendSize THEN read_head_ + j ELSE read_head_ + j - SendSize

\* How many bytes of the stream have left read_buffer_, in whole messages.
Taken(e) == e[Len(received)]

\* Where the head of the ring is in the stream: behind it are read_buffer_ and
\* the socket, but for what is sent and not committed.
RingStart(e) == Taken(e) + Len(read_buffer_) + Len(socket) - Sent

\* e[n] is where the n-th message ends in the stream of all bytes accepted.
Ends(e) ==
    /\ e \in [0 .. Len(accepted) -> Nat]
    /\ \A n \in 1 .. Len(accepted) : e[n] = e[n - 1] + Sock!Align(accepted[n])
    /\ \A m, n \in 0 .. Len(accepted) : m < n => e[m] < e[n]
    /\ Len(received) <= Len(accepted)
    /\ e[Len(accepted)] = RingStart(e) + valid_bytes_

\* read_buffer_ holds the bytes of the stream at their places in it; of padding
\* nothing is said.
BufferHolds(e) ==
    \A n \in 1 .. Len(accepted) : \A k \in 1 .. accepted[n], p \in 1 .. Len(read_buffer_) :
        e[n - 1] + k = Taken(e) + p => read_buffer_[p] = <<n, k>>

\* The same of the socket, which follows read_buffer_.
SocketHolds(e) ==
    \A n \in 1 .. Len(accepted) : \A k \in 1 .. accepted[n], p \in 1 .. Len(socket) :
        e[n - 1] + k = Taken(e) + Len(read_buffer_) + p => socket[p] = <<n, k>>

\* The same of the part of the ring that is not sent.
RingHolds(e) ==
    \A n \in 1 .. Len(accepted) : \A k \in 1 .. accepted[n], j \in Sent .. valid_bytes_ - 1 :
        e[n - 1] + k = RingStart(e) + j + 1 => data_[Cell(j)] = <<n, k>>

\* The stream of accepted bytes, cut in four: received, buffered, in flight and
\* still in the ring.
Stream(e) == Ends(e) /\ BufferHolds(e) /\ SocketHolds(e) /\ RingHolds(e)

\* What the callback was given so far.
ReceivedInv == \A n \in 1 .. Len(received) : received[n] = Sock!MessageBytes(n)

\* A receiver that reads has less than a message, and room for the rest.
PartInv ==
    rpc = "loop" =>
        /\ Len(read_buffer_) < read_capacity
        /\ Sock!HasHeader => Len(read_buffer_) < Sock!Align(accepted[Len(received) + 1])

\* A sender closes with an empty ring, a receiver that does not quit after it.
CloseInv ==
    /\ wpc = "close" => no_more_message_ /\ valid_bytes_ = 0
    /\ ~fd_open => no_more_message_
    /\ ~peer_quit /\ ~peer_open => ~fd_open

\* The inductive invariant.
SockIInv ==
    /\ SockTypeOK
    /\ PeekInv
    /\ \E e \in [0 .. Len(accepted) -> Nat] : Stream(e)
    /\ ReceivedInv
    /\ PartInv
    /\ CloseInv
    /\ Sock!NothingLostAtClose
    /\ Sock!NoEventAfterClose
    /\ Sock!HalfFullIsDrained

-----------------------------------------------------------------------------
(* Lengths and cells.                                                      *)

\* A message is aligned by adding at most a unit.
LEMMA AlignFacts ==
    ASSUME NEW n \in Nat, n >= Sock!HeaderSize
    PROVE  Sock!Align(n) \in Nat /\ Sock!Align(n) >= n /\ Sock!Align(n) >= Sock!HeaderSize
BY DEF Sock!Align, Sock!Alignment, Sock!HeaderSize

\* One lap of a ring.
LEMMA ModOfLap ==
    ASSUME NEW N \in Nat \ {0}, NEW a \in Nat, a < 2 * N
    PROVE  a % N = IF a < N THEN a ELSE a - N
<1>1. CASE a < N
    BY <1>1
<1>2. CASE a >= N
    BY <1>2
<1> QED BY <1>1, <1>2

\* The lengths of the accepted messages.
LEMMA AcceptedLens ==
    ASSUME Sizes, SockTypeOK, NEW n \in 1 .. Len(accepted)
    PROVE  /\ accepted[n] \in Lens /\ accepted[n] \in Nat /\ accepted[n] >= Sock!HeaderSize
           /\ Sock!Align(accepted[n]) \in Nat /\ Sock!Align(accepted[n]) >= accepted[n]
           /\ Sock!Align(accepted[n]) >= Sock!HeaderSize
<1>1. accepted[n] \in Lens
    BY DEF SockTypeOK
<1>2. accepted[n] \in Nat /\ accepted[n] >= Sock!HeaderSize
    BY <1>1 DEF Sizes
<1> QED BY <1>1, <1>2, AlignFacts

\* Nothing is accepted at first.
LEMMA InitIInv == Sizes /\ Sock!Init => SockIInv
<1> SUFFICES ASSUME Sizes, Sock!Init PROVE SockIInv
    OBVIOUS
<1>1. SockTypeOK
    BY DEF Sock!Init, SockTypeOK, Sizes, Sock!Cells, Bytes, Sock!HeaderSize
<1>2. PeekInv /\ CloseInv /\ Sock!NothingLostAtClose /\ Sock!NoEventAfterClose
    BY DEF Sock!Init, PeekInv, CloseInv, Sock!NothingLostAtClose, Sock!NoEventAfterClose
<1>3. PartInv /\ Sock!HalfFullIsDrained
    BY DEF Sock!Init, PartInv, Sizes, Sock!HasHeader, Sock!HeaderSize, Sock!HalfFullIsDrained
<1>4. ReceivedInv
    BY DEF Sock!Init, ReceivedInv
<1>5. Stream([n \in 0 .. Len(accepted) |-> 0])
    <2> DEFINE e == [n \in 0 .. Len(accepted) |-> 0]
    <2>1. Len(accepted) = 0 /\ Len(received) = 0 /\ Len(read_buffer_) = 0 /\ Len(socket) = 0 /\ Sent = 0
        BY DEF Sock!Init, Sent
    <2>2. 0 .. Len(accepted) = {0} /\ 1 .. Len(accepted) = {}
        BY <2>1
    <2>3. e[0] = 0 /\ e \in [0 .. Len(accepted) -> Nat]
        BY <2>2
    <2> HIDE DEF e
    <2>4. Ends(e)
        BY <2>1, <2>2, <2>3 DEF Sock!Init, Ends, RingStart, Taken
    <2>5. BufferHolds(e) /\ SocketHolds(e) /\ RingHolds(e)
        BY <2>2 DEF BufferHolds, SocketHolds, RingHolds
    <2> QED BY <2>4, <2>5 DEF Stream, e
<1>6. [n \in 0 .. Len(accepted) |-> 0] \in [0 .. Len(accepted) -> Nat]
    OBVIOUS
<1> QED BY <1>1, <1>2, <1>3, <1>4, <1>5, <1>6 DEF SockIInv

\* The streams of a state.
LEMMA StreamFacts ==
    ASSUME Sizes, SockTypeOK, PeekInv, NEW e, Stream(e)
    PROVE  /\ Ends(e) /\ BufferHolds(e) /\ SocketHolds(e) /\ RingHolds(e)
           /\ Sent \in Nat /\ Sent <= valid_bytes_
           /\ Taken(e) \in Nat /\ RingStart(e) \in Int
           /\ Len(received) \in Nat /\ Len(accepted) \in Nat
           /\ Len(read_buffer_) \in Nat /\ Len(socket) \in Nat
<1>1. Sent \in Nat /\ Sent <= valid_bytes_
    BY DEF Sent, PeekInv, SockTypeOK
<1>2. /\ Len(received) \in Nat /\ Len(accepted) \in Nat
      /\ Len(read_buffer_) \in Nat /\ Len(socket) \in Nat
    BY DEF SockTypeOK
<1>3. Ends(e) /\ BufferHolds(e) /\ SocketHolds(e) /\ RingHolds(e)
    BY DEF Stream
<1>4. Taken(e) \in Nat
    BY <1>2, <1>3 DEF Ends, Taken
<1> QED BY <1>1, <1>2, <1>3, <1>4 DEF RingStart

\* A step that leaves the bytes where they are.
LEMMA SameStream ==
    ASSUME UNCHANGED <<data_, read_head_, valid_bytes_, socket, read_buffer_, accepted, received>>,
           Sent' = Sent
    PROVE  (\E e \in [0 .. Len(accepted) -> Nat] : Stream(e)) =>
               (\E e \in [0 .. Len(accepted) -> Nat] : Stream(e))'
<1>0. /\ data_' = data_ /\ read_head_' = read_head_ /\ valid_bytes_' = valid_bytes_ /\ socket' = socket
      /\ read_buffer_' = read_buffer_ /\ accepted' = accepted /\ received' = received
    OBVIOUS
<1>1. ASSUME NEW e, Ends(e) PROVE Ends(e)'
    BY <1>1 DEF Ends, RingStart, Taken
<1>2. ASSUME NEW e, BufferHolds(e) PROVE BufferHolds(e)'
    BY <1>0, <1>2 DEF BufferHolds, Taken
<1>3. ASSUME NEW e, SocketHolds(e) PROVE SocketHolds(e)'
    BY <1>0, <1>3 DEF SocketHolds, Taken
<1>4. ASSUME NEW e, RingHolds(e) PROVE RingHolds(e)'
    <2>1. RingStart(e)' = RingStart(e) /\ \A j : Cell(j)' = Cell(j)
        BY DEF RingStart, Taken, Cell
    <2> QED BY <1>0, <1>4, <2>1 DEF RingHolds
<1> QED BY <1>1, <1>2, <1>3, <1>4 DEF Stream

-----------------------------------------------------------------------------
(* SendMessage and NoMoreMessage.                                          *)

\* StoreMessage writes where the ring is free: the bytes of the message are the
\* cells after the valid ones, and these keep their bytes.
LEMMA StoreWritesFreeCells ==
    ASSUME Sizes, SockTypeOK, NEW len \in Lens, NEW id \in Nat, Sock!HasRoom(len), Sock!StoreMessage(id, len)
    PROVE  /\ valid_bytes_' = valid_bytes_ + Sock!Align(len) /\ valid_bytes_' <= SendSize
           /\ data_' \in [Sock!Cells -> Bytes]
           /\ \A j \in 0 .. valid_bytes_ - 1 : data_'[Cell(j)] = data_[Cell(j)]
           /\ \A k \in 1 .. len : data_'[Cell(valid_bytes_ + k - 1)] = <<id, k>>
<1> DEFINE h == (read_head_ + valid_bytes_) % SendSize
           off(c) == 1 + (IF c >= h THEN c - h ELSE c + SendSize - h)
<1>1. /\ len \in Nat /\ len >= Sock!HeaderSize /\ Sock!Align(len) \in Nat /\ Sock!Align(len) >= len
      /\ Sock!Align(len) >= Sock!HeaderSize
    BY AlignFacts DEF Sizes
<1>2. /\ SendSize \in Nat \ {0} /\ read_head_ \in Nat /\ read_head_ < SendSize
      /\ valid_bytes_ \in Nat /\ valid_bytes_ <= SendSize
      /\ valid_bytes_ + Sock!Align(len) <= SendSize
    BY <1>1 DEF SockTypeOK, Sizes, Sock!Cells, Sock!HasRoom
<1>3. h = Cell(valid_bytes_) /\ h \in Sock!Cells
    <2>1. read_head_ + valid_bytes_ \in Nat /\ read_head_ + valid_bytes_ < 2 * SendSize
        BY <1>2
    <2>2. h = IF read_head_ + valid_bytes_ < SendSize THEN read_head_ + valid_bytes_
              ELSE read_head_ + valid_bytes_ - SendSize
        <3>1. \A a \in Nat : a < 2 * SendSize => a % SendSize = IF a < SendSize THEN a ELSE a - SendSize
            BY <1>2, ModOfLap
        <3> QED BY <1>2, <2>1, <3>1
    <2> QED BY <1>2, <2>2 DEF Cell, Sock!Cells
<1>4. /\ data_' = [c \in Sock!Cells |-> IF off(c) <= len THEN <<id, off(c)>> ELSE data_[c]]
      /\ valid_bytes_' = valid_bytes_ + Sock!Align(len)
    BY DEF Sock!StoreMessage
<1>5. \A j \in 0 .. SendSize - 1 : Cell(j) \in Sock!Cells
    BY <1>2 DEF Cell, Sock!Cells
<1>6. ASSUME NEW j \in 0 .. valid_bytes_ - 1 PROVE off(Cell(j)) > len
    <2>1. CASE read_head_ + valid_bytes_ < SendSize
        <3>1. h = read_head_ + valid_bytes_ /\ Cell(j) = read_head_ + j
            BY <1>2, <1>3, <2>1 DEF Cell
        <3> QED BY <1>1, <1>2, <3>1
    <2>2. CASE read_head_ + valid_bytes_ >= SendSize
        <3>1. h = read_head_ + valid_bytes_ - SendSize
            BY <1>2, <1>3, <2>2 DEF Cell
        <3>2. CASE read_head_ + j < SendSize
            <4>1. Cell(j) = read_head_ + j
                BY <3>2 DEF Cell
            <4> QED BY <1>1, <1>2, <2>2, <3>1, <4>1
        <3>3. CASE ~(read_head_ + j < SendSize)
            <4>1. Cell(j) = read_head_ + j - SendSize
                BY <3>3 DEF Cell
            <4> QED BY <1>1, <1>2, <2>2, <3>1, <3>3, <4>1
        <3> QED BY <3>2, <3>3
    <2> QED BY <1>2, <2>1, <2>2
<1>7. ASSUME NEW k \in 1 .. len PROVE off(Cell(valid_bytes_ + k - 1)) = k
    <2>1. CASE read_head_ + valid_bytes_ < SendSize
        <3>1. h = read_head_ + valid_bytes_
            BY <1>2, <1>3, <2>1 DEF Cell
        <3>2. CASE h + k - 1 < SendSize
            <4>1. Cell(valid_bytes_ + k - 1) = h + k - 1
                BY <1>1, <1>2, <3>1, <3>2 DEF Cell
            <4> QED BY <1>1, <1>2, <3>1, <4>1
        <3>3. CASE ~(h + k - 1 < SendSize)
            <4>1. Cell(valid_bytes_ + k - 1) = h + k - 1 - SendSize
                BY <1>1, <1>2, <3>1, <3>3 DEF Cell
            <4> QED BY <1>1, <1>2, <3>1, <3>3, <4>1
        <3> QED BY <3>2, <3>3
    <2>2. CASE read_head_ + valid_bytes_ >= SendSize
        <3>1. h = read_head_ + valid_bytes_ - SendSize
            BY <1>2, <1>3, <2>2 DEF Cell
        <3>2. Cell(valid_bytes_ + k - 1) = h + k - 1
            BY <1>1, <1>2, <2>2, <3>1 DEF Cell
        <3> QED BY <1>1, <1>2, <3>1, <3>2
    <2> QED BY <1>2, <2>1, <2>2
<1>8. data_' \in [Sock!Cells -> Bytes]
    <2>1. \A c \in Sock!Cells : off(c) \in Nat
        BY <1>2, <1>3 DEF Sock!Cells
    <2> QED BY <1>4, <2>1 DEF SockTypeOK, Bytes
<1> HIDE DEF h, off
<1>9. ASSUME NEW j \in 0 .. valid_bytes_ - 1 PROVE data_'[Cell(j)] = data_[Cell(j)]
    <2>1. Cell(j) \in Sock!Cells /\ ~(off(Cell(j)) <= len)
        <3>1. off(Cell(j)) \in Int
            BY <1>2, <1>3, <1>5 DEF off, Sock!Cells
        <3> QED BY <1>1, <1>2, <1>5, <1>6, <3>1
    <2> QED BY <1>4, <2>1
<1>10. ASSUME NEW k \in 1 .. len PROVE data_'[Cell(valid_bytes_ + k - 1)] = <<id, k>>
    <2>1. Cell(valid_bytes_ + k - 1) \in Sock!Cells /\ off(Cell(valid_bytes_ + k - 1)) = k
        BY <1>1, <1>2, <1>5, <1>7
    <2> QED BY <1>1, <1>4, <2>1
<1> QED BY <1>2, <1>4, <1>8, <1>9, <1>10

\* Where messages end: none after the last one, and a byte of a message before
\* the end of the message.
LEMMA EndsFacts ==
    ASSUME Sizes, SockTypeOK, PeekInv, NEW e, Stream(e)
    PROVE  /\ \A n \in 0 .. Len(accepted) : e[n] \in Nat /\ e[n] <= e[Len(accepted)]
           /\ \A n \in 1 .. Len(accepted) : \A k \in 1 .. accepted[n] :
                e[n - 1] + k <= e[n] /\ e[n - 1] + k <= e[Len(accepted)]
           /\ e[Len(accepted)] = RingStart(e) + valid_bytes_
           /\ e[Len(accepted)] >= Taken(e) + Len(read_buffer_) + Len(socket)
           /\ Len(received) = Len(accepted) => Len(read_buffer_) = 0
<1>1. /\ Ends(e) /\ Sent \in Nat /\ Sent <= valid_bytes_ /\ valid_bytes_ \in Nat
      /\ Len(received) \in Nat /\ Len(accepted) \in Nat
      /\ Len(read_buffer_) \in Nat /\ Len(socket) \in Nat
    BY StreamFacts DEF SockTypeOK, Sizes
<1>2. \A n \in 0 .. Len(accepted) : e[n] \in Nat /\ e[n] <= e[Len(accepted)]
    <2> SUFFICES ASSUME NEW n \in 0 .. Len(accepted)
                 PROVE  e[n] \in Nat /\ e[n] <= e[Len(accepted)]
        OBVIOUS
    <2>1. e[n] \in Nat /\ e[Len(accepted)] \in Nat
        BY <1>1 DEF Ends
    <2>2. n = Len(accepted) \/ e[n] < e[Len(accepted)]
        BY <1>1 DEF Ends
    <2> QED BY <2>1, <2>2
<1>3. ASSUME NEW n \in 1 .. Len(accepted), NEW k \in 1 .. accepted[n]
      PROVE  e[n - 1] + k <= e[n] /\ e[n - 1] + k <= e[Len(accepted)]
    <2>1. n - 1 \in 0 .. Len(accepted) /\ n \in 0 .. Len(accepted) /\ Len(accepted) \in 0 .. Len(accepted)
        BY <1>1
    <2>2. e[n] = e[n - 1] + Sock!Align(accepted[n])
        BY <1>1 DEF Ends
    <2>3. accepted[n] \in Nat /\ Sock!Align(accepted[n]) \in Nat /\ Sock!Align(accepted[n]) >= accepted[n]
        BY AcceptedLens
    <2>4. e[n - 1] \in Nat /\ e[n] \in Nat /\ e[n] <= e[Len(accepted)] /\ e[Len(accepted)] \in Nat
        BY <1>2, <2>1
    <2>5. e[n - 1] + k <= e[n]
        <3>1. k \in Int /\ k <= Sock!Align(accepted[n])
            BY <2>3
        <3> QED BY <2>2, <2>3, <2>4, <3>1
    <2> QED BY <2>3, <2>4, <2>5
<1>4. /\ e[Len(accepted)] = RingStart(e) + valid_bytes_
      /\ RingStart(e) = Taken(e) + Len(read_buffer_) + Len(socket) - Sent
      /\ Taken(e) \in Nat
    BY <1>1, StreamFacts DEF Ends, RingStart
<1>5. Len(received) = Len(accepted) => Len(read_buffer_) = 0
    BY <1>1, <1>4 DEF Taken
<1> QED BY <1>1, <1>2, <1>3, <1>4, <1>5

\* A message enters the stream at its end.
LEMMA SendKeepsStream ==
    ASSUME NEW e, NEW len, NEW L
    PROVE  /\ Sizes /\ SockTypeOK /\ PeekInv /\ Stream(e) /\ L = Len(accepted)
           /\ len \in Lens /\ Sock!HasRoom(len) /\ Sock!StoreMessage(L + 1, len)
           /\ Len(accepted') = L + 1 /\ accepted'[L + 1] = len
           /\ \A n \in 1 .. L : accepted'[n] = accepted[n]
           /\ read_head_' = read_head_ /\ wpc' = wpc /\ peeked' = peeked /\ socket' = socket
           /\ read_buffer_' = read_buffer_ /\ received' = received
           => (\E f \in [0 .. Len(accepted) -> Nat] : Stream(f))'
<1>0. SUFFICES ASSUME Sizes, SockTypeOK, PeekInv, Stream(e), L = Len(accepted),
                      len \in Lens, Sock!HasRoom(len), Sock!StoreMessage(L + 1, len),
                      Len(accepted') = L + 1, accepted'[L + 1] = len,
                      \A n \in 1 .. L : accepted'[n] = accepted[n],
                      read_head_' = read_head_, wpc' = wpc, peeked' = peeked, socket' = socket,
                      read_buffer_' = read_buffer_, received' = received
               PROVE  (\E f \in [0 .. Len(accepted) -> Nat] : Stream(f))'
    OBVIOUS
<1> DEFINE f == [n \in 0 .. L + 1 |-> IF n = L + 1 THEN e[L] + Sock!Align(len) ELSE e[n]]
           R == Len(read_buffer_)
           S == Len(socket)
           T == Taken(e)
           B == RingStart(e)
<1>1. /\ Sent \in Nat /\ Sent <= valid_bytes_ /\ T \in Nat /\ B \in Int
      /\ Len(received) \in Nat /\ L \in Nat /\ R \in Nat /\ S \in Nat
      /\ Len(received) <= L /\ valid_bytes_ \in Nat
    <2>1. valid_bytes_ \in Nat
        BY <1>0 DEF SockTypeOK, Sizes
    <2>2. Ends(e) => Len(received) <= L
        BY <1>0 DEF Ends
    <2> QED BY <1>0, <2>1, <2>2, StreamFacts
<1>2. len \in Nat /\ Sock!Align(len) \in Nat /\ Sock!Align(len) >= len /\ Sock!Align(len) >= 2
    BY <1>0, AlignFacts DEF Sizes, Sock!HeaderSize
<1>3. /\ e \in [0 .. L -> Nat] /\ e[L] \in Nat
      /\ \A n \in 1 .. L : e[n] = e[n - 1] + Sock!Align(accepted[n])
      /\ \A m, n \in 0 .. L : m < n => e[m] < e[n]
    BY SMTT(30), <1>0, <1>1, StreamFacts DEF Ends
<1>4. /\ f \in [0 .. L + 1 -> Nat] /\ f[L + 1] = e[L] + Sock!Align(len)
      /\ \A n \in 0 .. L : f[n] = e[n]
    BY <1>1, <1>2, <1>3
<1> HIDE DEF f
<1>5. /\ Sent' = Sent /\ Taken(f)' = T /\ RingStart(f)' = B
      /\ \A j : Cell(j)' = Cell(j)
    <2>1. f[Len(received)] = e[Len(received)]
        BY <1>1, <1>4
    <2> QED BY <1>0, <2>1 DEF Sent, Taken, RingStart, Cell
<1>6. /\ valid_bytes_' = valid_bytes_ + Sock!Align(len)
      /\ \A j \in 0 .. valid_bytes_ - 1 : data_'[Cell(j)] = data_[Cell(j)]
      /\ \A k \in 1 .. len : data_'[Cell(valid_bytes_ + k - 1)] = <<L + 1, k>>
    BY <1>0, <1>1, StoreWritesFreeCells
<1>7. /\ e[L] = B + valid_bytes_
      /\ e[L] >= T + R + S
    BY <1>0, EndsFacts
<1>8. /\ \A n \in 0 .. L : e[n] \in Nat /\ e[n] <= e[L]
      /\ \A n \in 1 .. L : \A k \in 1 .. accepted[n] : e[n - 1] + k <= e[L]
    BY <1>0, EndsFacts
<1> HIDE DEF R, S, T, B
<1>9. Ends(f)'
    <2>1. \A n \in 1 .. L + 1 : f[n] = f[n - 1] + Sock!Align(accepted'[n])
        <3>1. ASSUME NEW n \in 1 .. L PROVE f[n] = f[n - 1] + Sock!Align(accepted'[n])
            <4>1. n \in 0 .. L /\ n - 1 \in 0 .. L
                BY <1>1
            <4> QED BY <1>0, <1>3, <1>4, <4>1
        <3>2. ASSUME NEW n, n = L + 1 PROVE f[n] = f[n - 1] + Sock!Align(accepted'[n])
            <4>1. L \in 0 .. L /\ n - 1 = L
                BY <1>1, <3>2
            <4>2. f[n - 1] = e[L] /\ f[n] = e[L] + Sock!Align(len) /\ accepted'[n] = len
                BY <1>0, <1>4, <3>2, <4>1
            <4> QED BY <4>2
        <3>3. ASSUME NEW n \in 1 .. L + 1 PROVE f[n] = f[n - 1] + Sock!Align(accepted'[n])
            <4>1. CASE n = L + 1
                BY <3>2, <4>1
            <4>2. CASE n # L + 1
                <5>1. n \in 1 .. L
                    BY <1>1, <4>2
                <5> QED BY <3>1, <5>1
            <4> QED BY <4>1, <4>2
        <3> QED BY <3>3
    <2>2. ASSUME NEW m \in 0 .. L + 1, NEW n \in 0 .. L + 1, m < n PROVE f[m] < f[n]
        <3>1. m \in 0 .. L
            BY <1>1, <2>2
        <3>2. f[m] = e[m] /\ e[m] \in Nat /\ e[m] <= e[L]
            BY <1>4, <1>8, <3>1
        <3>3. CASE n = L + 1
            BY <1>2, <1>3, <1>4, <3>2, <3>3
        <3>4. CASE n # L + 1
            <4>1. n \in 0 .. L
                BY <1>1, <3>4
            <4> QED BY <1>3, <1>4, <2>2, <3>1, <4>1
        <3> QED BY <3>3, <3>4
    <2>3. f[L + 1] = B + valid_bytes_'
        BY <1>1, <1>2, <1>4, <1>6, <1>7
    <2>4. /\ Len(accepted') = L + 1 /\ Len(received') <= L + 1
          /\ f \in [0 .. L + 1 -> Nat]
        BY <1>0, <1>1, <1>4
    <2> QED BY <1>5, <2>1, <2>2, <2>3, <2>4 DEF Ends
<1>10. ASSUME NEW n \in 1 .. L + 1
       PROVE  /\ n - 1 \in 0 .. L /\ f[n - 1] = e[n - 1]
              /\ n = L + 1 => n - 1 = L /\ accepted'[n] = len
              /\ n # L + 1 => n \in 1 .. L /\ accepted'[n] = accepted[n]
    <2>1. n - 1 \in 0 .. L /\ (n = L + 1 => n - 1 = L) /\ (n # L + 1 => n \in 1 .. L)
        BY <1>1
    <2> QED BY <1>0, <1>4, <2>1
<1>11. BufferHolds(f)'
    <2>1. ASSUME NEW n \in 1 .. L + 1, NEW k \in 1 .. accepted'[n], NEW p \in 1 .. R,
                 f[n - 1] + k = T + p
          PROVE  read_buffer_[p] = <<n, k>>
        <3>1. CASE n = L + 1
            <4>1. k \in 1 .. len /\ e[L] + k = T + p
                BY <1>10, <2>1, <3>1
            <4> QED BY <1>1, <1>2, <1>3, <1>7, <4>1
        <3>2. CASE n # L + 1
            <4>1. n \in 1 .. L /\ k \in 1 .. accepted[n] /\ e[n - 1] + k = T + p
                BY <1>10, <2>1, <3>2
            <4> QED BY <1>0, <4>1 DEF Stream, BufferHolds, T, R
        <3> QED BY <3>1, <3>2
    <2> QED BY <1>0, <1>5, <2>1 DEF BufferHolds, R
<1>12. SocketHolds(f)'
    <2>1. ASSUME NEW n \in 1 .. L + 1, NEW k \in 1 .. accepted'[n], NEW p \in 1 .. S,
                 f[n - 1] + k = T + R + p
          PROVE  socket[p] = <<n, k>>
        <3>1. CASE n = L + 1
            <4>1. k \in 1 .. len /\ e[L] + k = T + R + p
                BY <1>10, <2>1, <3>1
            <4> QED BY <1>1, <1>2, <1>3, <1>7, <4>1
        <3>2. CASE n # L + 1
            <4>1. n \in 1 .. L /\ k \in 1 .. accepted[n] /\ e[n - 1] + k = T + R + p
                BY <1>10, <2>1, <3>2
            <4> QED BY <1>0, <4>1 DEF Stream, SocketHolds, T, R, S
        <3> QED BY <3>1, <3>2
    <2> QED BY <1>0, <1>5, <2>1 DEF SocketHolds, R, S
<1>13. RingHolds(f)'
    <2>1. ASSUME NEW n \in 1 .. L + 1, NEW k \in 1 .. accepted'[n],
                 NEW j \in Sent .. valid_bytes_' - 1, f[n - 1] + k = B + j + 1
          PROVE  data_'[Cell(j)] = <<n, k>>
        <3>1. CASE n = L + 1
            <4>1. k \in 1 .. len /\ e[L] + k = B + j + 1
                BY <1>10, <2>1, <3>1
            <4>2. j = valid_bytes_ + k - 1
                BY <1>1, <1>2, <1>7, <4>1
            <4> QED BY <1>6, <3>1, <4>1, <4>2
        <3>2. CASE n # L + 1
            <4>1. n \in 1 .. L /\ k \in 1 .. accepted[n] /\ e[n - 1] + k = B + j + 1
                BY <1>10, <2>1, <3>2
            <4>2. e[n - 1] + k <= e[L]
                BY <1>8, <4>1
            <4>3. j \in Sent .. valid_bytes_ - 1 /\ j \in 0 .. valid_bytes_ - 1
                BY <1>1, <1>2, <1>6, <1>7, <4>1, <4>2
            <4>4. data_[Cell(j)] = <<n, k>>
                BY <1>0, <4>1, <4>3 DEF Stream, RingHolds, B
            <4> QED BY <1>6, <4>3, <4>4
        <3> QED BY <3>1, <3>2
    <2> QED BY <1>0, <1>5, <2>1 DEF RingHolds
<1>14. f \in [0 .. Len(accepted') -> Nat] /\ Stream(f)'
    BY <1>0, <1>4, <1>9, <1>11, <1>12, <1>13 DEF Stream
<1> QED BY <1>14

\* SendMessage, from any thread, in any state of the two loops.
LEMMA SendMessageKeeps ==
    ASSUME NEW len \in Lens, NEW undelayed \in BOOLEAN
    PROVE  Sizes /\ SockIInv /\ Sock!SendMessage(len, undelayed) => SockIInv'
<1>0. SUFFICES ASSUME Sizes, SockIInv, Sock!SendMessage(len, undelayed) PROVE SockIInv'
    OBVIOUS
<1> DEFINE L == Len(accepted)
<1>1. /\ ~no_more_message_ /\ Sock!HasRoom(len) /\ Sock!StoreMessage(L + 1, len)
      /\ write_event_enabled_' = (write_event_enabled_ \/ undelayed \/ 2 * valid_bytes_' >= SendSize)
      /\ accepted' = Append(accepted, len)
      /\ read_head_' = read_head_ /\ no_more_message_' = no_more_message_ /\ fd_open' = fd_open
      /\ wpc' = wpc /\ peeked' = peeked /\ socket' = socket /\ peer_open' = peer_open
      /\ read_buffer_' = read_buffer_ /\ read_capacity' = read_capacity /\ rpc' = rpc
      /\ received' = received /\ peer_quit' = peer_quit
    BY <1>0 DEF Sock!SendMessage, Sock!EnableWriteEvent, Sock!writeVars, Sock!receiverVars
<1>2. /\ SockTypeOK /\ PeekInv /\ ReceivedInv /\ PartInv /\ CloseInv /\ Sock!NothingLostAtClose
      /\ Sock!NoEventAfterClose /\ Sock!HalfFullIsDrained
    BY <1>0 DEF SockIInv
<1>3. PICK e \in [0 .. Len(accepted) -> Nat] : Stream(e)
    BY <1>0 DEF SockIInv
<1>4. /\ L \in Nat /\ accepted \in Seq(Lens) /\ Len(received) \in Nat /\ Len(received) <= L
      /\ Len(received) = L => Len(read_buffer_) = 0
    <2>1. Ends(e) => Len(received) <= L
        BY DEF Ends
    <2> QED BY <1>0, <1>2, <1>3, <2>1, StreamFacts, EndsFacts DEF SockTypeOK
<1>5. /\ Len(accepted') = L + 1 /\ accepted'[L + 1] = len /\ accepted' \in Seq(Lens)
      /\ \A n \in 1 .. L : accepted'[n] = accepted[n]
    <2>1. accepted' = Append(accepted, len)
        BY <1>1
    <2> QED BY <1>4, <2>1
<1> HIDE DEF L
<1>6. (\E f \in [0 .. Len(accepted) -> Nat] : Stream(f))'
    BY <1>0, <1>1, <1>2, <1>3, <1>5, SendKeepsStream DEF L
<1>7. /\ valid_bytes_' = valid_bytes_ + Sock!Align(len) /\ valid_bytes_' <= SendSize
      /\ data_' \in [Sock!Cells -> Bytes]
    <2>1. Sock!HasRoom(len) /\ Sock!StoreMessage(L + 1, len) /\ L + 1 \in Nat
        BY <1>1, <1>4
    <2> QED BY <1>0, <1>2, <2>1, StoreWritesFreeCells
<1>8. Sock!Align(len) \in Nat /\ SendSize \in Nat /\ valid_bytes_ \in Nat
    BY <1>0, <1>2, AlignFacts DEF Sizes, SockTypeOK
<1>9. SockTypeOK'
    <2>1. valid_bytes_' \in 0 .. SendSize /\ write_event_enabled_' \in BOOLEAN
        BY <1>1, <1>7, <1>8
    <2> QED BY <1>1, <1>2, <1>5, <1>7, <2>1 DEF SockTypeOK
<1>10. PeekInv'
    BY <1>1, <1>2, <1>7, <1>8 DEF PeekInv
<1>11. ReceivedInv'
    <2>1. ASSUME NEW n \in 1 .. Len(received) PROVE Sock!MessageBytes(n)' = Sock!MessageBytes(n)
        <3>1. n \in 1 .. L
            BY <1>4
        <3> QED BY <1>5, <3>1 DEF Sock!MessageBytes
    <2> QED BY <1>1, <1>2, <2>1 DEF ReceivedInv
<1>12. PartInv'
    <2>1. CASE Len(received) = L
        BY <1>1, <1>2, <1>4, <2>1 DEF PartInv, Sock!HasHeader, Sock!HeaderSize
    <2>2. CASE Len(received) # L
        <3>1. Len(received) + 1 \in 1 .. L
            BY <1>4, <2>2
        <3> QED BY <1>1, <1>2, <1>5, <3>1 DEF PartInv, Sock!HasHeader
    <2> QED BY <2>1, <2>2
<1>13. fd_open /\ wpc # "close"
    BY <1>1, <1>2 DEF CloseInv
<1>14. CloseInv' /\ Sock!NothingLostAtClose' /\ Sock!NoEventAfterClose' /\ Sock!HalfFullIsDrained'
    BY <1>1, <1>2, <1>13 DEF CloseInv, Sock!NothingLostAtClose, Sock!NoEventAfterClose, Sock!HalfFullIsDrained
<1> QED BY <1>6, <1>9, <1>10, <1>11, <1>12, <1>14 DEF SockIInv

\* What a step keeps that leaves the bytes and the messages where they are.
LEMMA SameBytes ==
    ASSUME Sizes, SockIInv,
           UNCHANGED <<data_, read_head_, valid_bytes_, socket, read_buffer_, accepted, received>>,
           Sent' = Sent
    PROVE  /\ (\E e \in [0 .. Len(accepted) -> Nat] : Stream(e))'
           /\ ReceivedInv'
<1>1. \E e \in [0 .. Len(accepted) -> Nat] : Stream(e)
    BY DEF SockIInv
<1>2. (\E e \in [0 .. Len(accepted) -> Nat] : Stream(e))'
    BY Zenon, <1>1, SameStream
<1>3. ReceivedInv'
    BY DEF SockIInv, ReceivedInv, Sock!MessageBytes
<1> QED BY <1>2, <1>3

\* NoMoreMessage wakes the sender's loop, unless it has closed.
LEMMA NoMoreMessageKeeps ==
    ASSUME Sizes, SockIInv, Sock!NoMoreMessage
    PROVE  SockIInv'
<1>1. /\ ~no_more_message_ /\ no_more_message_' = TRUE /\ write_event_enabled_' = TRUE
      /\ UNCHANGED <<data_, read_head_, valid_bytes_, socket, read_buffer_, accepted, received>>
      /\ UNCHANGED <<fd_open, wpc, peeked, peer_open, read_capacity, rpc, peer_quit>>
    BY DEF Sock!NoMoreMessage, Sock!writeVars, Sock!receiverVars, Sock!historyVars
<1>2. (\E e \in [0 .. Len(accepted) -> Nat] : Stream(e))' /\ ReceivedInv'
    BY <1>1, SameBytes DEF Sent
<1>3. SockTypeOK'
    BY <1>1 DEF SockIInv, SockTypeOK
<1>4. PeekInv' /\ PartInv'
    BY <1>1 DEF SockIInv, PeekInv, PartInv, Sock!HasHeader
<1>5. CloseInv' /\ Sock!NothingLostAtClose' /\ Sock!NoEventAfterClose' /\ Sock!HalfFullIsDrained'
    BY <1>1 DEF SockIInv, CloseInv, Sock!NothingLostAtClose, Sock!NoEventAfterClose, Sock!HalfFullIsDrained
<1> QED BY <1>2, <1>3, <1>4, <1>5 DEF SockIInv

-----------------------------------------------------------------------------
(* The sender's event loop.                                                *)

\* What PeekData returns is valid and does not pass the end of the ring.
LEMMA PeekFacts ==
    ASSUME Sizes, SockTypeOK
    PROVE  /\ Sock!PeekSize \in Nat /\ Sock!PeekSize <= valid_bytes_ /\ read_head_ + Sock!PeekSize <= SendSize
           /\ Sock!PeekSize = 0 => valid_bytes_ = 0
<1>1. /\ SendSize \in Nat /\ read_head_ \in Nat /\ read_head_ < SendSize
      /\ valid_bytes_ \in Nat
    BY DEF Sizes, SockTypeOK, Sock!Cells
<1> QED BY <1>1 DEF Sock!PeekSize

\* A peek, or the end.
LEMMA GetDataKeeps ==
    ASSUME Sizes, SockIInv, Sock!GetDataFromSendBuffer
    PROVE  SockIInv'
<1>1. /\ UNCHANGED <<data_, read_head_, valid_bytes_, socket, read_buffer_, accepted, received>>
      /\ UNCHANGED <<no_more_message_, fd_open, peer_open, read_capacity, rpc, peer_quit>>
      /\ wpc = "loop" /\ fd_open
    BY DEF Sock!GetDataFromSendBuffer, Sock!receiverVars, Sock!historyVars
<1>2. \/ /\ Sock!PeekSize # 0 /\ wpc' = "send" /\ peeked' = Sock!PeekSize
         /\ write_event_enabled_' = write_event_enabled_
      \/ /\ Sock!PeekSize = 0 /\ write_event_enabled_' = FALSE /\ wpc' = wpc /\ peeked' = peeked
      \/ /\ Sock!PeekSize = 0 /\ no_more_message_ /\ wpc' = "close" /\ peeked' = peeked
         /\ write_event_enabled_' = write_event_enabled_
    BY DEF Sock!GetDataFromSendBuffer, Sock!writeVars
<1>3. /\ Sock!PeekSize \in Nat /\ Sock!PeekSize <= valid_bytes_ /\ read_head_ + Sock!PeekSize <= SendSize
      /\ Sock!PeekSize = 0 => valid_bytes_ = 0
      /\ SendSize \in Nat \ {0} /\ valid_bytes_ \in Nat
    BY PeekFacts DEF SockIInv, Sizes, SockTypeOK
<1>4. Sent' = Sent
    BY <1>1, <1>2 DEF Sent
<1>5. (\E e \in [0 .. Len(accepted) -> Nat] : Stream(e))' /\ ReceivedInv'
    BY <1>1, <1>4, SameBytes
<1>6. SockTypeOK'
    BY <1>1, <1>2, <1>3 DEF SockIInv, SockTypeOK
<1>7. PeekInv'
    BY <1>1, <1>2, <1>3 DEF PeekInv
<1>8. PartInv'
    BY <1>1 DEF SockIInv, PartInv, Sock!HasHeader
<1>9. CloseInv' /\ Sock!NothingLostAtClose' /\ Sock!NoEventAfterClose'
    BY <1>1, <1>2, <1>3 DEF SockIInv, CloseInv, Sock!NothingLostAtClose, Sock!NoEventAfterClose
<1>10. Sock!HalfFullIsDrained'
    <2>1. valid_bytes_ = 0 => ~(2 * valid_bytes_ >= SendSize)
        BY <1>3
    <2>2. valid_bytes_' = valid_bytes_ /\ fd_open' = fd_open
        BY <1>1
    <2> QED BY <1>2, <1>3, <2>1, <2>2 DEF SockIInv, Sock!HalfFullIsDrained
<1> QED BY <1>5, <1>6, <1>7, <1>8, <1>9, <1>10 DEF SockIInv

\* The sender closes when it has sent all, or the receiver has closed.
LEMMA CloseKeeps ==
    ASSUME Sizes, SockIInv, Sock!CloseAfterSending \/ Sock!SenderReadsEof
    PROVE  SockIInv'
<1>1. /\ UNCHANGED <<data_, read_head_, valid_bytes_, socket, read_buffer_, accepted, received>>
      /\ UNCHANGED <<peer_open, read_capacity, rpc, peer_quit>>
      /\ no_more_message_' = TRUE /\ write_event_enabled_' = FALSE /\ fd_open' = FALSE
      /\ wpc' = "loop" /\ peeked' = 0
      /\ wpc = "close" \/ (wpc = "loop" /\ fd_open /\ ~peer_open)
    BY DEF Sock!CloseAfterSending, Sock!SenderReadsEof, Sock!CloseConnection, Sock!receiverVars, Sock!historyVars
<1>2. Sent' = Sent
    BY <1>1 DEF Sent
<1>3. (\E e \in [0 .. Len(accepted) -> Nat] : Stream(e))' /\ ReceivedInv'
    BY <1>1, <1>2, SameBytes
<1>4. SockTypeOK'
    BY <1>1 DEF SockIInv, SockTypeOK
<1>5. PeekInv' /\ PartInv'
    BY <1>1 DEF SockIInv, PeekInv, PartInv, Sock!HasHeader
<1>6. CloseInv' /\ Sock!NothingLostAtClose' /\ Sock!NoEventAfterClose' /\ Sock!HalfFullIsDrained'
    BY <1>1 DEF SockIInv, CloseInv, Sock!NothingLostAtClose, Sock!NoEventAfterClose, Sock!HalfFullIsDrained
<1> QED BY <1>3, <1>4, <1>5, <1>6 DEF SockIInv

\* send copies bytes from the head of the ring to the end of the socket.
LEMMA SendMovesBytes ==
    ASSUME NEW e, NEW n
    PROVE  /\ Sizes /\ SockTypeOK /\ PeekInv /\ Stream(e) /\ wpc = "send" /\ n \in 1 .. peeked
           /\ socket' = socket \o [k \in 1 .. n |-> data_[read_head_ + k - 1]]
           /\ peeked' = n /\ wpc' = "commit"
           /\ data_' = data_ /\ read_head_' = read_head_ /\ valid_bytes_' = valid_bytes_
           /\ read_buffer_' = read_buffer_ /\ accepted' = accepted /\ received' = received
           => Stream(e)' /\ socket' \in Seq(Bytes)
<1>0. SUFFICES ASSUME Sizes, SockTypeOK, PeekInv, Stream(e), wpc = "send", n \in 1 .. peeked,
                      socket' = socket \o [k \in 1 .. n |-> data_[read_head_ + k - 1]],
                      peeked' = n, wpc' = "commit",
                      data_' = data_, read_head_' = read_head_, valid_bytes_' = valid_bytes_,
                      read_buffer_' = read_buffer_, accepted' = accepted, received' = received
               PROVE  Stream(e)' /\ socket' \in Seq(Bytes)
    OBVIOUS
<1> DEFINE more == [k \in 1 .. n |-> data_[read_head_ + k - 1]]
           R == Len(read_buffer_)
           S == Len(socket)
           T == Taken(e)
           L == Len(accepted)
<1>1. /\ n \in Nat /\ n >= 1 /\ n <= valid_bytes_ /\ read_head_ + n <= SendSize
      /\ valid_bytes_ \in Nat /\ read_head_ \in Nat /\ SendSize \in Nat
      /\ socket \in Seq(Bytes) /\ data_ \in [Sock!Cells -> Bytes]
    BY <1>0 DEF PeekInv, SockTypeOK, Sizes, Sock!Cells
<1>2. /\ T \in Nat /\ R \in Nat /\ S \in Nat /\ L \in Nat
    BY <1>0, StreamFacts
<1>3. Sent = 0 /\ Sent' = n
    BY <1>0 DEF Sent
<1>4. more \in Seq(Bytes) /\ Len(more) = n
    <2>1. \A k \in 1 .. n : read_head_ + k - 1 \in Sock!Cells
        BY <1>1 DEF Sock!Cells
    <2>2. more \in [1 .. n -> Bytes]
        BY <1>1, <2>1
    <2> HIDE DEF more
    <2> QED BY <1>1, <2>2
<1>5. /\ socket' \in Seq(Bytes) /\ Len(socket') = S + n
      /\ \A p \in 1 .. S : socket'[p] = socket[p]
      /\ \A k \in 1 .. n : socket'[S + k] = data_[Cell(k - 1)]
    <2>1. \A k \in 1 .. n : Cell(k - 1) = read_head_ + k - 1
        BY <1>1 DEF Cell
    <2>2. \A k \in 1 .. n : more[k] = data_[Cell(k - 1)]
        BY <2>1
    <2> HIDE DEF more
    <2>3. socket' = socket \o more
        BY <1>0 DEF more
    <2>4. Len(socket') = S + n /\ socket' \in Seq(Bytes)
        <3>1. socket \o more \in Seq(Bytes) /\ Len(socket \o more) = Len(socket) + Len(more)
            BY <1>1, <1>4
        <3> QED BY <1>4, <2>3, <3>1
    <2>5. \A p \in 1 .. S : socket'[p] = socket[p]
        BY <1>1, <1>2, <1>4, <2>3
    <2>6. \A k \in 1 .. n : socket'[S + k] = more[k]
        BY <1>1, <1>2, <1>4, <2>3
    <2> QED BY <2>2, <2>4, <2>5, <2>6
<1> HIDE DEF more, R, S, T, L
<1>6. Taken(e)' = T /\ RingStart(e) = T + R + S /\ RingStart(e)' = T + R + (S + n) - n
    BY <1>0, <1>2, <1>3, <1>5 DEF RingStart, Taken, T, R, S
<1>7. RingStart(e)' = RingStart(e)
    BY <1>1, <1>2, <1>6
<1>8. Ends(e)'
    BY <1>0, <1>7 DEF Stream, Ends
<1>9. BufferHolds(e)'
    BY <1>0, <1>6 DEF Stream, BufferHolds, T
<1>10. SocketHolds(e)'
    <2>1. ASSUME NEW m \in 1 .. L, NEW k \in 1 .. accepted[m], NEW p \in 1 .. S + n,
                 e[m - 1] + k = T + R + p
          PROVE  socket'[p] = <<m, k>>
        <3>1. CASE p \in 1 .. S
            <4>1. socket[p] = <<m, k>>
                BY <1>0, <2>1, <3>1 DEF Stream, SocketHolds, L, S, R, T
            <4> QED BY <1>5, <3>1, <4>1
        <3>2. CASE p \notin 1 .. S
            <4>1. p - S \in 1 .. n /\ S + (p - S) = p /\ p - S - 1 \in 0 .. valid_bytes_ - 1
                BY <1>1, <1>2, <3>2
            <4>2. e[m - 1] + k = RingStart(e) + (p - S - 1) + 1
                BY <1>1, <1>2, <1>6, <2>1, <4>1
            <4>3. data_[Cell(p - S - 1)] = <<m, k>>
                BY <1>0, <1>3, <4>1, <4>2 DEF Stream, RingHolds, L
            <4>4. socket'[S + (p - S)] = data_[Cell(p - S - 1)]
                BY <1>5, <4>1
            <4> QED BY <4>1, <4>3, <4>4
        <3> QED BY <3>1, <3>2
    <2>2. Len(accepted') = L /\ Len(socket') = S + n /\ Len(read_buffer_') = R
        BY <1>0, <1>5 DEF L, R
    <2>3. accepted' = accepted
        BY <1>0
    <2> QED BY <1>6, <2>1, <2>2, <2>3 DEF SocketHolds
<1>11. RingHolds(e)'
    <2>1. \A j : Cell(j)' = Cell(j)
        BY <1>0 DEF Cell
    <2>2. \A j \in n .. valid_bytes_ - 1 : j \in 0 .. valid_bytes_ - 1
        BY <1>1
    <2> QED BY <1>0, <1>3, <1>7, <2>1, <2>2 DEF Stream, RingHolds
<1> QED BY <1>5, <1>8, <1>9, <1>10, <1>11 DEF Stream

\* send, of part of what was peeked, or failing.
LEMMA SendKeeps ==
    ASSUME Sizes, SockIInv, Sock!Send
    PROVE  SockIInv'
<1>1. /\ data_' = data_ /\ read_head_' = read_head_ /\ valid_bytes_' = valid_bytes_
      /\ read_buffer_' = read_buffer_ /\ accepted' = accepted /\ received' = received
      /\ UNCHANGED <<write_event_enabled_, no_more_message_, fd_open, peer_open, read_capacity, rpc, peer_quit>>
      /\ wpc = "send"
    BY DEF Sock!Send, Sock!senderVars, Sock!receiverVars, Sock!historyVars
<1>2. SockTypeOK /\ PeekInv /\ fd_open
    BY <1>1 DEF SockIInv, Sock!NoEventAfterClose
<1>3. CASE wpc' = "failed" /\ socket' = socket /\ peeked' = peeked
    <2>1. Sent' = Sent
        BY <1>1, <1>3 DEF Sent
    <2>2. (\E e \in [0 .. Len(accepted) -> Nat] : Stream(e))' /\ ReceivedInv'
        BY <1>1, <1>3, <2>1, SameBytes
    <2>3. SockTypeOK'
        BY <1>1, <1>2, <1>3 DEF SockTypeOK
    <2>4. PeekInv' /\ PartInv'
        BY <1>1, <1>3 DEF SockIInv, PeekInv, PartInv, Sock!HasHeader
    <2>5. CloseInv' /\ Sock!NothingLostAtClose' /\ Sock!NoEventAfterClose' /\ Sock!HalfFullIsDrained'
        BY <1>1, <1>2, <1>3 DEF SockIInv, CloseInv, Sock!NothingLostAtClose, Sock!NoEventAfterClose, Sock!HalfFullIsDrained
    <2> QED BY <2>2, <2>3, <2>4, <2>5 DEF SockIInv
<1>4. ASSUME NEW n \in 1 .. peeked, peeked' = n, wpc' = "commit",
             socket' = socket \o [k \in 1 .. n |-> data_[read_head_ + k - 1]]
      PROVE  SockIInv'
    <2>1. PICK e \in [0 .. Len(accepted) -> Nat] : Stream(e)
        BY DEF SockIInv
    <2>2. Stream(e)' /\ socket' \in Seq(Bytes)
        BY <1>1, <1>2, <1>4, <2>1, SendMovesBytes
    <2>3. (\E f \in [0 .. Len(accepted) -> Nat] : Stream(f))'
        BY <1>1, <2>1, <2>2
    <2>4. ReceivedInv'
        BY <1>1 DEF SockIInv, ReceivedInv, Sock!MessageBytes
    <2>5. SockTypeOK'
        BY <1>1, <1>2, <1>4, <2>2 DEF SockTypeOK
    <2>6. PeekInv'
        BY <1>1, <1>2, <1>4 DEF PeekInv, SockTypeOK, Sock!Cells, Sizes
    <2>7. PartInv'
        BY <1>1 DEF SockIInv, PartInv, Sock!HasHeader
    <2>8. CloseInv' /\ Sock!NothingLostAtClose' /\ Sock!NoEventAfterClose' /\ Sock!HalfFullIsDrained'
        BY <1>1, <1>2, <1>4 DEF SockIInv, CloseInv, Sock!NothingLostAtClose, Sock!NoEventAfterClose, Sock!HalfFullIsDrained
    <2> QED BY <2>3, <2>4, <2>5, <2>6, <2>7, <2>8 DEF SockIInv
<1> QED BY <1>3, <1>4 DEF Sock!Send

\* The head of the ring moves over what was sent.
LEMMA CommitMovesHead ==
    ASSUME NEW e
    PROVE  /\ Sizes /\ SockTypeOK /\ PeekInv /\ Stream(e) /\ wpc = "commit" /\ Sock!CommitData(peeked)
           /\ wpc' = "loop" /\ data_' = data_ /\ socket' = socket
           /\ read_buffer_' = read_buffer_ /\ accepted' = accepted /\ received' = received
           => Stream(e)' /\ read_head_' \in Sock!Cells /\ valid_bytes_' \in 0 .. SendSize /\ valid_bytes_' <= valid_bytes_
<1>0. SUFFICES ASSUME Sizes, SockTypeOK, PeekInv, Stream(e), wpc = "commit", Sock!CommitData(peeked),
                      wpc' = "loop", data_' = data_, socket' = socket,
                      read_buffer_' = read_buffer_, accepted' = accepted, received' = received
               PROVE  /\ Stream(e)' /\ read_head_' \in Sock!Cells /\ valid_bytes_' \in 0 .. SendSize
                      /\ valid_bytes_' <= valid_bytes_
    OBVIOUS
<1>1. /\ peeked \in Nat /\ peeked >= 1 /\ peeked <= valid_bytes_ /\ read_head_ + peeked <= SendSize
      /\ valid_bytes_ \in Nat /\ valid_bytes_ <= SendSize
      /\ read_head_ \in Nat /\ SendSize \in Nat \ {0}
    BY <1>0 DEF PeekInv, SockTypeOK, Sizes, Sock!Cells
<1>2. /\ read_head_' = IF read_head_ + peeked < SendSize THEN read_head_ + peeked ELSE 0
      /\ valid_bytes_' = valid_bytes_ - peeked
    <2>1. \A a \in Nat : a < 2 * SendSize => a % SendSize = IF a < SendSize THEN a ELSE a - SendSize
        BY <1>1, ModOfLap
    <2>2. read_head_' = (read_head_ + peeked) % SendSize /\ valid_bytes_' = valid_bytes_ - peeked
        BY <1>0 DEF Sock!CommitData
    <2>3. read_head_ + peeked \in Nat /\ read_head_ + peeked < 2 * SendSize
        BY <1>1
    <2> QED BY <1>1, <2>1, <2>2, <2>3
<1>3. Sent = peeked /\ Sent' = 0
    BY <1>0 DEF Sent
<1>4. /\ Taken(e) \in Nat /\ Len(read_buffer_) \in Nat /\ Len(socket) \in Nat
    BY <1>0, StreamFacts
<1>5. Taken(e)' = Taken(e) /\ RingStart(e)' = RingStart(e) + peeked /\ RingStart(e) \in Int
    BY <1>0, <1>1, <1>3, <1>4 DEF RingStart, Taken
<1>6. ASSUME NEW j \in 0 .. valid_bytes_ - peeked - 1
      PROVE  /\ Cell(j)' = Cell(j + peeked) /\ j + peeked \in peeked .. valid_bytes_ - 1
    <2>1. j + peeked \in peeked .. valid_bytes_ - 1
        BY <1>1
    <2>2. CASE read_head_ + peeked < SendSize
        BY <1>1, <1>2, <2>2 DEF Cell
    <2>3. CASE ~(read_head_ + peeked < SendSize)
        <3>1. read_head_' = 0 /\ read_head_ + peeked = SendSize
            BY <1>1, <1>2, <2>3
        <3>2. Cell(j)' = j
            BY <1>1, <3>1 DEF Cell
        <3>3. Cell(j + peeked) = j
            BY <1>1, <3>1 DEF Cell
        <3> QED BY <2>1, <3>2, <3>3
    <2> QED BY <2>1, <2>2, <2>3
<1>7. Ends(e)'
    <2>1. RingStart(e)' + valid_bytes_' = RingStart(e) + valid_bytes_
        BY <1>1, <1>2, <1>5
    <2> QED BY <1>0, <2>1 DEF Stream, Ends
<1>8. BufferHolds(e)' /\ SocketHolds(e)'
    <2>1. BufferHolds(e)'
        <3>1. BufferHolds(e) /\ read_buffer_' = read_buffer_ /\ accepted' = accepted /\ Taken(e)' = Taken(e)
            BY <1>0, <1>5 DEF Stream
        <3> QED BY <3>1 DEF BufferHolds
    <2>2. SocketHolds(e)'
        <3>1. Taken(e)' + Len(read_buffer_)' = Taken(e) + Len(read_buffer_)
            BY <1>0, <1>5
        <3>2. socket' = socket /\ accepted' = accepted /\ SocketHolds(e)
            BY <1>0 DEF Stream
        <3> QED BY <3>1, <3>2 DEF SocketHolds
    <2> QED BY <2>1, <2>2
<1>9. RingHolds(e)'
    <2>1. ASSUME NEW n \in 1 .. Len(accepted), NEW k \in 1 .. accepted[n],
                 NEW j \in 0 .. valid_bytes_ - peeked - 1, e[n - 1] + k = RingStart(e) + peeked + j + 1
          PROVE  data_[Cell(j)'] = <<n, k>>
        <3>1. e[n - 1] + k = RingStart(e) + (j + peeked) + 1
            BY <1>1, <1>5, <2>1
        <3>2. data_[Cell(j + peeked)] = <<n, k>>
            BY <1>0, <1>3, <1>6, <3>1 DEF Stream, RingHolds
        <3> QED BY <1>6, <3>2
    <2> QED BY <1>0, <1>2, <1>3, <1>5, <2>1 DEF RingHolds
<1>10. read_head_' \in Sock!Cells /\ valid_bytes_' \in 0 .. SendSize /\ valid_bytes_' <= valid_bytes_
    BY <1>1, <1>2 DEF Sock!Cells
<1> QED BY <1>7, <1>8, <1>9, <1>10 DEF Stream

\* The commit, which takes the lock again.
LEMMA CommitKeeps ==
    ASSUME Sizes, SockIInv, Sock!Commit
    PROVE  SockIInv'
<1>1. /\ data_' = data_ /\ socket' = socket
      /\ read_buffer_' = read_buffer_ /\ accepted' = accepted /\ received' = received
      /\ UNCHANGED <<write_event_enabled_, no_more_message_, fd_open, peer_open, read_capacity, rpc, peer_quit>>
      /\ wpc = "commit" /\ wpc' = "loop" /\ peeked' = 0 /\ Sock!CommitData(peeked)
    BY DEF Sock!Commit, Sock!receiverVars, Sock!historyVars
<1>2. SockTypeOK /\ PeekInv /\ fd_open
    BY <1>1 DEF SockIInv, Sock!NoEventAfterClose
<1>3. PICK e \in [0 .. Len(accepted) -> Nat] : Stream(e)
    BY DEF SockIInv
<1>4. Stream(e)' /\ read_head_' \in Sock!Cells /\ valid_bytes_' \in 0 .. SendSize /\ valid_bytes_' <= valid_bytes_
    BY <1>1, <1>2, <1>3, CommitMovesHead
<1>5. (\E f \in [0 .. Len(accepted) -> Nat] : Stream(f))'
    BY <1>1, <1>3, <1>4
<1>6. ReceivedInv'
    BY <1>1 DEF SockIInv, ReceivedInv, Sock!MessageBytes
<1>7. SockTypeOK'
    BY <1>1, <1>2, <1>4 DEF SockTypeOK
<1>8. PeekInv' /\ PartInv'
    BY <1>1 DEF SockIInv, PeekInv, PartInv, Sock!HasHeader
<1>9. CloseInv' /\ Sock!NothingLostAtClose' /\ Sock!NoEventAfterClose'
    BY <1>1, <1>2 DEF SockIInv, CloseInv, Sock!NothingLostAtClose, Sock!NoEventAfterClose
<1>10. Sock!HalfFullIsDrained'
    <2>1. 2 * valid_bytes_' >= SendSize => 2 * valid_bytes_ >= SendSize
        <3>1. SendSize \in Nat /\ valid_bytes_ \in Nat /\ valid_bytes_' \in Nat /\ valid_bytes_' <= valid_bytes_
            BY <1>2, <1>4 DEF SockTypeOK, Sizes
        <3> QED BY <3>1
    <2> QED BY <1>1, <2>1 DEF SockIInv, Sock!HalfFullIsDrained
<1> QED BY <1>5, <1>6, <1>7, <1>8, <1>9, <1>10 DEF SockIInv

-----------------------------------------------------------------------------
(* The receiver's event loop.                                              *)

\* read moves bytes from the socket to the end of read_buffer_.
LEMMA ReadMovesBytes ==
    ASSUME NEW e, NEW n
    PROVE  /\ Sizes /\ SockTypeOK /\ PeekInv /\ Stream(e) /\ n \in 1 .. Len(socket)
           /\ read_buffer_' = read_buffer_ \o SubSeq(socket, 1, n)
           /\ socket' = SubSeq(socket, n + 1, Len(socket))
           /\ data_' = data_ /\ read_head_' = read_head_ /\ valid_bytes_' = valid_bytes_
           /\ accepted' = accepted /\ received' = received /\ Sent' = Sent
           => Stream(e)' /\ read_buffer_' \in Seq(Bytes) /\ socket' \in Seq(Bytes)
<1>0. SUFFICES ASSUME Sizes, SockTypeOK, PeekInv, Stream(e), n \in 1 .. Len(socket),
                      read_buffer_' = read_buffer_ \o SubSeq(socket, 1, n),
                      socket' = SubSeq(socket, n + 1, Len(socket)),
                      data_' = data_, read_head_' = read_head_, valid_bytes_' = valid_bytes_,
                      accepted' = accepted, received' = received, Sent' = Sent
               PROVE  Stream(e)' /\ read_buffer_' \in Seq(Bytes) /\ socket' \in Seq(Bytes)
    OBVIOUS
<1> DEFINE B == Bytes
           R == Len(read_buffer_)
           S == Len(socket)
<1>1. /\ read_buffer_ \in Seq(B) /\ socket \in Seq(B)
    BY <1>0 DEF SockTypeOK
<1>2. n \in 1 .. S /\ R \in Nat /\ S \in Nat
    BY <1>0, <1>1
<1>3. /\ Ends(e) /\ BufferHolds(e) /\ SocketHolds(e) /\ RingHolds(e)
      /\ Taken(e) \in Nat /\ Sent \in Nat
    BY <1>0, StreamFacts
<1> HIDE DEF B
<1>4. /\ SubSeq(socket, 1, n) \in Seq(B) /\ Len(SubSeq(socket, 1, n)) = n
      /\ \A p \in 1 .. n : SubSeq(socket, 1, n)[p] = socket[p]
    BY <1>1, <1>2
<1>5. /\ SubSeq(socket, n + 1, S) \in Seq(B) /\ Len(SubSeq(socket, n + 1, S)) = S - n
      /\ \A p \in 1 .. S - n : SubSeq(socket, n + 1, S)[p] = socket[n + p]
    BY <1>1, <1>2
<1> DEFINE X == SubSeq(socket, 1, n)
<1> HIDE DEF X
<1>6. /\ read_buffer_ \o X \in Seq(B) /\ Len(read_buffer_ \o X) = R + n
      /\ \A p \in 1 .. R + n : (read_buffer_ \o X)[p] = IF p <= R THEN read_buffer_[p] ELSE X[p - R]
    BY <1>1, <1>2, <1>4 DEF X
<1>7. /\ read_buffer_' \in Seq(B) /\ Len(read_buffer_') = R + n
      /\ \A p \in 1 .. R + n : read_buffer_'[p] = IF p <= R THEN read_buffer_[p] ELSE socket[p - R]
    <2>1. read_buffer_' = read_buffer_ \o X
        BY <1>0 DEF X
    <2>2. \A p \in 1 .. R + n : read_buffer_'[p] = IF p <= R THEN read_buffer_[p] ELSE X[p - R]
        BY <1>6, <2>1
    <2>3. \A p \in 1 .. n : X[p] = socket[p]
        BY <1>4 DEF X
    <2>4. ASSUME NEW p \in 1 .. R + n
          PROVE  read_buffer_'[p] = IF p <= R THEN read_buffer_[p] ELSE socket[p - R]
        <3>1. CASE p <= R
            BY <2>2, <3>1
        <3>2. CASE ~(p <= R)
            <4>1. p - R \in 1 .. n
                BY <1>2, <3>2
            <4> QED BY <2>2, <2>3, <3>2, <4>1
        <3> QED BY <3>1, <3>2
    <2> QED BY <1>6, <2>1, <2>4
<1>8. /\ socket' \in Seq(B) /\ Len(socket') = S - n
      /\ \A p \in 1 .. S - n : socket'[p] = socket[n + p]
    BY <1>0, <1>5
<1>9. Taken(e)' = Taken(e)
    BY <1>0 DEF Taken
<1>10. RingStart(e)' = RingStart(e)
    <2>1. RingStart(e)' = Taken(e)' + Len(read_buffer_') + Len(socket') - Sent'
        BY DEF RingStart
    <2>2. RingStart(e) = Taken(e) + R + S - Sent
        BY DEF RingStart
    <2> HIDE DEF R, S
    <2> QED BY SMTT(30), <1>0, <1>2, <1>3, <1>7, <1>8, <1>9, <2>1, <2>2
<1> HIDE DEF R, S
<1>11. Ends(e)'
    <2>1. accepted' = accepted /\ received' = received /\ valid_bytes_' = valid_bytes_
        BY <1>0
    <2> QED BY <1>3, <1>10, <2>1 DEF Ends
<1>12. BufferHolds(e)'
    <2>1. ASSUME NEW i \in 1 .. Len(accepted), NEW k \in 1 .. accepted[i], NEW p \in 1 .. R + n,
                 e[i - 1] + k = Taken(e) + p
          PROVE  read_buffer_'[p] = <<i, k>>
        <3>1. CASE p <= R
            <4>1. p \in 1 .. R
                BY <1>2, <3>1
            <4>2. read_buffer_[p] = <<i, k>>
                BY <1>3, <2>1, <4>1 DEF BufferHolds, R
            <4> QED BY <1>7, <3>1, <4>2
        <3>2. CASE ~(p <= R)
            <4>1. p - R \in 1 .. S /\ Taken(e) + R + (p - R) = Taken(e) + p
                BY <1>2, <1>3, <3>2
            <4>2. e[i - 1] + k = Taken(e) + R + (p - R)
                BY <2>1, <4>1
            <4>3. socket[p - R] = <<i, k>>
                BY <1>3, <4>1, <4>2 DEF SocketHolds, R, S
            <4> QED BY <1>7, <3>2, <4>3
        <3> QED BY <3>1, <3>2
    <2>2. accepted' = accepted
        BY <1>0
    <2> QED BY <1>7, <1>9, <2>1, <2>2 DEF BufferHolds
<1>13. SocketHolds(e)'
    <2>1. ASSUME NEW i \in 1 .. Len(accepted), NEW k \in 1 .. accepted[i], NEW p \in 1 .. S - n,
                 e[i - 1] + k = Taken(e) + (R + n) + p
          PROVE  socket'[p] = <<i, k>>
        <3>1. n + p \in 1 .. S /\ Taken(e) + R + (n + p) = Taken(e) + (R + n) + p
            BY <1>2, <1>3
        <3>2. e[i - 1] + k = Taken(e) + R + (n + p)
            BY <2>1, <3>1
        <3>3. socket[n + p] = <<i, k>>
            BY <1>3, <3>1, <3>2 DEF SocketHolds, R, S
        <3> QED BY <1>8, <3>3
    <2>2. accepted' = accepted
        BY <1>0
    <2>3. Taken(e)' + Len(read_buffer_)' = Taken(e) + (R + n)
        BY <1>7, <1>9
    <2> QED BY <1>8, <2>1, <2>2, <2>3 DEF SocketHolds
<1>14. RingHolds(e)'
    <2>1. /\ accepted' = accepted /\ data_' = data_ /\ valid_bytes_' = valid_bytes_ /\ Sent' = Sent
          /\ \A j : Cell(j)' = Cell(j)
        BY <1>0 DEF Cell
    <2> QED BY <1>3, <1>10, <2>1 DEF RingHolds
<1> QED BY <1>7, <1>8, <1>11, <1>12, <1>13, <1>14 DEF Stream, B

\* The end of the stream: all bytes were received, and no part of a message is
\* left in read_buffer_.
LEMMA EndOfStream ==
    ASSUME Sizes, SockIInv, rpc = "loop", socket = <<>>, valid_bytes_ = 0
    PROVE  Len(received) = Len(accepted)
<1>1. PICK e \in [0 .. Len(accepted) -> Nat] : Stream(e)
    BY DEF SockIInv
<1>2. SockTypeOK /\ PeekInv /\ PartInv
    BY DEF SockIInv
<1>3. /\ Ends(e) /\ Sent \in Nat /\ Sent <= valid_bytes_ /\ Taken(e) \in Nat
      /\ Len(received) \in Nat /\ Len(accepted) \in Nat
      /\ Len(read_buffer_) \in Nat
    BY <1>1, <1>2, StreamFacts
<1>4. /\ \A n \in 0 .. Len(accepted) : e[n] \in Nat /\ e[n] <= e[Len(accepted)]
      /\ e[Len(accepted)] = RingStart(e) + valid_bytes_
    BY <1>1, <1>2, EndsFacts
<1>5. RingStart(e) = Taken(e) + Len(read_buffer_)
    <2>1. Sent = 0 /\ Len(socket) = 0
        BY <1>3
    <2> QED BY <1>3, <2>1 DEF RingStart
<1>6. e[Len(accepted)] = Taken(e) + Len(read_buffer_)
    BY <1>3, <1>4, <1>5
<1>7. SUFFICES ASSUME Len(received) < Len(accepted) PROVE FALSE
    BY <1>3 DEF Ends
<1> DEFINE n == Len(received) + 1
<1>8. n \in 1 .. Len(accepted) /\ n - 1 = Len(received)
    BY <1>3, <1>7
<1>9. e[n] = Taken(e) + Sock!Align(accepted[n])
    BY <1>3, <1>8 DEF Ends, Taken
<1>10. Sock!Align(accepted[n]) \in Nat /\ Sock!Align(accepted[n]) >= 2
    BY <1>2, <1>8, AcceptedLens DEF Sock!HeaderSize
<1>11. e[n] <= e[Len(accepted)]
    BY <1>3, <1>4, <1>8
<1> DEFINE A == Sock!Align(accepted[n])
<1>12. Len(read_buffer_) >= A
    <2> HIDE DEF A
    <2>1. Taken(e) + A <= Taken(e) + Len(read_buffer_) /\ A \in Nat
        BY <1>6, <1>9, <1>10, <1>11 DEF A
    <2> QED BY <1>3, <2>1
<1>13. Sock!HasHeader
    BY <1>3, <1>10, <1>12 DEF Sock!HasHeader, Sock!HeaderSize
<1>14. Len(read_buffer_) < A
    BY <1>2, <1>13 DEF PartInv
<1> QED BY <1>3, <1>10, <1>12, <1>14

\* read, of some bytes or of the end.
LEMMA ReadDataKeeps ==
    ASSUME Sizes, SockIInv, Sock!ReadData
    PROVE  SockIInv'
<1>1. /\ data_' = data_ /\ read_head_' = read_head_ /\ valid_bytes_' = valid_bytes_
      /\ accepted' = accepted /\ received' = received
      /\ UNCHANGED <<write_event_enabled_, no_more_message_, fd_open, wpc, peeked, read_capacity, peer_quit>>
      /\ rpc = "loop" /\ peer_open /\ (socket # <<>> \/ ~fd_open)
    BY DEF Sock!ReadData, Sock!senderVars, Sock!writeVars, Sock!historyVars
<1>2. SockTypeOK /\ PeekInv /\ PartInv
    BY DEF SockIInv
<1>3. Sent' = Sent
    BY <1>1 DEF Sent
<1>4. read_capacity - Len(read_buffer_) # 0
    BY <1>1, <1>2 DEF SockTypeOK, PartInv
<1>5. CASE socket = <<>> /\ peer_open' = FALSE /\ UNCHANGED <<socket, read_buffer_, rpc>>
    <2>1. (\E e \in [0 .. Len(accepted) -> Nat] : Stream(e))' /\ ReceivedInv'
        BY <1>1, <1>3, <1>5, SameBytes
    <2>2. SockTypeOK'
        BY <1>1, <1>2, <1>5 DEF SockTypeOK
    <2>3. PeekInv' /\ PartInv'
        BY <1>1, <1>5 DEF SockIInv, PeekInv, PartInv, Sock!HasHeader
    <2>4. ~fd_open
        BY <1>1, <1>5
    <2>5. ~peer_quit => valid_bytes_ = 0
        BY <2>4 DEF SockIInv, Sock!NothingLostAtClose
    <2>6. ~peer_quit => Len(received) = Len(accepted)
        BY <1>1, <1>5, <2>5, EndOfStream
    <2>7. Sock!NothingLostAtClose'
        BY <1>1, <2>5, <2>6 DEF Sock!NothingLostAtClose
    <2>8. CloseInv' /\ Sock!NoEventAfterClose' /\ Sock!HalfFullIsDrained'
        BY <1>1, <1>5, <2>4 DEF SockIInv, CloseInv, Sock!NoEventAfterClose, Sock!HalfFullIsDrained
    <2> QED BY <2>1, <2>2, <2>3, <2>7, <2>8 DEF SockIInv
<1>6. ASSUME NEW n \in 1 .. Len(socket),
             read_buffer_' = read_buffer_ \o SubSeq(socket, 1, n),
             socket' = SubSeq(socket, n + 1, Len(socket)),
             rpc' = "consume", peer_open' = peer_open
      PROVE  SockIInv'
    <2>1. PICK e \in [0 .. Len(accepted) -> Nat] : Stream(e)
        BY DEF SockIInv
    <2>2. Stream(e)' /\ read_buffer_' \in Seq(Bytes) /\ socket' \in Seq(Bytes)
        BY <1>1, <1>2, <1>3, <1>6, <2>1, ReadMovesBytes
    <2>3. (\E f \in [0 .. Len(accepted) -> Nat] : Stream(f))'
        BY <1>1, <2>1, <2>2
    <2>4. ReceivedInv'
        BY <1>1 DEF SockIInv, ReceivedInv, Sock!MessageBytes
    <2>5. SockTypeOK'
        BY <1>1, <1>2, <1>6, <2>2 DEF SockTypeOK
    <2>6. PeekInv' /\ PartInv'
        BY <1>1, <1>6 DEF SockIInv, PeekInv, PartInv
    <2>7. CloseInv' /\ Sock!NothingLostAtClose' /\ Sock!NoEventAfterClose' /\ Sock!HalfFullIsDrained'
        BY <1>1, <1>6 DEF SockIInv, CloseInv, Sock!NothingLostAtClose, Sock!NoEventAfterClose, Sock!HalfFullIsDrained
    <2> QED BY <2>3, <2>4, <2>5, <2>6, <2>7 DEF SockIInv
<1>7. \/ socket = <<>> /\ peer_open' = FALSE /\ UNCHANGED <<socket, read_buffer_, rpc>>
      \/ \E n \in 1 .. Len(socket) :
            /\ read_buffer_' = read_buffer_ \o SubSeq(socket, 1, n)
            /\ socket' = SubSeq(socket, n + 1, Len(socket))
            /\ rpc' = "consume"
            /\ peer_open' = peer_open
    BY <1>4, Zenon DEF Sock!ReadData
<1> QED BY <1>5, <1>6, <1>7

\* What is at the start of read_buffer_ is the start of the next message.
LEMMA HeadOfBuffer ==
    ASSUME Sizes, SockTypeOK, PeekInv, NEW e, Stream(e), Len(read_buffer_) >= 1
    PROVE  /\ Len(received) + 1 \in 1 .. Len(accepted)
           /\ read_buffer_[1] = <<Len(received) + 1, 1>>
           /\ Sock!AtMessage
           /\ Sock!HeadLen = accepted[Len(received) + 1]
           /\ e[Len(received) + 1] = Taken(e) + Sock!Align(Sock!HeadLen)
<1> DEFINE n == Len(received) + 1
<1>1. /\ Ends(e) /\ BufferHolds(e) /\ Len(received) \in Nat /\ Len(accepted) \in Nat
      /\ Len(read_buffer_) \in Nat /\ Taken(e) \in Nat
    BY StreamFacts
<1>2. Len(received) = Len(accepted) => Len(read_buffer_) = 0
    BY EndsFacts
<1>3. n \in 1 .. Len(accepted) /\ n - 1 = Len(received)
    BY <1>1, <1>2 DEF Ends
<1>4. accepted[n] \in Nat /\ accepted[n] >= Sock!HeaderSize
    BY <1>3, AcceptedLens
<1>5. 1 \in 1 .. accepted[n] /\ 1 \in 1 .. Len(read_buffer_)
    BY <1>1, <1>4 DEF Sock!HeaderSize
<1>6. e[n - 1] + 1 = Taken(e) + 1
    BY <1>3 DEF Taken
<1>7. read_buffer_[1] = <<n, 1>>
    BY <1>1, <1>3, <1>5, <1>6 DEF BufferHolds
<1>8. Sock!AtMessage /\ Sock!HeadLen = accepted[n]
    BY <1>1, <1>3, <1>7 DEF Sock!AtMessage, Sock!HeadLen
<1>9. e[n] = Taken(e) + Sock!Align(Sock!HeadLen)
    BY <1>1, <1>3, <1>8 DEF Ends, Taken
<1> QED BY <1>3, <1>7, <1>8, <1>9

\* A message leaves read_buffer_ whole: what the callback is given are the bytes
\* of the next message, and the padding goes with it.
LEMMA ConsumeTakesMessage ==
    ASSUME NEW e
    PROVE  /\ Sizes /\ SockTypeOK /\ PeekInv /\ Stream(e) /\ Sock!HasHeader /\ Len(read_buffer_) >= Sock!Align(Sock!HeadLen)
           /\ received' = Append(received, SubSeq(read_buffer_, 1, Sock!HeadLen))
           /\ read_buffer_' = SubSeq(read_buffer_, Sock!Align(Sock!HeadLen) + 1, Len(read_buffer_))
           /\ data_' = data_ /\ read_head_' = read_head_ /\ valid_bytes_' = valid_bytes_
           /\ accepted' = accepted /\ socket' = socket /\ Sent' = Sent
           => /\ Stream(e)' /\ read_buffer_' \in Seq(Bytes) /\ received' \in Seq(Seq(Bytes))
              /\ Len(received') = Len(received) + 1
              /\ \A i \in 1 .. Len(received) : received'[i] = received[i]
              /\ received'[Len(received) + 1] = Sock!MessageBytes(Len(received) + 1)
<1>0. SUFFICES ASSUME Sizes, SockTypeOK, PeekInv, Stream(e), Sock!HasHeader, Len(read_buffer_) >= Sock!Align(Sock!HeadLen),
                      received' = Append(received, SubSeq(read_buffer_, 1, Sock!HeadLen)),
                      read_buffer_' = SubSeq(read_buffer_, Sock!Align(Sock!HeadLen) + 1, Len(read_buffer_)),
                      data_' = data_, read_head_' = read_head_, valid_bytes_' = valid_bytes_,
                      accepted' = accepted, socket' = socket, Sent' = Sent
               PROVE  /\ Stream(e)' /\ read_buffer_' \in Seq(Bytes) /\ received' \in Seq(Seq(Bytes))
                      /\ Len(received') = Len(received) + 1
                      /\ \A i \in 1 .. Len(received) : received'[i] = received[i]
                      /\ received'[Len(received) + 1] = Sock!MessageBytes(Len(received) + 1)
    OBVIOUS
<1> DEFINE B == Bytes
           m == Len(received) + 1
           R == Len(read_buffer_)
           H == Sock!HeadLen
           A == Sock!Align(Sock!HeadLen)
<1>1. /\ read_buffer_ \in Seq(B) /\ received \in Seq(Seq(B))
    BY <1>0 DEF SockTypeOK
<1>2. /\ Ends(e) /\ BufferHolds(e) /\ SocketHolds(e) /\ RingHolds(e)
      /\ Taken(e) \in Nat /\ Sent \in Nat /\ Len(socket) \in Nat
      /\ Len(received) \in Nat /\ Len(accepted) \in Nat /\ R \in Nat
    BY <1>0, StreamFacts
<1>3. R >= 1
    BY <1>0, <1>2 DEF Sock!HasHeader, Sock!HeaderSize
<1>4. /\ m \in 1 .. Len(accepted) /\ H = accepted[m] /\ e[m] = Taken(e) + A
    BY <1>0, <1>3, HeadOfBuffer
<1>5. /\ H \in Nat /\ H >= 1 /\ A \in Nat /\ A >= H /\ A <= R
    BY <1>0, <1>4, AcceptedLens DEF Sock!HeaderSize
<1> HIDE DEF B, R, H, A
<1>6. /\ SubSeq(read_buffer_, A + 1, R) \in Seq(B) /\ Len(SubSeq(read_buffer_, A + 1, R)) = R - A
      /\ \A p \in 1 .. R - A : SubSeq(read_buffer_, A + 1, R)[p] = read_buffer_[A + p]
    BY <1>1, <1>2, <1>5 DEF R
<1>7. /\ read_buffer_' \in Seq(B) /\ Len(read_buffer_') = R - A
      /\ \A p \in 1 .. R - A : read_buffer_'[p] = read_buffer_[A + p]
    BY <1>0, <1>6 DEF A, R
<1> DEFINE M == SubSeq(read_buffer_, 1, H)
<1>8. /\ M \in Seq(B) /\ Len(M) = H /\ M = [k \in 1 .. H |-> read_buffer_[k]]
    <2>1. H <= Len(read_buffer_)
        BY <1>2, <1>5 DEF R
    <2> QED BY <1>1, <1>5, <2>1
<1>9. M = Sock!MessageBytes(m)
    <2>1. ASSUME NEW k \in 1 .. H PROVE read_buffer_[k] = <<m, k>>
        <3>1. k \in 1 .. accepted[m] /\ k \in 1 .. R
            BY <1>2, <1>4, <1>5
        <3>2. e[m - 1] + k = Taken(e) + k
            BY <1>2 DEF Taken
        <3> QED BY <1>2, <1>4, <3>1, <3>2 DEF BufferHolds, R
    <2>2. [k \in 1 .. H |-> read_buffer_[k]] = [k \in 1 .. H |-> <<m, k>>]
        BY <2>1
    <2> QED BY <1>4, <1>8, <2>2 DEF Sock!MessageBytes
<1>10. received' = Append(received, M)
    BY <1>0 DEF H
<1> HIDE DEF M
<1>11. /\ received' \in Seq(Seq(B)) /\ Len(received') = m
       /\ \A i \in 1 .. Len(received) : received'[i] = received[i]
       /\ received'[m] = M
    BY <1>1, <1>2, <1>8, <1>10
<1>12. Taken(e)' = Taken(e) + A
    BY <1>4, <1>11 DEF Taken
<1>13. RingStart(e)' = RingStart(e)
    <2>1. RingStart(e)' = Taken(e)' + Len(read_buffer_') + Len(socket') - Sent'
        BY DEF RingStart
    <2>2. RingStart(e) = Taken(e) + R + Len(socket) - Sent
        BY DEF RingStart, R
    <2>3. socket' = socket /\ Sent' = Sent
        BY <1>0
    <2> QED BY <1>2, <1>5, <1>7, <1>12, <2>1, <2>2, <2>3
<1>14. Ends(e)'
    <2>1. accepted' = accepted /\ valid_bytes_' = valid_bytes_
        BY <1>0
    <2>2. Len(received') <= Len(accepted)
        BY <1>2, <1>4, <1>11
    <2> QED BY <1>2, <1>13, <2>1, <2>2 DEF Ends
<1>15. BufferHolds(e)'
    <2>1. ASSUME NEW i \in 1 .. Len(accepted), NEW k \in 1 .. accepted[i], NEW p \in 1 .. R - A,
                 e[i - 1] + k = (Taken(e) + A) + p
          PROVE  read_buffer_'[p] = <<i, k>>
        <3>1. A + p \in 1 .. R /\ Taken(e) + (A + p) = (Taken(e) + A) + p
            BY <1>2, <1>5
        <3>2. e[i - 1] + k = Taken(e) + (A + p)
            BY <2>1, <3>1
        <3>3. read_buffer_[A + p] = <<i, k>>
            BY <1>2, <3>1, <3>2 DEF BufferHolds, R
        <3> QED BY <1>7, <3>3
    <2>2. accepted' = accepted
        BY <1>0
    <2> QED BY <1>7, <1>12, <2>1, <2>2 DEF BufferHolds
<1>16. SocketHolds(e)'
    <2>1. Taken(e)' + Len(read_buffer_)' = Taken(e) + Len(read_buffer_)
        BY <1>2, <1>5, <1>7, <1>12 DEF R
    <2>2. accepted' = accepted /\ socket' = socket
        BY <1>0
    <2> QED BY SMTT(30), <1>2, <2>1, <2>2 DEF SocketHolds
<1>17. RingHolds(e)'
    <2>1. /\ accepted' = accepted /\ data_' = data_ /\ valid_bytes_' = valid_bytes_ /\ Sent' = Sent
          /\ \A j : Cell(j)' = Cell(j)
        BY <1>0 DEF Cell
    <2>2. RingHolds(e)
        BY <1>2
    <2> QED BY <1>13, <2>1, <2>2 DEF RingHolds
<1>18. Stream(e)'
    BY <1>14, <1>15, <1>16, <1>17 DEF Stream
<1> QED BY <1>7, <1>9, <1>11, <1>18 DEF B

\* One pass of the loop of ConsumeDataInReadBuffer.
LEMMA ConsumeMessageKeeps ==
    ASSUME Sizes, SockIInv, Sock!ConsumeMessage
    PROVE  SockIInv'
<1>1. /\ data_' = data_ /\ read_head_' = read_head_ /\ valid_bytes_' = valid_bytes_
      /\ accepted' = accepted /\ socket' = socket
      /\ UNCHANGED <<write_event_enabled_, no_more_message_, fd_open, wpc, peeked, peer_open, read_capacity,
                     peer_quit>>
      /\ rpc = "consume" /\ Sock!HasHeader
    BY DEF Sock!ConsumeMessage, Sock!senderVars, Sock!writeVars
<1>2. SockTypeOK /\ PeekInv
    BY DEF SockIInv
<1>3. Sent' = Sent
    BY <1>1 DEF Sent
<1>4. PICK e \in [0 .. Len(accepted) -> Nat] : Stream(e)
    BY DEF SockIInv
<1>5. Len(read_buffer_) >= 1
    BY <1>1, <1>2 DEF Sock!HasHeader, Sock!HeaderSize, SockTypeOK
<1>6. Sock!AtMessage /\ Len(received) + 1 \in 1 .. Len(accepted)
    BY <1>2, <1>4, <1>5, HeadOfBuffer
<1>7. /\ Len(read_buffer_) >= Sock!Align(Sock!HeadLen)
      /\ received' = Append(received, SubSeq(read_buffer_, 1, Sock!HeadLen))
      /\ read_buffer_' = SubSeq(read_buffer_, Sock!Align(Sock!HeadLen) + 1, Len(read_buffer_))
      /\ rpc' = "consume"
    BY <1>1, <1>6 DEF Sock!ConsumeMessage
<1>8. /\ Stream(e)' /\ read_buffer_' \in Seq(Bytes) /\ received' \in Seq(Seq(Bytes))
      /\ Len(received') = Len(received) + 1
      /\ \A i \in 1 .. Len(received) : received'[i] = received[i]
      /\ received'[Len(received) + 1] = Sock!MessageBytes(Len(received) + 1)
    BY <1>1, <1>2, <1>3, <1>4, <1>7, ConsumeTakesMessage
<1>9. (\E f \in [0 .. Len(accepted) -> Nat] : Stream(f))'
    BY <1>1, <1>4, <1>8
<1>10. ReceivedInv'
    <2>1. \A n : Sock!MessageBytes(n)' = Sock!MessageBytes(n)
        BY <1>1 DEF Sock!MessageBytes
    <2>2. Len(received) \in Nat /\ \A n \in 1 .. Len(received) : received[n] = Sock!MessageBytes(n)
        BY <1>2 DEF SockTypeOK, SockIInv, ReceivedInv
    <2>3. ASSUME NEW n \in 1 .. Len(received) + 1
          PROVE  received'[n] = Sock!MessageBytes(n)
        <3>1. n \in 1 .. Len(received) \/ n = Len(received) + 1
            BY <2>2
        <3> QED BY <1>8, <2>2, <3>1
    <2> QED BY <1>8, <2>1, <2>3 DEF ReceivedInv
<1>11. SockTypeOK'
    BY <1>1, <1>2, <1>7, <1>8 DEF SockTypeOK
<1>12. PeekInv' /\ PartInv'
    BY <1>1, <1>7 DEF SockIInv, PeekInv, PartInv
<1>13. Sock!NothingLostAtClose'
    <2>1. Len(received) # Len(accepted)
        BY <1>2, <1>6 DEF SockTypeOK
    <2>2. ~peer_quit => peer_open
        BY <2>1 DEF SockIInv, Sock!NothingLostAtClose
    <2> QED BY <1>1, <2>2 DEF SockIInv, Sock!NothingLostAtClose
<1>14. CloseInv' /\ Sock!NoEventAfterClose' /\ Sock!HalfFullIsDrained'
    BY <1>1 DEF SockIInv, CloseInv, Sock!NoEventAfterClose, Sock!HalfFullIsDrained
<1> QED BY <1>9, <1>10, <1>11, <1>12, <1>13, <1>14 DEF SockIInv

\* The end of that loop: read_buffer_ is made large enough for the message it
\* holds a part of, so the next read is never asked for nothing.
LEMMA ConsumeEndKeeps ==
    ASSUME Sizes, SockIInv, Sock!ConsumeEnd
    PROVE  SockIInv'
<1>1. /\ data_' = data_ /\ read_head_' = read_head_ /\ valid_bytes_' = valid_bytes_
      /\ accepted' = accepted /\ socket' = socket /\ read_buffer_' = read_buffer_ /\ received' = received
      /\ UNCHANGED <<write_event_enabled_, no_more_message_, fd_open, wpc, peeked, peer_open, peer_quit>>
      /\ rpc' = "loop" /\ (Sock!HasHeader => Len(read_buffer_) < Sock!Align(Sock!HeadLen))
      /\ read_capacity' = IF Sock!HasHeader /\ Sock!Align(Sock!HeadLen) > read_capacity
                          THEN Sock!Align(Sock!HeadLen) ELSE read_capacity
    BY DEF Sock!ConsumeEnd, Sock!senderVars, Sock!writeVars, Sock!historyVars
<1>2. SockTypeOK /\ PeekInv
    BY DEF SockIInv
<1>3. Sent' = Sent
    BY <1>1 DEF Sent
<1>4. (\E e \in [0 .. Len(accepted) -> Nat] : Stream(e))' /\ ReceivedInv'
    BY <1>1, <1>3, SameBytes
<1>5. PICK e \in [0 .. Len(accepted) -> Nat] : Stream(e)
    BY DEF SockIInv
<1>6. Len(read_buffer_) \in Nat /\ read_capacity \in Nat /\ read_capacity >= 2
    BY <1>2 DEF SockTypeOK, Sock!HeaderSize
<1>7. ASSUME Sock!HasHeader
      PROVE  /\ Sock!HeadLen = accepted[Len(received) + 1]
             /\ Sock!Align(Sock!HeadLen) \in Nat /\ Sock!Align(Sock!HeadLen) >= 2
    <2>1. Len(read_buffer_) >= 1
        BY <1>6, <1>7 DEF Sock!HasHeader, Sock!HeaderSize
    <2>2. Len(received) + 1 \in 1 .. Len(accepted) /\ Sock!HeadLen = accepted[Len(received) + 1]
        BY <1>2, <1>5, <2>1, HeadOfBuffer
    <2> QED BY <1>2, <2>2, AcceptedLens DEF Sock!HeaderSize
<1>8. read_capacity' \in Nat /\ read_capacity' >= 2
    BY <1>1, <1>6, <1>7
<1>9. SockTypeOK'
    BY <1>1, <1>2, <1>8 DEF SockTypeOK, Sock!HeaderSize
<1>10. PartInv'
    <2>1. CASE Sock!HasHeader
        <3>1. Len(read_buffer_) < Sock!Align(Sock!HeadLen) /\ Sock!Align(Sock!HeadLen) <= read_capacity'
            BY <1>1, <1>6, <1>7, <2>1
        <3>2. Len(read_buffer_) < read_capacity'
            BY <1>6, <1>7, <1>8, <2>1, <3>1
        <3> QED BY <1>1, <1>7, <2>1, <3>1, <3>2 DEF PartInv
    <2>2. CASE ~Sock!HasHeader
        <3>1. Len(read_buffer_) < 2
            BY <1>6, <2>2 DEF Sock!HasHeader, Sock!HeaderSize
        <3>2. Len(read_buffer_) < read_capacity' /\ ~Sock!HasHeader'
            BY <1>1, <1>6, <1>8, <2>2, <3>1 DEF Sock!HasHeader
        <3> QED BY <1>1, <3>2 DEF PartInv
    <2> QED BY <2>1, <2>2
<1>11. PeekInv' /\ CloseInv' /\ Sock!NothingLostAtClose' /\ Sock!NoEventAfterClose' /\ Sock!HalfFullIsDrained'
    BY <1>1 DEF SockIInv, PeekInv, CloseInv, Sock!NothingLostAtClose, Sock!NoEventAfterClose, Sock!HalfFullIsDrained
<1> QED BY <1>4, <1>9, <1>10, <1>11 DEF SockIInv

\* The receiver closes for a reason of its own.
LEMMA PeerClosesKeeps ==
    ASSUME Sizes, SockIInv, Sock!PeerCloses
    PROVE  SockIInv'
<1>1. /\ data_' = data_ /\ read_head_' = read_head_ /\ valid_bytes_' = valid_bytes_
      /\ accepted' = accepted /\ socket' = socket /\ read_buffer_' = read_buffer_ /\ received' = received
      /\ UNCHANGED <<write_event_enabled_, no_more_message_, fd_open, wpc, peeked, read_capacity, rpc>>
      /\ peer_open' = FALSE /\ peer_quit' = TRUE
    BY DEF Sock!PeerCloses, Sock!senderVars, Sock!writeVars
<1>2. Sent' = Sent
    BY <1>1 DEF Sent
<1>3. (\E e \in [0 .. Len(accepted) -> Nat] : Stream(e))' /\ ReceivedInv'
    BY <1>1, <1>2, SameBytes
<1>4. SockTypeOK'
    BY <1>1 DEF SockIInv, SockTypeOK
<1>5. PeekInv' /\ PartInv'
    BY <1>1 DEF SockIInv, PeekInv, PartInv, Sock!HasHeader
<1>6. CloseInv' /\ Sock!NothingLostAtClose' /\ Sock!NoEventAfterClose' /\ Sock!HalfFullIsDrained'
    BY <1>1 DEF SockIInv, CloseInv, Sock!NothingLostAtClose, Sock!NoEventAfterClose, Sock!HalfFullIsDrained
<1> QED BY <1>3, <1>4, <1>5, <1>6 DEF SockIInv

-----------------------------------------------------------------------------
(* The theorems.                                                           *)

\* Every step of either loop or of a thread that sends keeps IInv.
LEMMA NextKeeps == Sizes /\ SockIInv /\ [Sock!Next]_(Sock!vars) => SockIInv'
<1> SUFFICES ASSUME Sizes, SockIInv, [Sock!Next]_(Sock!vars) PROVE SockIInv'
    OBVIOUS
<1>1. CASE Sock!SenderLoop
    BY <1>1, GetDataKeeps, CloseKeeps, SendKeeps, CommitKeeps DEF Sock!SenderLoop
<1>2. CASE Sock!ReceiverLoop
    BY <1>2, ReadDataKeeps, ConsumeMessageKeeps, ConsumeEndKeeps DEF Sock!ReceiverLoop
<1>3. CASE Sock!Users
    BY <1>3, SendMessageKeeps, NoMoreMessageKeeps DEF Sock!Users
<1>4. CASE Sock!PeerCloses
    BY <1>4, PeerClosesKeeps
<1>5. CASE UNCHANGED Sock!vars
    <2>1. /\ data_' = data_ /\ read_head_' = read_head_ /\ valid_bytes_' = valid_bytes_
          /\ accepted' = accepted /\ socket' = socket /\ read_buffer_' = read_buffer_ /\ received' = received
          /\ UNCHANGED <<write_event_enabled_, no_more_message_, fd_open, wpc, peeked, read_capacity, rpc,
                         peer_open, peer_quit>>
        BY <1>5 DEF Sock!vars, Sock!senderVars, Sock!writeVars, Sock!receiverVars, Sock!historyVars
    <2>2. Sent' = Sent
        BY <2>1 DEF Sent
    <2>3. (\E e \in [0 .. Len(accepted) -> Nat] : Stream(e))' /\ ReceivedInv'
        BY <2>1, <2>2, SameBytes
    <2>4. SockTypeOK'
        BY <2>1 DEF SockIInv, SockTypeOK
    <2>5. PeekInv' /\ PartInv'
        BY <2>1 DEF SockIInv, PeekInv, PartInv, Sock!HasHeader
    <2>6. CloseInv' /\ Sock!NothingLostAtClose' /\ Sock!NoEventAfterClose' /\ Sock!HalfFullIsDrained'
        BY <2>1 DEF SockIInv, CloseInv, Sock!NothingLostAtClose, Sock!NoEventAfterClose, Sock!HalfFullIsDrained
    <2> QED BY <2>3, <2>4, <2>5, <2>6 DEF SockIInv
<1> QED BY <1>1, <1>2, <1>3, <1>4, <1>5 DEF Sock!Next

\* IInv holds in every reachable state.
LEMMA AlwaysIInv == ASSUME Sizes PROVE Sock!Spec => []SockIInv
<1>1. Sock!Init => SockIInv
    BY InitIInv
<1>2. SockIInv /\ [Sock!Next]_(Sock!vars) => SockIInv'
    BY NextKeeps
<1> QED BY <1>1, <1>2, PTL DEF Sock!Spec

\* Whatever the sizes of the two buffers and of the socket, however send and
\* read cut the stream and wherever the circular buffer wraps, the read callback
\* is given the accepted messages, whole, in order and once, and the receiver
\* never takes padding or the middle of a message for a header.
THEOREM MessagesDelivered == ASSUME Sizes PROVE Sock!Spec => []Sock!DeliversInOrder
<1>1. SockIInv => Sock!DeliversInOrder
    BY DEF SockIInv, SockTypeOK, ReceivedInv, Sock!DeliversInOrder
<1> QED BY <1>1, AlwaysIInv, PTL

\* A sender that closes after NoMoreMessage has sent all it accepted, and a
\* receiver that sees the end of the stream has received all of it.
THEOREM CloseLosesNothing == ASSUME Sizes PROVE Sock!Spec => []Sock!NothingLostAtClose
<1>1. SockIInv => Sock!NothingLostAtClose
    BY DEF SockIInv
<1> QED BY <1>1, AlwaysIInv, PTL

\* The write event of a closed connection stays disabled, and that of an open one
\* with a buffer at least half full stays enabled.
THEOREM WriteEventFollowsBuffer ==
    ASSUME Sizes PROVE Sock!Spec => []Sock!NoEventAfterClose /\ []Sock!HalfFullIsDrained
<1>1. SockIInv => Sock!NoEventAfterClose /\ Sock!HalfFullIsDrained
    BY DEF SockIInv
<1> QED BY <1>1, AlwaysIInv, PTL
=============================================================================
