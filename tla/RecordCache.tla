------------------------------ MODULE RecordCache ------------------------------
(***************************************************************************)
(* simpleperf's RecordCache, and RecordFileReader::ReadDataSection that    *)
(* reads a perf.data file through it.  The records of different cpus are   *)
(* in the file in the order in which they were collected; the cache gives  *)
(* them to the callback by time.                                           *)
(*                                                                         *)
(* A record is its time, whether it is a sample, and the order in which it *)
(* entered the cache.  cur_seq_ has 32 bits; MaxRecords stays below 2^32.  *)
(***************************************************************************)
EXTENDS Integers, Sequences, FiniteSets

CONSTANTS
    min_cache_size,
    min_time_diff_in_ns,
    MaxTime,     \* bound: times are 0 .. MaxTime
    MaxRecords   \* bound: records in the file

ASSUME RecordCacheAssumption ==
    /\ min_cache_size \in Nat \ {0}
    /\ min_time_diff_in_ns \in Nat
    /\ MaxTime \in Nat
    /\ MaxRecords \in Nat

Times == 0 .. MaxTime

Records == [time : Times, sample : BOOLEAN, seq : Nat]

VARIABLES
    has_timestamp_,
    queue_,       \* the records in the priority queue
    last_time_,
    cur_seq_,
    at_end,       \* the data section has been read
    result,       \* what ReadDataSection returned
    delivered,    \* history: records given to the callback
    timely        \* history: no record came min_time_diff or more too late

vars == <<has_timestamp_, queue_, last_time_, cur_seq_, at_end, result, delivered, timely>>

TypeOK ==
    /\ has_timestamp_ \in BOOLEAN
    /\ queue_ \subseteq Records
    /\ last_time_ \in Times
    /\ cur_seq_ \in 0 .. MaxRecords
    /\ at_end \in BOOLEAN
    /\ result \in {"reading", "true", "false"}
    /\ delivered \in Seq(Records)
    /\ timely \in BOOLEAN

Init ==
    /\ has_timestamp_ \in BOOLEAN
    /\ queue_ = {}
    /\ last_time_ = 0
    /\ cur_seq_ = 0
    /\ at_end = FALSE
    /\ result = "reading"
    /\ delivered = <<>>
    /\ timely = TRUE

IsHappensBefore(r, other) ==
    \/ r.time < other.time
    \/ r.time = other.time /\ ~r.sample /\ other.sample
    \/ r.time = other.time /\ r.sample = other.sample /\ r.seq < other.seq

\* r is queue_.top() when the queue holds q.
IsTop(r, q) == r \in q /\ \A other \in q \ {r} : IsHappensBefore(r, other)

Latest(time) == IF has_timestamp_ /\ time > last_time_ THEN time ELSE last_time_

\* Mutant: the time difference is not checked.
MayPopBySize(r, q, last) == Cardinality(q) >= min_cache_size

\* The two checks of Pop.
MayPop(r, q, last) ==
    /\ Cardinality(q) >= min_cache_size
    /\ has_timestamp_ => r.time + min_time_diff_in_ns <= last

\* Mutant: the top leaves the queue before the checks.
PushAndDrop(r) ==
    /\ result = "reading" /\ ~at_end
    /\ cur_seq_ < MaxRecords
    /\ r.seq = cur_seq_
    /\ last_time_' = Latest(r.time)
    /\ cur_seq_' = cur_seq_ + 1
    /\ timely' = (timely /\ r.time + min_time_diff_in_ns > last_time_)
    /\ LET q == queue_ \cup {r}
       IN  \E top \in q :
            /\ IsTop(top, q)
            /\ queue_' = q \ {top}
            /\ delivered' = IF MayPop(top, q, Latest(r.time)) THEN Append(delivered, top)
                                                             ELSE delivered
    /\ UNCHANGED <<has_timestamp_, at_end, result>>

\* One pass of the loop of ReadRecord: the record is pushed, and the top of the
\* queue goes to the callback if Pop returns it.
PushAndPop(r) ==
    /\ result = "reading" /\ ~at_end
    /\ cur_seq_ < MaxRecords
    /\ r.seq = cur_seq_
    /\ last_time_' = Latest(r.time)
    /\ cur_seq_' = cur_seq_ + 1
    /\ timely' = (timely /\ r.time + min_time_diff_in_ns > last_time_)
    /\ LET q == queue_ \cup {r}
       IN  \E top \in q :
            /\ IsTop(top, q)
            /\ IF MayPop(top, q, Latest(r.time))
               THEN queue_' = q \ {top} /\ delivered' = Append(delivered, top)
               ELSE queue_' = q /\ UNCHANGED delivered
    /\ UNCHANGED <<has_timestamp_, at_end, result>>

\* Timestamp() is 0 when the attributes do not ask for one.
NewRecord(time, sample) == [time |-> time, sample |-> sample, seq |-> cur_seq_]

ReadRecord ==
    \E time \in (IF has_timestamp_ THEN Times ELSE {0}), sample \in BOOLEAN :
        PushAndPop(NewRecord(time, sample))

EndOfData ==
    /\ result = "reading" /\ ~at_end
    /\ at_end' = TRUE
    /\ UNCHANGED <<has_timestamp_, queue_, last_time_, cur_seq_, result, delivered, timely>>

ForcedPop ==
    /\ result = "reading" /\ at_end
    /\ \E top \in queue_ :
        /\ IsTop(top, queue_)
        /\ queue_' = queue_ \ {top}
        /\ delivered' = Append(delivered, top)
    /\ UNCHANGED <<has_timestamp_, last_time_, cur_seq_, at_end, result, timely>>

\* ForcedPop returns nullptr.
ReturnTrue ==
    /\ result = "reading" /\ at_end
    /\ queue_ = {}
    /\ result' = "true"
    /\ UNCHANGED <<has_timestamp_, queue_, last_time_, cur_seq_, at_end, delivered, timely>>

\* The callback returned false, or a SPLIT record has no end.
ReturnFalse ==
    /\ result = "reading"
    /\ result' = "false"
    /\ UNCHANGED <<has_timestamp_, queue_, last_time_, cur_seq_, at_end, delivered, timely>>

Proceed == ReadRecord \/ EndOfData \/ ForcedPop \/ ReturnTrue

Next == Proceed \/ ReturnFalse

\* The reader's loop goes on until it returns; the file is finite.  Nothing
\* makes it fail.
Spec == Init /\ [][Next]_vars /\ WF_vars(Proceed)

-----------------------------------------------------------------------------
\* The callback gets the records in the order of IsHappensBefore, as long as
\* the assumption of record.h 588-591 holds: once a record for time t is in, no
\* record for t - min_time_diff or earlier comes.
DeliversInOrder ==
    has_timestamp_ /\ timely =>
        \A m, n \in DOMAIN delivered : m < n => IsHappensBefore(delivered[m], delivered[n])

\* Every record read is either still in the queue or was given to the callback,
\* once; ReadDataSection returns true only when all of them were, timely or not.
DeliversAll ==
    /\ \A s \in 0 .. cur_seq_ - 1 :
        \/ \E r \in queue_ : r.seq = s
        \/ \E n \in DOMAIN delivered : delivered[n].seq = s
    /\ \A m, n \in DOMAIN delivered : delivered[m].seq = delivered[n].seq => m = n
    /\ \A n \in DOMAIN delivered, r \in queue_ : delivered[n].seq # r.seq
    /\ result = "true" => queue_ = {}
=============================================================================
