--------------------------- MODULE UnixSocketSignal ---------------------------
(***************************************************************************)
(* The locking of UnixSocketConnection::SendMessage when threads call it   *)
(* and a signal handler, which runs on top of the thread it interrupts,    *)
(* calls it too.  What is done under the lock is in module UnixSocket.     *)
(***************************************************************************)
EXTENDS Naturals

CONSTANTS
    Threads,
    None      \* no thread

VARIABLES
    mtx,       \* owner of send_buffer_and_write_event_mtx_
    body,      \* where each thread is in its own SendMessage
    handler    \* where the handler on top of the thread is in its SendMessage

vars == <<mtx, body, handler>>

Init ==
    /\ mtx = None
    /\ body = [t \in Threads |-> "outside"]
    /\ handler = [t \in Threads |-> "outside"]

\* One step of SendMessage, from frame to frame': call, lock, unlock and return.
SendMessageStep(t, frame, next) ==
    \/ frame = "outside" /\ next = "lock" /\ UNCHANGED mtx
    \/ frame = "lock" /\ mtx = None /\ next = "locked" /\ mtx' = t
    \/ frame = "locked" /\ next = "outside" /\ mtx' = None

\* The thread itself runs only when no handler is on top of it.
BodyStep(t) ==
    /\ handler[t] = "outside"
    /\ \E next \in {"outside", "lock", "locked"} :
        /\ SendMessageStep(t, body[t], next)
        /\ body' = [body EXCEPT ![t] = next]
    /\ UNCHANGED handler

\* A signal arrives anywhere; its handler runs to its end.
HandlerStep(t) ==
    /\ \E next \in {"outside", "lock", "locked"} :
        /\ SendMessageStep(t, handler[t], next)
        /\ handler' = [handler EXCEPT ![t] = next]
    /\ UNCHANGED body

Next == \E t \in Threads : BodyStep(t) \/ HandlerStep(t)

Spec == Init /\ [][Next]_vars

\* "Thread-safe function, can be called from signal handler." (UnixSocket.h 162):
\* a handler never waits for the lock that the thread under it holds, since that
\* thread cannot run before the handler returns.
CallableFromSignalHandler ==
    \A t \in Threads :
        ~(handler[t] = "lock" /\ body[t] = "locked" /\ mtx = t)
=============================================================================
