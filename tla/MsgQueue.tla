------------------------------ MODULE MsgQueue ------------------------------
(***************************************************************************)
(* What the message pipe promises: a bounded queue of messages that leave  *)
(* it in the order in which they were accepted, one at a time to a reader, *)
(* or without being read when they are older than a cutoff, or all         *)
(* together when an administrator clears the queue.                        *)
(***************************************************************************)
EXTENDS Integers, Sequences

CONSTANTS
    Capacity,   \* how many messages the queue holds at most
    Message,    \* the set of messages
    Cutoffs     \* the cutoff times in use

VARIABLE queue

Init == queue = << >>

\* A writer's message is accepted.
Enqueue ==
    /\ Len(queue) < Capacity
    /\ queue' \in {Append(queue, m) : m \in Message}

\* The oldest message is handed to a reader.
Dequeue ==
    /\ queue # << >>
    /\ queue' = Tail(queue)

\* One or more of the oldest messages are dropped, all of them from before
\* the cutoff.
Expire(cutoff) ==
    \E n \in 1 .. Len(queue) :
        /\ \A k \in 1 .. n : queue[k].timestamp < cutoff
        /\ queue' = SubSeq(queue, n + 1, Len(queue))

\* All messages are dropped.
Flush == queue' = << >>

Next ==
    \/ Enqueue
    \/ Dequeue
    \/ \E cutoff \in Cutoffs : Expire(cutoff)
    \/ Flush

Spec == Init /\ [][Next]_queue

=============================================================================
