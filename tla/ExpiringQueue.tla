---------------------------- MODULE ExpiringQueue ----------------------------
(***************************************************************************)
(* What the pipe with a cleanup promises while nobody clears it: a bounded *)
(* queue as in MsgQueue, and a cleanup that takes a timestamp, keeps the   *)
(* readers and writers out, drops from the front messages older than its   *)
(* timestamp, and ends when all that are left are not.  Nothing else       *)
(* expires.                                                                *)
(***************************************************************************)
EXTENDS Integers, Sequences

CONSTANTS
    Capacity,   \* how many messages the queue holds at most
    Message     \* the set of messages

VARIABLES
    queue,
    now,        \* the time
    phase,      \* of the cleanup: "none", "stamped" or "cleaning"
    stamp       \* its timestamp

vars == <<queue, now, phase, stamp>>

Init ==
    /\ queue = << >>
    /\ now = 0
    /\ phase = "none"
    /\ stamp = 0

Tick ==
    /\ now' = now + 1
    /\ UNCHANGED <<queue, phase, stamp>>

\* A writer's message is accepted, with a timestamp of the past.
Enqueue ==
    /\ phase # "cleaning"
    /\ Len(queue) < Capacity
    /\ \E m \in Message : m.timestamp <= now /\ queue' = Append(queue, m)
    /\ UNCHANGED <<now, phase, stamp>>

\* The oldest message is handed to a reader.
Dequeue ==
    /\ phase # "cleaning"
    /\ queue # << >>
    /\ queue' = Tail(queue)
    /\ UNCHANGED <<now, phase, stamp>>

TakeStamp ==
    /\ phase = "none"
    /\ phase' = "stamped"
    /\ stamp' = now
    /\ UNCHANGED <<queue, now>>

Begin ==
    /\ phase = "stamped"
    /\ phase' = "cleaning"
    /\ UNCHANGED <<queue, now, stamp>>

\* The oldest message is older than the timestamp, and is dropped.
Expire ==
    /\ phase = "cleaning"
    /\ queue # << >>
    /\ Head(queue).timestamp < stamp
    /\ queue' = Tail(queue)
    /\ UNCHANGED <<now, phase, stamp>>

\* No message that is left is older than the timestamp.
Finish ==
    /\ phase = "cleaning"
    /\ \A k \in 1 .. Len(queue) : queue[k].timestamp >= stamp
    /\ phase' = "none"
    /\ stamp' = 0
    /\ UNCHANGED <<queue, now>>

Next ==
    \/ Tick \/ Enqueue \/ Dequeue
    \/ TakeStamp \/ Begin \/ Expire \/ Finish

Spec == Init /\ [][Next]_vars

=============================================================================
