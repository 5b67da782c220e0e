---------------------------- MODULE SharedMessage ----------------------------
(***************************************************************************)
(* What lab1's driver promises: there is one message at a time; a write    *)
(* replaces it as a whole, and a read answers with the bytes of the        *)
(* message that is there at one moment, from the position that the file    *)
(* had when the call began, as many as were asked for or are left.  Then   *)
(* the file's position is where the call has come to.                      *)
(***************************************************************************)
EXTENDS Integers, Sequences

CONSTANTS
    Threads, Files, Messages,
    Counts,     \* the counts passed to read and write
    Size,       \* the length of the longest message
    Closed      \* the position of a file that is not open

VARIABLES
    message,    \* the bytes of the message
    pos,        \* the position of every file
    call        \* the call of every thread: its file and count, the position
                \* it has come to, and what it has found

vars == <<message, pos, call>>

NoCall == [phase |-> "none", file |-> CHOOSE f \in Files : TRUE, count |-> 0,
           at |-> 0, got |-> <<>>]

\* The call has come to a position and has found some bytes, and ends next.
Done(c, at, got) ==
    [phase |-> "done", file |-> c.file, count |-> c.count, at |-> at, got |-> got]

Init ==
    /\ message = <<>>
    /\ pos = [f \in Files |-> Closed]
    /\ call = [t \in Threads |-> NoCall]

Open(f) ==
    /\ pos[f] = Closed
    /\ pos' = [pos EXCEPT ![f] = 0]
    /\ UNCHANGED <<message, call>>

Close(f) ==
    /\ pos[f] # Closed
    /\ \A t \in Threads : call[t].phase = "none" \/ call[t].file # f
    /\ pos' = [pos EXCEPT ![f] = Closed]
    /\ UNCHANGED <<message, call>>

\* A call takes the position of its file.
Begin(t) ==
    /\ call[t].phase = "none"
    /\ \E f \in Files, n \in Counts, p \in {"reading", "writing"} :
        /\ pos[f] # Closed
        /\ p = "writing" => n <= Size
        /\ call' = [call EXCEPT ![t] = [phase |-> p, file |-> f, count |-> n,
                                        at |-> pos[f], got |-> <<>>]]
    /\ UNCHANGED <<message, pos>>

\* A whole message, from its first byte on, wherever the file is.
Write(t) ==
    /\ call[t].phase = "writing"
    /\ \E m \in Messages : message' = [i \in 1 .. call[t].count |-> <<m, i>>]
    /\ call' = [call EXCEPT ![t] = Done(call[t], call[t].at + call[t].count, call[t].got)]
    /\ UNCHANGED pos

Read(t) ==
    LET at   == call[t].at
        rest == Len(message) - at
        n    == IF call[t].count > rest THEN rest ELSE call[t].count
    IN  /\ call[t].phase = "reading"
        /\ at < Len(message)
        /\ call' = [call EXCEPT ![t] = Done(call[t], at + n, SubSeq(message, at + 1, at + n))]
        /\ UNCHANGED <<message, pos>>

\* The file is at the end of the message, or behind it.
ReadNothing(t) ==
    /\ call[t].phase = "reading"
    /\ call[t].at >= Len(message)
    /\ call' = [call EXCEPT ![t] = Done(call[t], call[t].at, call[t].got)]
    /\ UNCHANGED <<message, pos>>

End(t) ==
    /\ call[t].phase = "done"
    /\ call' = [call EXCEPT ![t] = NoCall]
    /\ pos' = [pos EXCEPT ![call[t].file] = call[t].at]
    /\ UNCHANGED message

\* What a read has found does not reach the user.
Fail(t) ==
    /\ call[t].phase = "done"
    /\ call[t].got # <<>>
    /\ call' = [call EXCEPT ![t] = NoCall]
    /\ UNCHANGED <<message, pos>>

Next ==
    \/ \E f \in Files : Open(f) \/ Close(f)
    \/ \E t \in Threads :
        Begin(t) \/ Write(t) \/ Read(t) \/ ReadNothing(t) \/ End(t) \/ Fail(t)

Spec == Init /\ [][Next]_vars

=============================================================================
