----------------------------- MODULE KmsgGlobal -----------------------------
(***************************************************************************)
(* The driver of lab1 (kmsgpipe/labs/lab1): one buffer of the device that  *)
(* every write erases and fills, read through the positions of the open    *)
(* files.  Any thread may use any file: files are shared after dup() or    *)
(* fork().                                                                 *)
(*                                                                         *)
(* The kernel hands read and write a copy of the file's position, without  *)
(* a lock for a character device, and stores the copy when the call did    *)
(* not fail.  A byte is <<m, i>>, the i-th of message m.                   *)
(***************************************************************************)
EXTENDS CharDevice, Sequences

CONSTANTS
    Files,      \* open files
    Size,       \* dev->size
    Messages,   \* what is written
    Zero,       \* the byte memset writes
    MaxPos      \* bound on positions

ASSUME KmsgGlobalAssumption ==
    /\ Size \in Nat
    /\ MaxPos \in Nat
    /\ Messages # {}
    /\ Files # {}

\* The position of a file that is not open.
Closed == -1

\* The first n bytes of message m.
Bytes(m, n) == [i \in 1 .. n |-> <<m, i>>]

\* file: the open file of the call; at: the copy of its position; got: what the
\* last read has copied into kbuf.
SomeMessage == CHOOSE m \in Messages : TRUE
NoRequest ==
    [file |-> CHOOSE f \in Files : TRUE, count |-> 0, msg |-> SomeMessage, at |-> 0, got |-> <<>>]

GlobalInit ==
    /\ dev = [data |-> [i \in 1 .. Size |-> Zero], data_len |-> 0]
    /\ mutex = Free
    /\ pos = [f \in Files |-> Closed]
    /\ pc = [t \in Threads |-> "open"]
    /\ local = [t \in Threads |-> NoRequest]

-----------------------------------------------------------------------------
(* Slips a programmer could make in the actions below.                     *)

\* No memset.
Slip_Erase(t) ==
    /\ At(t, "memset")
    /\ Goto(t, "memcpy")
    /\ UNCHANGED <<dev, mutex, pos, local>>

\* The position of the file is taken for a place in the buffer.
Slip_CopyMessage(t) ==
    /\ At(t, "memcpy")
    /\ dev' = [dev EXCEPT !.data = [i \in 1 .. Size |->
                    IF i - local[t].at \in 1 .. local[t].count
                    THEN <<local[t].msg, i - local[t].at>> ELSE @[i]]]
    /\ Goto(t, "data_len")
    /\ UNCHANGED <<mutex, pos, local>>

-----------------------------------------------------------------------------
(* open and release *)

kmsgpipe_open(f) ==
    /\ pos[f] = Closed
    /\ pos' = [pos EXCEPT ![f] = 0]
    /\ UNCHANGED <<dev, mutex, pc, local>>

\* The last reference to the file is gone: nobody is in a call with it.
kmsgpipe_release(f) ==
    /\ pos[f] # Closed
    /\ \A t \in Threads : At(t, "open") \/ local[t].file # f
    /\ pos' = [pos EXCEPT ![f] = Closed]
    /\ UNCHANGED <<dev, mutex, pc, local>>

\* A call with an open file that gets as far as the mutex.  One that is refused
\* before (a failed allocation or copy, a message longer than the buffer) changes
\* nothing.
Call(t, f, count, m, lock) ==
    /\ At(t, "open")
    /\ pos[f] # Closed
    /\ local' = [local EXCEPT ![t] =
                    [file |-> f, count |-> count, msg |-> m, at |-> pos[f], got |-> <<>>]]
    /\ Goto(t, lock)
    /\ UNCHANGED <<dev, mutex, pos>>

Leave(t) ==
    /\ Goto(t, "open")
    /\ local' = [local EXCEPT ![t] = NoRequest]
    /\ UNCHANGED <<dev, mutex>>

\* The call has not failed, and the kernel stores the position; before that read
\* has copied what it found to the user.
ReturnGlobal(t) ==
    /\ pc[t] \in {"return", "copy_to_user"}
    /\ pos' = [pos EXCEPT ![local[t].file] = local[t].at]
    /\ Leave(t)

UnlockGlobal(t, from, to) ==
    /\ At(t, from)
    /\ mutex' = Free
    /\ Goto(t, to)
    /\ UNCHANGED <<dev, pos, local>>

-----------------------------------------------------------------------------
(* write *)

kmsgpipe_write(t) ==
    \E f \in Files, m \in Messages, count \in Counts :
        /\ count <= Size
        /\ pos[f] + count <= MaxPos
        /\ Call(t, f, count, m, "write_lock")

Erase(t) ==
    /\ At(t, "memset")
    /\ dev' = [dev EXCEPT !.data = [i \in 1 .. Size |-> Zero]]
    /\ Goto(t, "memcpy")
    /\ UNCHANGED <<mutex, pos, local>>

CopyMessage(t) ==
    /\ At(t, "memcpy")
    /\ dev' = [dev EXCEPT !.data = [i \in 1 .. Size |->
                    IF i <= local[t].count THEN <<local[t].msg, i>> ELSE @[i]]]
    /\ Goto(t, "data_len")
    /\ UNCHANGED <<mutex, pos, local>>

SetLength(t) ==
    /\ At(t, "data_len")
    /\ dev' = [dev EXCEPT !.data_len = local[t].count]
    /\ local' = [local EXCEPT ![t].at = @ + local[t].count]
    /\ Goto(t, "write_unlock")
    /\ UNCHANGED <<mutex, pos>>

-----------------------------------------------------------------------------
(* read *)

kmsgpipe_read(t) ==
    \E f \in Files, count \in Counts : Call(t, f, count, SomeMessage, "read_lock")

\* Nothing there, or nothing behind the position.
ReadEnd(t) ==
    /\ At(t, "read")
    /\ dev.data_len = 0 \/ local[t].at >= dev.data_len
    /\ mutex' = Free
    /\ Goto(t, "return")
    /\ UNCHANGED <<dev, pos, local>>

ReadPiece(t) ==
    LET at    == local[t].at
        avail == dev.data_len - at
        n     == IF local[t].count > avail THEN avail ELSE local[t].count
    IN  /\ At(t, "read")
        /\ at < dev.data_len
        /\ local' = [local EXCEPT ![t].got = SubSeq(dev.data, at + 1, at + n),
                                  ![t].at = at + n]
        /\ Goto(t, "read_unlock")
        /\ UNCHANGED <<dev, mutex, pos>>

\* A failing copy leaves the position of the file as it was.
CopyOutFaults(t) ==
    /\ Faults
    /\ At(t, "copy_to_user")
    /\ local[t].got # <<>>
    /\ Leave(t)
    /\ UNCHANGED pos

-----------------------------------------------------------------------------

GlobalTakesMutex(t) ==
    \/ Lock(t, "write_lock", "memset")
    \/ Lock(t, "read_lock", "read")

GlobalInKernel(t) ==
    \/ GlobalTakesMutex(t)
    \/ Erase(t) \/ CopyMessage(t) \/ SetLength(t)
    \/ UnlockGlobal(t, "write_unlock", "return")
    \/ ReadEnd(t) \/ ReadPiece(t)
    \/ UnlockGlobal(t, "read_unlock", "copy_to_user")
    \/ CopyOutFaults(t) \/ ReturnGlobal(t)

GlobalCalls(t) == kmsgpipe_write(t) \/ kmsgpipe_read(t)

GlobalNext ==
    \/ \E t \in Threads : GlobalInKernel(t) \/ GlobalCalls(t)
    \/ \E f \in Files : kmsgpipe_open(f) \/ kmsgpipe_release(f)

GlobalSpec == GlobalInit /\ [][GlobalNext]_vars

-----------------------------------------------------------------------------
(* Properties *)

\* Every variable has its type; the position of a file is its end at most.
GlobalTypeOK ==
    /\ dev \in [data : [1 .. Size -> (Messages \X (1 .. Size)) \cup {Zero}], data_len : 0 .. Size]
    /\ mutex \in Threads \cup {Free}
    /\ pos \in [Files -> Nat \cup {Closed}]
    /\ pc \in [Threads -> Inside \cup Waiting \cup {"open", "copy_to_user", "return"}]
    /\ local \in [Threads -> [file : Files, count : Counts \cup {0}, msg : Messages, at : Nat,
                             got : Seq((Messages \X (1 .. Size)) \cup {Zero})]]
    /\ \A t \in Threads : pc[t] # "open" => pos[local[t].file] # Closed

\* "On write previous buffer is erased, and data is copied to the buffer": while
\* nobody writes, the buffer is one message from its first byte on and zero
\* behind it, whatever longer message was there before.
PreviousErased ==
    mutex = Free =>
        \E m \in Messages : dev.data =
            [i \in 1 .. Size |-> IF i <= dev.data_len THEN <<m, i>> ELSE Zero]

\* The message as others can see it: from memset to the new length it is the one
\* that is being written.
ShownMessage ==
    IF \E t \in Threads : pc[t] \in {"memcpy", "data_len"}
    THEN LET w == CHOOSE t \in Threads : pc[t] \in {"memcpy", "data_len"}
         IN  Bytes(local[w].msg, local[w].count)
    ELSE SubSeq(dev.data, 1, dev.data_len)

\* The call of a thread at a label, as others can see it: a write has happened
\* from memset on, and its position counts from then.
CallAt(label, l) ==
    [phase |-> CASE label = "open" -> "none"
                 [] label \in {"read_lock", "read"} -> "reading"
                 [] label \in {"write_lock", "memset"} -> "writing"
                 [] OTHER -> "done",
     file  |-> l.file,
     count |-> l.count,
     at    |-> IF label \in {"memcpy", "data_len"} THEN l.at + l.count ELSE l.at,
     got   |-> l.got]

ShownCalls == [t \in Threads |-> CallAt(pc[t], local[t])]

=============================================================================
