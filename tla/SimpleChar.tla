----------------------------- MODULE SimpleChar -----------------------------
(***************************************************************************)
(* The driver of chapter 3 (chapter03/simple_char_driver/simplechar.c):    *)
(* every write puts a newly allocated buffer in the place of the old one,  *)
(* which is never freed, and sets the size after the copy has succeeded.   *)
(*                                                                         *)
(* Of a buffer the model keeps its length and whether the data has arrived *)
(* in it.  kmalloc is not checked, so that a failing one ends in memset    *)
(* and kills the thread where it is, with the mutex.                       *)
(***************************************************************************)
EXTENDS CharDevice

\* dev->data before the first write, and after a kmalloc that failed.
Null == [len |-> 0, filled |-> FALSE]

\* count: of the call; got: the bytes the last read has copied.
NoAccess == [count |-> 0, got |-> 0]

SimpleInit ==
    /\ dev = [data |-> Null, size |-> 0]
    /\ mutex = Free
    /\ pos = [t \in Threads |-> 0]
    /\ pc = [t \in Threads |-> "closed"]
    /\ local = [t \in Threads |-> NoAccess]

-----------------------------------------------------------------------------
(* Slips a programmer could make in the actions below.                     *)

\* The mutex is given back before the size is set.
Slip_SimpleCopy(t) ==
    /\ At(t, "write")
    /\ dev' = [dev EXCEPT !.data.filled = TRUE]
    /\ mutex' = Free
    /\ Goto(t, "open")
    /\ UNCHANGED <<pos, local>>

-----------------------------------------------------------------------------
(* open and release *)

simple_char_open(t) ==
    /\ At(t, "closed")
    /\ pos' = [pos EXCEPT ![t] = 0]
    /\ Goto(t, IF Mode[t] = "O_WRONLY" THEN "open_lock" ELSE "open")
    /\ UNCHANGED <<dev, mutex, local>>

\* The interruptible lock of open, read and write.
SimpleInterrupted(t) ==
    /\ Signals /\ mutex # Free
    /\ \/ At(t, "open_lock") /\ Goto(t, "closed")
       \/ pc[t] \in {"read_lock", "write_lock"} /\ Goto(t, "open")
    /\ UNCHANGED <<dev, mutex, pos, local>>

simple_char_release(t) ==
    /\ At(t, "open")
    /\ Goto(t, "closed")
    /\ UNCHANGED <<dev, mutex, pos, local>>

\* What follows the label out, and the end of a write-only open.
SimpleUnlock(t) ==
    /\ pc[t] \in {"open_unlock", "read_unlock", "write_unlock"}
    /\ mutex' = Free
    /\ Goto(t, "open")
    /\ UNCHANGED <<dev, pos, local>>

-----------------------------------------------------------------------------
(* read and write *)

SimpleCall(t, lock) ==
    /\ At(t, "open")
    /\ \E count \in Counts : local' = [local EXCEPT ![t] = [count |-> count, got |-> 0]]
    /\ Goto(t, lock)
    /\ UNCHANGED <<dev, mutex, pos>>

simple_char_read(t) == Mode[t] = "O_RDWR" /\ SimpleCall(t, "read_lock")

simple_char_write(t) == SimpleCall(t, "write_lock")

\* Only a count above the size is answered with the data, from its first byte on.
SimpleRead(t) ==
    LET retval == IF pos[t] < dev.size /\ dev.size < local[t].count THEN dev.size ELSE 0
    IN  /\ At(t, "read")
        /\ \/ /\ pos' = [pos EXCEPT ![t] = @ + retval]
              /\ local' = [local EXCEPT ![t].got = retval]
           \/ /\ Faults /\ retval > 0
              /\ UNCHANGED <<pos, local>>
        /\ Goto(t, "read_unlock")
        /\ UNCHANGED <<dev, mutex>>

\* kmalloc and memset.
SimpleAllocate(t) ==
    /\ At(t, "memset")
    /\ \/ /\ dev' = [dev EXCEPT !.data = [len |-> local[t].count, filled |-> FALSE]]
          /\ Goto(t, "write")
       \/ /\ Faults
          /\ dev' = [dev EXCEPT !.data = Null]
          /\ Goto(t, "dead")
    /\ UNCHANGED <<mutex, pos, local>>

\* copy_from_user.
SimpleCopy(t) ==
    /\ At(t, "write")
    /\ \/ /\ dev' = [dev EXCEPT !.data.filled = TRUE]
          /\ Goto(t, "data_len")
       \/ /\ Faults
          /\ Goto(t, "write_unlock")
          /\ UNCHANGED dev
    /\ UNCHANGED <<mutex, pos, local>>

SimpleSize(t) ==
    /\ At(t, "data_len")
    /\ dev' = [dev EXCEPT !.size = local[t].count]
    /\ pos' = [pos EXCEPT ![t] = local[t].count]
    /\ Goto(t, "write_unlock")
    /\ UNCHANGED <<mutex, local>>

-----------------------------------------------------------------------------

SimpleTakesMutex(t) ==
    \/ Lock(t, "open_lock", "open_unlock")
    \/ Lock(t, "read_lock", "read")
    \/ Lock(t, "write_lock", "memset")

SimpleInKernel(t) ==
    \/ SimpleTakesMutex(t) \/ SimpleUnlock(t)
    \/ SimpleRead(t)
    \/ SimpleAllocate(t) \/ SimpleCopy(t) \/ SimpleSize(t)

SimpleCalls(t) ==
    \/ simple_char_open(t) \/ simple_char_release(t)
    \/ simple_char_read(t) \/ simple_char_write(t)

SimpleNext ==
    \E t \in Threads : SimpleInKernel(t) \/ SimpleCalls(t) \/ SimpleInterrupted(t)

SimpleSpec == SimpleInit /\ [][SimpleNext]_vars

-----------------------------------------------------------------------------
(* Properties *)

\* Every variable has its type.
SimpleTypeOK ==
    /\ dev \in [data : [len : Counts \cup {0}, filled : BOOLEAN], size : Counts \cup {0}]
    /\ mutex \in Threads \cup {Free}
    /\ pos \in [Threads -> Nat]
    /\ pc \in [Threads -> Inside \cup Waiting \cup {"closed", "open", "dead"}]
    /\ local \in [Threads -> [count : Counts \cup {0}, got : Counts \cup {0}]]

\* Data and size are replaced in two steps with a copy that may fail between
\* them.  Whoever holds the mutex next still finds a size that is the length of
\* the buffer, unless the data of the last write has not arrived.
SizeFitsData ==
    mutex = Free /\ dev.data.filled => dev.size = dev.data.len

=============================================================================
