------------------------------ MODULE CharDevice ------------------------------
(***************************************************************************)
(* What the drivers of lab1, of chapter 3 and of chapter 6 have in common: *)
(* one device structure with one mutex, threads that are somewhere in a    *)
(* call, and a position per open file.                                     *)
(***************************************************************************)
EXTENDS Integers

CONSTANTS
    Threads,    \* threads with the device open
    Counts,     \* counts passed to read and write
    Mode,       \* the access mode with which a thread opens the device
    Signals,    \* may a signal arrive
    Faults,     \* may a copy from or to user space, or an allocation, fail
    Free        \* the mutex has no owner

ASSUME CharDeviceAssumption ==
    /\ Free \notin Threads
    /\ Counts \subseteq Nat
    /\ Mode \in [Threads -> {"O_WRONLY", "O_RDWR"}]
    /\ Signals \in BOOLEAN
    /\ Faults \in BOOLEAN

VARIABLES
    dev,    \* the device structure, without its mutex
    mutex,  \* its mutex: the owner, or Free
    pos,    \* f_pos of the open files
    pc,     \* where every thread is
    local   \* the local variables of every thread

vars == <<dev, mutex, pos, pc, local>>

At(t, label) == pc[t] = label

Goto(t, label) == pc' = [pc EXCEPT ![t] = label]

\* The result of a failed mutex_lock_interruptible is not looked at.
Slip_Lock(t, from, to) ==
    /\ At(t, from)
    /\ mutex' = t
    /\ Goto(t, to)
    /\ UNCHANGED <<dev, pos, local>>

Lock(t, from, to) ==
    /\ At(t, from)
    /\ mutex = Free
    /\ mutex' = t
    /\ Goto(t, to)
    /\ UNCHANGED <<dev, pos, local>>

-----------------------------------------------------------------------------
(* Properties of all three drivers *)

\* Between mutex_lock and mutex_unlock, and before a mutex_lock.
Inside == {"open_unlock", "read", "write", "compute", "write_unlock",
           "memset", "memcpy", "data_len", "read_unlock"}
Waiting == {"open_lock", "read_lock", "write_lock"}

\* Whoever reads or changes the data under the mutex holds it, so that two are
\* never at it together, also when a call has failed before.
InsideWithMutex == \A t \in Threads : pc[t] \in Inside => mutex = t

\* Under fairness nobody waits for the mutex for ever, unless its owner has left
\* without giving it back.
LockServed ==
    \A t \in Threads : pc[t] \in Waiting ~>
        \/ pc[t] \notin Waiting
        \/ \E u \in Threads : mutex = u /\ pc[u] \notin Inside

=============================================================================
